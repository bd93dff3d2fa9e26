--------------------------- MODULE DemoTenantProofs ---------------------------
(***************************************************************************)
(* Why the dates of the demo store move together and not past today, why   *)
(* nothing is left of a store that is rebuilt, and why a report adds up,   *)
(* for any number of visitors, sales and rebuilds that overlap.  A         *)
(* timeline is moved, and a sale completed, under the lock of the store; a *)
(* rebuild has the locks of the user, of the store and of all its sales.   *)
(* Stock and sold pieces make up what was bought; the rest of a report is  *)
(* regrouping sums.                                                        *)
(***************************************************************************)
EXTENDS DemoTenant, RowLocksProofs, FiniteSetTheorems, WellFoundedInduction

Lockable ==
  ({"store"} \X Store) \cup ({"sale"} \X SaleKey)
    \cup ({"variant"} \X Store \X Variant) \cup {DemoUser}

Locks == LocksInv(Lockable) /\ task \in Traffic

Fields == {"store", "found", "days", "from", "to", "left", "answer"}
MemoOK == DOMAIN memo = Request /\ \A r \in Request : DOMAIN memo[r] = Fields

Types == TypeOK /\ IsFiniteSet(DOMAIN sale) /\ MemoOK

\* There are the store of the demo user, if he has one, and the other one.
Stores == DOMAIN stock = {manages, Shop} \ {NoStore} /\ manages # Shop

\* What has not been cancelled has been made by today.
MadeInv == \A k \in DOMAIN sale : sale[k].status # "cancelled" => sale[k].made <= day

\* A finished sale has its movements, and no sale has others.
BookedInv == DOMAIN movement = MovementKeys(sale)

RebuildPoints == {"rebuilding", "preparing", "emptying", "deleting", "building"}
SaleTasks == {"add", "complete", "cancel"}
SalePoints == SaleTasks \cup {"adding", "checking", "numbering", "restocking"}

\* Each kind of request has its own points, and begins without locks.
PointOf(r) ==
  /\ pc[r] = "idle" => Reserved(r) = {}
  /\ pc[r] \in {"refreshing", "shifting"} => task[r].kind = "login"
  /\ pc[r] \in RebuildPoints => task[r].kind = "seed"
  /\ pc[r] = "creating" => task[r].kind = "create"
  /\ pc[r] \in SalePoints => task[r].kind \in SaleTasks
  /\ pc[r] \in SaleTasks => task[r].kind = pc[r]

\* A visitor moves the timeline of the store that he has locked, with all its
\* finished sales and no others, and no completed one past today.
VisitOf(r) ==
  /\ pc[r] = "refreshing" =>
       memo[r].store \in Store \ {Shop} /\ Reserved(r) = {StoreRow(memo[r].store)}
  /\ pc[r] = "shifting" =>
       /\ memo[r].store = manages /\ manages # NoStore
       /\ StoreRow(manages) \in held[r] /\ memo[r].days \in 0..LastDay
       /\ \A k \in SaleKey : SaleRow(k) \in Reserved(r) => k[1] = manages
       /\ \A k \in SalesOf(manages) :
            /\ Finished(k) => SaleRow(k) \in Reserved(r)
            /\ sale[k].status = "completed" => sale[k].made + memo[r].days <= day

\* A rebuild has locked the user and, if there is an old store, it and its sales.
RebuildOf(r) ==
  /\ pc[r] = "preparing" =>
       DemoUser \in Reserved(r) /\ (memo[r].found => manages # NoStore)
  /\ pc[r] \in {"emptying", "deleting", "building"} => DemoUser \in held[r]
  /\ pc[r] = "emptying" => manages # NoStore /\ StoreRow(manages) \in Reserved(r)
  /\ pc[r] = "deleting" => manages # NoStore
  /\ pc[r] \in {"deleting", "building"} /\ manages # NoStore =>
       /\ StoreRow(manages) \in held[r]
       /\ \A k \in SalesOf(manages) : SaleRow(k) \in Reserved(r)

\* The key of a store that is to be built is not in use.
NewStoreOf(r) ==
  /\ pc[r] \in RebuildPoints => task[r].store \notin DOMAIN stock
  /\ pc[r] = "idle" /\ task[r].kind = "seed" /\ (task[r].reset \/ manages = NoStore)
       => task[r].store \notin DOMAIN stock

\* Nor is that of a sale that is to be made.
NewSaleOf(r) ==
  /\ task[r].kind = "create" /\ pc[r] \in {"idle", "creating"}
       => task[r].sale \notin DOMAIN sale
  /\ pc[r] = "creating" => StoreRow(task[r].sale[1]) \in Reserved(r)

\* A sale is added to, completed or cancelled under its lock; what it takes is there.
SaleOf(r) ==
  LET k == task[r].sale IN
  /\ pc[r] \in SaleTasks => SaleRow(k) \in Reserved(r)
  /\ pc[r] \in {"adding", "checking", "numbering", "restocking"} =>
       k \in DOMAIN sale /\ SaleRow(k) \in held[r]
  /\ pc[r] \in {"adding", "checking", "numbering"} => sale[k].status = "draft"
  /\ pc[r] = "checking" => \A v \in VariantsOf(k) : VariantRow(k[1], v) \in Reserved(r)
  /\ pc[r] = "numbering" =>
       /\ StoreRow(k[1]) \in Reserved(r)
       /\ \A v \in VariantsOf(k) :
            VariantRow(k[1], v) \in held[r] /\ Units(sale[k], v) <= stock[k[1]][v]
  /\ pc[r] = "restocking" => sale[k].status = "completed"

ControlOf(r) ==
  /\ PointOf(r) /\ VisitOf(r) /\ RebuildOf(r)
  /\ NewStoreOf(r) /\ NewSaleOf(r) /\ SaleOf(r)

IInv ==
  /\ Locks /\ Types /\ Stores /\ NothingDangles /\ MadeInv /\ BookedInv
  /\ \A r \in Request : ControlOf(r)
-----------------------------------------------------------------------------
(* Sets *)

LEMMA LeastNumber ==
  ASSUME NEW T \in SUBSET Nat, T # {}
  PROVE  \E x \in T : \A y \in T : x <= y
<1> DEFINE R == OpToRel(<, Nat)
<1>1. IsWellFoundedOn(R, Nat)
  BY NatLessThanWellFounded
<1>2. \A x, y \in Nat : y < x => <<y, x>> \in R
  BY DEF OpToRel
<1> HIDE DEF R
<1>3. PICK x \in T : \A y \in T : ~ (<<y, x>> \in R)
  BY <1>1, WFMin
<1>4. ASSUME NEW y \in T
      PROVE  x <= y
  <2>1. x \in Nat /\ y \in Nat
    OBVIOUS
  <2>2. ~ (y < x)
    BY <1>2, <1>3, <2>1, Zenon
  <2>3. QED
    BY <2>1, <2>2
<1>5. QED
  BY <1>4, Zenon

\* Among the sets in B there is one all of whose proper subsets are not in B.
LEMMA SmallestSet ==
  ASSUME NEW D, IsFiniteSet(D), NEW B \in SUBSET SUBSET D, B # {}
  PROVE  \E S \in B : \A x \in S : S \ {x} \notin B
<1> DEFINE T == {Cardinality(S) : S \in B}
<1>1. \A S \in B : IsFiniteSet(S) /\ Cardinality(S) \in Nat
  BY FS_Subset, FS_CardinalityType
<1>2. T \in SUBSET Nat /\ T # {}
  BY <1>1
<1>3. PICK n \in T : \A m \in T : n <= m
  BY <1>2, LeastNumber
<1>4. PICK S \in B : n = Cardinality(S)
  OBVIOUS
<1>5. ASSUME NEW x \in S, S \ {x} \in B
      PROVE  FALSE
  <2>1. IsFiniteSet(S) /\ Cardinality(S) \in Nat
    BY <1>1
  <2>2. Cardinality(S \ {x}) = Cardinality(S) - 1
    BY <2>1, FS_RemoveElement
  <2>3. Cardinality(S \ {x}) \in T
    BY <1>5
  <2>4. n <= Cardinality(S \ {x})
    BY <1>3, <2>3, Zenon
  <2>5. QED
    BY <1>4, <2>1, <2>2, <2>4
<1>6. QED
  BY <1>5

-----------------------------------------------------------------------------
(* Sums *)

\* g gives, for each set of indices, the sum of f over it.
IsFold(g, f) ==
  g = [s \in SUBSET (DOMAIN f) |->
        IF s = {} THEN 0
        ELSE LET x == CHOOSE x \in s : TRUE IN f[x] + g[s \ {x}]]

LEMMA SumIsFold ==
  ASSUME NEW f
  PROVE  SumFunction(f) = (CHOOSE g : IsFold(g, f))[DOMAIN f]
  BY Zenon DEF SumFunction, SumFunctionOnSet, FoldFunctionOnSet, MapThenFoldSet,
    IsFold

\* The equation of a fold, without its function.
LEMMA FoldStep ==
  ASSUME NEW f, NEW g, IsFold(g, f), NEW S \in SUBSET (DOMAIN f)
  PROVE  /\ S = {} => g[S] = 0
         /\ S # {} => \E x \in S : /\ x = (CHOOSE y \in S : TRUE)
                                   /\ g[S] = f[x] + g[S \ {x}]
<1> DEFINE x == CHOOSE y \in S : TRUE
<1>1. S # {} => x \in S
  OBVIOUS
<1>2. g[S] = IF S = {} THEN 0 ELSE f[x] + g[S \ {x}]
  BY DEF IsFold
<1>3. QED
  BY <1>1, <1>2

LEMMA FoldExists ==
  ASSUME NEW f, IsFiniteSet(DOMAIN f)
  PROVE  \E g : IsFold(g, f)
<1> DEFINE D == DOMAIN f
           Some(S) == CHOOSE x \in S : TRUE
           Fits(g, S) == g[S] = IF S = {} THEN 0 ELSE f[Some(S)] + g[S \ {Some(S)}]
           UpTo(n) == \E g : /\ g = [S \in SUBSET D |-> g[S]]
                             /\ \A S \in SUBSET D : Cardinality(S) <= n => Fits(g, S)
           Bad == {n \in Nat : ~ UpTo(n)}
<1>1. \A S \in SUBSET D : IsFiniteSet(S) /\ Cardinality(S) \in Nat
  BY FS_Subset, FS_CardinalityType
<1>2. \A S \in SUBSET D : S # {} => Some(S) \in S
  OBVIOUS
<1>3. UpTo(0)
  <2> DEFINE g == [S \in SUBSET D |-> 0]
  <2>1. \A S \in SUBSET D : Cardinality(S) <= 0 => S = {}
    BY <1>1, FS_EmptySet
  <2>2. \A S \in SUBSET D : Cardinality(S) <= 0 => Fits(g, S)
    BY <2>1
  <2>3. g = [S \in SUBSET D |-> g[S]]
    OBVIOUS
  <2>4. QED
    BY <2>2, <2>3
<1>4. ASSUME NEW n \in Nat, UpTo(n)
      PROVE  UpTo(n + 1)
  <2>1. PICK g : /\ g = [S \in SUBSET D |-> g[S]]
                 /\ \A S \in SUBSET D : Cardinality(S) <= n => Fits(g, S)
    BY <1>4
  <2> DEFINE h == [S \in SUBSET D |->
                     IF Cardinality(S) <= n THEN g[S] ELSE f[Some(S)] + g[S \ {Some(S)}]]
  <2>2. ASSUME NEW S \in SUBSET D, Cardinality(S) <= n + 1
        PROVE  Fits(h, S)
    <3>1. CASE S = {}
      <4>1. Cardinality(S) <= n
        BY <3>1, FS_EmptySet
      <4>2. h[S] = 0
        BY <2>1, <3>1, <4>1
      <4>3. QED
        BY <3>1, <4>2
    <3>2. CASE S # {}
      <4> DEFINE x == Some(S)
                 P == S \ {x}
      <4>1. x \in S /\ P \in SUBSET D
        BY <1>2, <3>2
      <4>2. Cardinality(P) = Cardinality(S) - 1 /\ Cardinality(S) \in Nat
        BY <1>1, <4>1, FS_RemoveElement
      <4> HIDE DEF x, P
      <4>3. Cardinality(P) <= n
        BY <2>2, <4>2
      <4>4. h[P] = g[P]
        BY <4>1, <4>3
      <4>5. h[S] = f[x] + g[P]
        <5>1. CASE Cardinality(S) <= n
          BY <2>1, <3>2, <5>1 DEF x, P
        <5>2. CASE ~ (Cardinality(S) <= n)
          BY <5>2 DEF x, P
        <5>3. QED
          BY <5>1, <5>2
      <4>6. h[S] = f[x] + h[P]
        BY <4>4, <4>5
      <4>7. QED
        BY <3>2, <4>6 DEF x, P
    <3>3. QED
      BY <3>1, <3>2
  <2>3. h = [S \in SUBSET D |-> h[S]]
    OBVIOUS
  <2> HIDE DEF h
  <2>4. QED
    BY <2>2, <2>3
<1> HIDE DEF UpTo
<1>5. Bad = {}
  <2> SUFFICES ASSUME Bad # {}
               PROVE  FALSE
    OBVIOUS
  <2>1. PICK n \in Bad : \A m \in Bad : n <= m
    BY LeastNumber
  <2>2. n # 0
    BY <1>3
  <2>3. n - 1 \in Nat /\ n - 1 \notin Bad
    BY <2>1, <2>2
  <2>4. UpTo((n - 1) + 1)
    BY <1>4, <2>3
  <2>5. (n - 1) + 1 = n
    OBVIOUS
  <2>6. QED
    BY <2>1, <2>4, <2>5
<1>6. Cardinality(D) \in Nat /\ UpTo(Cardinality(D))
  BY <1>1, <1>5
<1>7. PICK g : /\ g = [S \in SUBSET D |-> g[S]]
               /\ \A S \in SUBSET D : Cardinality(S) <= Cardinality(D) => Fits(g, S)
  BY <1>6 DEF UpTo
<1>8. \A S \in SUBSET D : Cardinality(S) <= Cardinality(D)
  BY FS_Subset
<1>9. \A S \in SUBSET D : Fits(g, S)
  BY <1>7, <1>8
<1>10. g = [S \in SUBSET D |->
              IF S = {} THEN 0
              ELSE LET x == CHOOSE x \in S : TRUE IN f[x] + g[S \ {x}]]
  BY <1>7, <1>9
<1>11. QED
  BY <1>10 DEF IsFold

\* Of functions that agree on a finite set of indices the folds agree there,
\* and on a finite set of integers a fold is an integer.
LEMMA FoldsAgree ==
  ASSUME NEW f, NEW h, NEW g, NEW k, IsFold(g, f), IsFold(k, h),
         NEW D, IsFiniteSet(D), D \subseteq DOMAIN f, D \subseteq DOMAIN h,
         \A x \in D : f[x] = h[x] /\ f[x] \in Int
  PROVE  g[D] = k[D] /\ g[D] \in Int
<1> DEFINE Bad == {S \in SUBSET D : ~ (g[S] = k[S] /\ g[S] \in Int)}
<1>1. Bad = {}
  <2> SUFFICES ASSUME Bad # {}
               PROVE  FALSE
    OBVIOUS
  <2>1. PICK S \in Bad : \A x \in S : S \ {x} \notin Bad
    BY SmallestSet
  <2>2. S \in SUBSET (DOMAIN f) /\ S \in SUBSET (DOMAIN h) /\ S \in SUBSET D
    OBVIOUS
  <2>3. S # {}
    BY <2>2, FoldStep
  <2>4. PICK x \in S : x = (CHOOSE y \in S : TRUE) /\ g[S] = f[x] + g[S \ {x}]
    BY <2>2, <2>3, FoldStep
  <2>5. k[S] = h[x] + k[S \ {x}]
    <3>1. PICK y \in S : y = (CHOOSE z \in S : TRUE) /\ k[S] = h[y] + k[S \ {y}]
      BY <2>2, <2>3, FoldStep
    <3>2. y = x
      BY <2>4, <3>1
    <3>3. QED
      BY <3>1, <3>2
  <2>6. g[S \ {x}] = k[S \ {x}] /\ g[S \ {x}] \in Int
    BY <2>1, <2>2
  <2>7. f[x] = h[x] /\ f[x] \in Int
    BY <2>2
  <2>8. g[S] = k[S] /\ g[S] \in Int
    BY <2>4, <2>5, <2>6, <2>7
  <2>9. QED
    BY <2>8
<1>2. QED
  BY <1>1

\* Which index a fold takes first makes no difference.
LEMMA FoldAnyOrder ==
  ASSUME NEW f, NEW g, IsFold(g, f), IsFiniteSet(DOMAIN f),
         \A x \in DOMAIN f : f[x] \in Int,
         NEW D \in SUBSET DOMAIN f, NEW z \in D
  PROVE  g[D] = f[z] + g[D \ {z}]
<1> DEFINE Bad == {S \in SUBSET DOMAIN f : \E x \in S : g[S] # f[x] + g[S \ {x}]}
<1>1. \A S \in SUBSET DOMAIN f : g[S] \in Int
  BY FoldsAgree, FS_Subset
<1>2. Bad = {}
  <2> SUFFICES ASSUME Bad # {}
               PROVE  FALSE
    OBVIOUS
  <2>1. PICK S \in Bad : \A x \in S : S \ {x} \notin Bad
    BY SmallestSet
  <2>2. PICK x \in S : g[S] # f[x] + g[S \ {x}]
    OBVIOUS
  <2>3. PICK y \in S : g[S] = f[y] + g[S \ {y}]
    BY <2>2, FoldStep
  <2>4. x # y
    BY <2>2, <2>3
  <2> DEFINE rest == S \ {x, y}
  <2>5. (S \ {x}) \ {y} = rest /\ (S \ {y}) \ {x} = rest
    OBVIOUS
  <2>6. g[S \ {y}] = f[x] + g[(S \ {y}) \ {x}]
    <3>1. S \ {y} \in SUBSET DOMAIN f /\ S \ {y} \notin Bad /\ x \in S \ {y}
      BY <2>1, <2>4
    <3>2. QED
      BY <3>1
  <2>7. g[S \ {x}] = f[y] + g[(S \ {x}) \ {y}]
    <3>1. S \ {x} \in SUBSET DOMAIN f /\ S \ {x} \notin Bad /\ y \in S \ {x}
      BY <2>1, <2>4
    <3>2. QED
      BY <3>1
  <2> HIDE DEF rest
  <2>8. g[S \ {y}] = f[x] + g[rest] /\ g[S \ {x}] = f[y] + g[rest]
    BY <2>5, <2>6, <2>7
  <2>9. rest \in SUBSET DOMAIN f /\ f[x] \in Int /\ f[y] \in Int
    BY DEF rest
  <2>10. g[rest] \in Int
    BY <1>1, <2>9
  <2>11. f[y] + (f[x] + g[rest]) = f[x] + (f[y] + g[rest])
    BY <2>9, <2>10
  <2>12. QED
    BY <2>2, <2>3, <2>8, <2>11
<1>3. QED
  BY <1>2

\* The laws of sums that the proofs about the services use.
LEMMA SumByFold ==
  ASSUME NEW f, IsFiniteSet(DOMAIN f)
  PROVE  \E g : IsFold(g, f) /\ SumFunction(f) = g[DOMAIN f]
  BY FoldExists, SumIsFold

LEMMA SumOfNone ==
  ASSUME NEW f, DOMAIN f = {}
  PROVE  SumFunction(f) = 0
<1>1. PICK g : IsFold(g, f) /\ SumFunction(f) = g[DOMAIN f]
  BY SumByFold, FS_EmptySet
<1>2. QED
  BY <1>1, FoldStep

\* The sum of f over a set of its indices.
SumOver(f, D) == SumFunction([x \in D |-> f[x]])

LEMMA SumWhole ==
  ASSUME NEW D, NEW f, f = [x \in D |-> f[x]]
  PROVE  SumFunction(f) = SumOver(f, D)
  BY Zenon DEF SumOver

LEMMA SumEmpty ==
  ASSUME NEW f
  PROVE  SumOver(f, {}) = 0
  BY SumOfNone DEF SumOver

\* A sum is that over any one index and that over the others.
LEMMA SumTake ==
  ASSUME NEW D, IsFiniteSet(D), NEW f, \A x \in D : f[x] \in Int
  PROVE  /\ SumOver(f, D) \in Int
         /\ \A x \in D : SumOver(f, D) = f[x] + SumOver(f, D \ {x})
<1> DEFINE h == [y \in D |-> f[y]]
<1>1. DOMAIN h = D /\ \A x \in D : h[x] = f[x] /\ h[x] \in Int
  OBVIOUS
<1> HIDE DEF h
<1>2. PICK g : IsFold(g, h) /\ SumFunction(h) = g[D]
  BY <1>1, SumByFold
<1>3. g[D] \in Int
  BY <1>1, <1>2, FoldsAgree
<1>4. ASSUME NEW x \in D
      PROVE  g[D] = f[x] + SumOver(f, D \ {x})
  <2> DEFINE E == D \ {x}
             k == [y \in E |-> f[y]]
  <2>1. IsFiniteSet(E) /\ DOMAIN k = E /\ \A y \in E : k[y] = f[y] /\ k[y] = h[y]
    BY <1>1, FS_RemoveElement
  <2> HIDE DEF k
  <2>2. PICK e : IsFold(e, k) /\ SumFunction(k) = e[E]
    BY <2>1, SumByFold
  <2>3. g[E] = e[E]
    BY <1>1, <1>2, <2>1, <2>2, FoldsAgree
  <2>4. g[D] = h[x] + g[E]
    BY <1>1, <1>2, FoldAnyOrder
  <2>5. SumOver(f, E) = SumFunction(k)
    BY DEF SumOver, k
  <2>6. QED
    BY <1>1, <2>2, <2>3, <2>4, <2>5
<1>5. SumOver(f, D) = g[D]
  BY <1>2 DEF SumOver, h
<1>6. QED
  BY <1>3, <1>4, <1>5

\* A sum is those over two parts.
LEMMA SumSplit ==
  ASSUME NEW D, IsFiniteSet(D), NEW f, \A x \in D : f[x] \in Int, NEW E \in SUBSET D
  PROVE  SumOver(f, D) = SumOver(f, D \ E) + SumOver(f, E)
<1> DEFINE Bad == {S \in SUBSET D : SumOver(f, D) # SumOver(f, D \ S) + SumOver(f, S)}
<1>1. \A S \in SUBSET D : /\ SumOver(f, S) \in Int
                          /\ \A x \in S : SumOver(f, S) = f[x] + SumOver(f, S \ {x})
  BY SumTake, FS_Subset
<1>2. Bad = {}
  <2> SUFFICES ASSUME Bad # {}
               PROVE  FALSE
    OBVIOUS
  <2>1. PICK S \in Bad : \A x \in S : S \ {x} \notin Bad
    BY SmallestSet
  <2>2. S # {}
    <3>1. D \ {} = D /\ SumOver(f, {}) = 0
      BY SumEmpty
    <3>2. SumOver(f, D) = SumOver(f, D \ {}) + SumOver(f, {})
      BY <1>1, <3>1
    <3>3. QED
      BY <3>2
  <2>3. PICK x \in S : TRUE
    BY <2>2
  <2> DEFINE T == S \ {x}
  <2>4. T \in SUBSET D /\ D \ T \in SUBSET D /\ x \in D \ T /\ (D \ T) \ {x} = D \ S
    OBVIOUS
  <2>5. SumOver(f, D) = SumOver(f, D \ T) + SumOver(f, T)
    BY <2>1, <2>4
  <2>6. /\ SumOver(f, D \ T) = f[x] + SumOver(f, D \ S)
        /\ SumOver(f, S) = f[x] + SumOver(f, T)
    <3>1. SumOver(f, D \ T) = f[x] + SumOver(f, (D \ T) \ {x})
      BY <1>1, <2>4
    <3>2. SumOver(f, S) = f[x] + SumOver(f, S \ {x})
      BY <1>1, <2>3
    <3>3. QED
      BY <2>4, <3>1, <3>2
  <2>7. SumOver(f, T) \in Int /\ SumOver(f, D \ S) \in Int /\ f[x] \in Int
    BY <1>1, <2>4
  <2> HIDE DEF T
  <2>8. SumOver(f, D) = SumOver(f, D \ S) + SumOver(f, S)
    BY <2>5, <2>6, <2>7
  <2>9. QED
    BY <2>8
<1>3. QED
  BY <1>2

\* Summing in another numbering of the indices changes nothing.
LEMMA SumReindex ==
  ASSUME NEW D, IsFiniteSet(D), NEW E, NEW b \in Bijection(D, E), NEW f, NEW h,
         \A x \in D : h[x] \in Int, \A x \in D : h[x] = f[b[x]]
  PROVE  SumOver(h, D) = SumOver(f, E)
<1>0. /\ b \in [D -> E]
      /\ \A x, y \in D : b[x] = b[y] => x = y
      /\ \A e \in E : \E x \in D : e = b[x]
  BY DEF Bijection, Injection, IsInjective, Surjection
<1> DEFINE Img(S) == {b[x] : x \in S}
           Bad == {S \in SUBSET D : SumOver(h, S) # SumOver(f, Img(S))}
<1>1. ASSUME NEW S \in SUBSET D
      PROVE  IsFiniteSet(S) /\ IsFiniteSet(Img(S))
  <2>1. IsFiniteSet(S)
    BY FS_Subset
  <2> DEFINE c == [x \in S |-> b[x]]
  <2>2. c \in Surjection(S, Img(S))
    BY <1>0 DEF Surjection
  <2>3. QED
    BY <2>1, <2>2, FS_Surjection
<1>2. Img(D) = E /\ Img({}) = {}
  BY <1>0
<1>3. ASSUME NEW S \in SUBSET D, NEW x \in S
      PROVE  /\ SumOver(h, S) = h[x] + SumOver(h, S \ {x})
             /\ SumOver(f, Img(S)) = h[x] + SumOver(f, Img(S \ {x}))
  <2>0. IsFiniteSet(S) /\ \A y \in S : h[y] \in Int
    BY <1>1
  <2>1. \A y \in S : SumOver(h, S) = h[y] + SumOver(h, S \ {y})
    BY <2>0, SumTake, Zenon
  <2>2. /\ IsFiniteSet(Img(S)) /\ \A e \in Img(S) : f[e] \in Int
        /\ b[x] \in Img(S) /\ f[b[x]] = h[x]
    BY <1>1
  <2>5. Img(S) \ {b[x]} = Img(S \ {x})
    BY <1>0
  <2> HIDE DEF Img
  <2>3. \A e \in Img(S) : SumOver(f, Img(S)) = f[e] + SumOver(f, Img(S) \ {e})
    BY <2>2, SumTake, Zenon
  <2>4. QED
    BY <2>1, <2>2, <2>3, <2>5
<1> HIDE DEF Img
<1>4. Bad = {}
  <2> SUFFICES ASSUME Bad # {}
               PROVE  FALSE
    OBVIOUS
  <2>1. PICK S \in Bad : \A x \in S : S \ {x} \notin Bad
    BY SmallestSet
  <2>2. S # {}
    BY <1>2, SumEmpty
  <2>3. PICK x \in S : TRUE
    BY <2>2
  <2>4. SumOver(h, S \ {x}) = SumOver(f, Img(S \ {x}))
    BY <2>1
  <2>5. SumOver(h, S) = SumOver(f, Img(S))
    BY <1>3, <2>4
  <2>6. QED
    BY <2>5
<1>5. QED
  BY <1>2, <1>4

\* Functions that agree have the same sum.
LEMMA SumSame ==
  ASSUME NEW D, NEW f, NEW h, \A x \in D : h[x] = f[x]
  PROVE  SumOver(h, D) = SumOver(f, D)
<1>1. [x \in D |-> h[x]] = [x \in D |-> f[x]]
  OBVIOUS
<1>2. QED
  BY <1>1 DEF SumOver

\* A sum of natural numbers is one, and 0 if they all are.
LEMMA SumNat ==
  ASSUME NEW D, IsFiniteSet(D), NEW f, \A x \in D : f[x] \in Nat
  PROVE  /\ SumOver(f, D) \in Nat
         /\ (\A x \in D : f[x] = 0) => SumOver(f, D) = 0
<1> DEFINE None == \A x \in D : f[x] = 0
           Good(S) == SumOver(f, S) \in Nat /\ (None => SumOver(f, S) = 0)
           Bad == {S \in SUBSET D : ~ Good(S)}
<1>1. Bad = {}
  <2> SUFFICES ASSUME Bad # {}
               PROVE  FALSE
    OBVIOUS
  <2>1. PICK S \in Bad : \A x \in S : S \ {x} \notin Bad
    BY SmallestSet
  <2>2. S \in SUBSET D /\ ~ Good(S) /\ IsFiniteSet(S) /\ \A x \in S : f[x] \in Int
    BY FS_Subset
  <2>3. Good({})
    BY SumEmpty
  <2>4. PICK x \in S : TRUE
    BY <2>2, <2>3
  <2>5. SumOver(f, S) = f[x] + SumOver(f, S \ {x})
    BY <2>2, SumTake
  <2>6. Good(S \ {x}) /\ f[x] \in Nat /\ (None => f[x] = 0)
    BY <2>1, <2>2
  <2> HIDE DEF None
  <2>7. Good(S)
    BY <2>5, <2>6
  <2>8. QED
    BY <2>2, <2>7
<1>2. QED
  BY <1>1

\* A sum over some indices is no more than that over all.
LEMMA SumOfSome ==
  ASSUME NEW D, IsFiniteSet(D), NEW f, \A x \in D : f[x] \in Nat, NEW E \in SUBSET D
  PROVE  SumOver(f, E) <= SumOver(f, D)
<1>1. SumOver(f, D) = SumOver(f, D \ E) + SumOver(f, E)
  BY SumSplit
<1>2. IsFiniteSet(E) /\ IsFiniteSet(D \ E)
  BY FS_Subset
<1>3. SumOver(f, E) \in Nat /\ SumOver(f, D \ E) \in Nat
  BY <1>2, SumNat
<1>4. QED
  BY <1>1, <1>3

\* The sum of sums of two numbers.
LEMMA SumAdd ==
  ASSUME NEW D, IsFiniteSet(D), NEW f, NEW g, NEW h,
         \A x \in D : f[x] \in Int /\ g[x] \in Int /\ h[x] = f[x] + g[x]
  PROVE  SumOver(h, D) = SumOver(f, D) + SumOver(g, D)
<1> DEFINE Bad == {S \in SUBSET D : SumOver(h, S) # SumOver(f, S) + SumOver(g, S)}
<1>1. Bad = {}
  <2> SUFFICES ASSUME Bad # {}
               PROVE  FALSE
    OBVIOUS
  <2>1. PICK S \in Bad : \A x \in S : S \ {x} \notin Bad
    BY SmallestSet
  <2>2. /\ S \in SUBSET D /\ SumOver(h, S) # SumOver(f, S) + SumOver(g, S)
        /\ IsFiniteSet(S) /\ \A x \in S : f[x] \in Int /\ g[x] \in Int /\ h[x] \in Int
    BY FS_Subset
  <2>3. S # {}
    BY <2>2, SumEmpty
  <2>4. PICK x \in S : TRUE
    BY <2>3
  <2>5. PICK R : R = S \ {x} /\ R \in SUBSET D /\ IsFiniteSet(R)
    BY <2>2, FS_RemoveElement
  <2>6. /\ SumOver(f, S) = f[x] + SumOver(f, R) /\ SumOver(g, S) = g[x] + SumOver(g, R)
        /\ SumOver(h, S) = h[x] + SumOver(h, R)
    BY <2>2, <2>5, SumTake
  <2>7. SumOver(h, R) = SumOver(f, R) + SumOver(g, R)
    BY <2>1, <2>5
  <2>8. SumOver(f, R) \in Int /\ SumOver(g, R) \in Int
    BY <2>5, SumTake
  <2>9. f[x] \in Int /\ g[x] \in Int /\ h[x] = f[x] + g[x]
    BY <2>2
  <2>10. QED
    BY <2>2, <2>6, <2>7, <2>8, <2>9
<1>2. QED
  BY <1>1

\* Counting adds up ones.
LEMMA SumOfOnes ==
  ASSUME NEW D, IsFiniteSet(D), NEW f, \A x \in D : f[x] = 1
  PROVE  SumOver(f, D) = Cardinality(D)
<1> DEFINE Bad == {S \in SUBSET D : SumOver(f, S) # Cardinality(S)}
<1>1. Bad = {}
  <2> SUFFICES ASSUME Bad # {}
               PROVE  FALSE
    OBVIOUS
  <2>1. PICK S \in Bad : \A x \in S : S \ {x} \notin Bad
    BY SmallestSet
  <2>2. /\ S \in SUBSET D /\ SumOver(f, S) # Cardinality(S)
        /\ IsFiniteSet(S) /\ \A x \in S : f[x] = 1 /\ f[x] \in Int
    BY FS_Subset
  <2>3. S # {}
    BY <2>2, SumEmpty, FS_EmptySet
  <2>4. PICK x \in S : TRUE
    BY <2>3
  <2>5. SumOver(f, S) = f[x] + SumOver(f, S \ {x})
    BY <2>2, SumTake
  <2>6. SumOver(f, S \ {x}) = Cardinality(S \ {x})
    BY <2>1, <2>2
  <2>7. Cardinality(S \ {x}) = Cardinality(S) - 1 /\ Cardinality(S) \in Nat
    BY <2>2, FS_RemoveElement, FS_CardinalityType
  <2>8. QED
    BY <2>2, <2>5, <2>6, <2>7
<1>2. QED
  BY <1>1

\* The indices have marks, of which there are finitely many, and the sum for a
\* mark is that over the indices which have it.
Grouped(f, D, mark, M, sums) ==
  /\ IsFiniteSet(D) /\ IsFiniteSet(M)
  /\ \A x \in D : f[x] \in Int /\ mark[x] \in M
  /\ \A m \in M : sums[m] = SumOver(f, {x \in D : mark[x] = m})

\* The sums for the marks add up to that over all indices.
LEMMA SumByMark ==
  ASSUME NEW D, NEW f, NEW M, NEW mark, NEW sums, Grouped(f, D, mark, M, sums)
  PROVE  SumOver(sums, M) = SumOver(f, D)
<1> USE DEF Grouped
<1> DEFINE Of(S) == {x \in D : mark[x] \in S}
           Bad == {S \in SUBSET M : SumOver(sums, S) # SumOver(f, Of(S))}
<1>1. ASSUME NEW S \in SUBSET D
      PROVE  IsFiniteSet(S) /\ SumOver(f, S) \in Int
  <2>1. IsFiniteSet(S)
    BY FS_Subset
  <2>2. QED
    BY <2>1, SumTake
<1>2. \A m \in M : sums[m] \in Int
  BY <1>1
<1>3. Bad = {}
  <2> SUFFICES ASSUME Bad # {}
               PROVE  FALSE
    OBVIOUS
  <2>1. PICK S \in Bad : \A m \in S : S \ {m} \notin Bad
    BY SmallestSet
  <2>2. /\ S \in SUBSET M /\ SumOver(sums, S) # SumOver(f, Of(S))
        /\ IsFiniteSet(S) /\ \A m \in S : sums[m] \in Int
    BY <1>2, FS_Subset
  <2>3. S # {}
    <3>1. Of({}) = {}
      OBVIOUS
    <3>2. QED
      BY <2>2, <3>1, SumEmpty
  <2>4. PICK m \in S : TRUE
    BY <2>3
  <2>5. PICK R, P, Q, X : /\ R = S \ {m} /\ P = Of(S) /\ Q = Of(R)
                          /\ X = {x \in D : mark[x] = m}
    OBVIOUS
  <2>6. P \in SUBSET D /\ X \in SUBSET P /\ P \ X = Q /\ R \in SUBSET M
    BY <2>2, <2>5
  <2>7. SumOver(sums, S) = sums[m] + SumOver(sums, R)
    BY <2>2, <2>5, SumTake
  <2>8. SumOver(f, P) = SumOver(f, Q) + SumOver(f, X)
    <3>1. IsFiniteSet(P) /\ \A x \in P : f[x] \in Int
      BY <1>1, <2>6
    <3>2. SumOver(f, P) = SumOver(f, P \ X) + SumOver(f, X)
      BY <2>6, <3>1, SumSplit
    <3>3. QED
      BY <2>6, <3>2
  <2>9. SumOver(sums, R) = SumOver(f, Q) /\ sums[m] = SumOver(f, X)
    BY <2>1, <2>2, <2>5, <2>6
  <2>10. SumOver(f, Q) \in Int /\ SumOver(f, X) \in Int
    BY <1>1, <2>6
  <2>11. SumOver(sums, S) = SumOver(f, P)
    <3>1. SumOver(sums, S) = SumOver(f, X) + SumOver(f, Q)
      BY <2>7, <2>9
    <3>2. QED
      BY <3>1, <2>8, <2>10
  <2>12. P = Of(S)
    BY <2>5
  <2>13. QED
    BY <2>2, <2>11, <2>12
<1>4. Of(M) = D
  OBVIOUS
<1>5. SumOver(sums, M) = SumOver(f, Of(M))
  BY <1>3
<1>6. QED
  BY <1>4, <1>5

\* Only the indices with mark m count.
Masked(g, f, D, mark, m) ==
  IsFiniteSet(D) /\ \A x \in D : f[x] \in Int /\ g[x] = IF mark[x] = m THEN f[x] ELSE 0

LEMMA SumOfMarked ==
  ASSUME NEW D, NEW f, NEW mark, NEW m, NEW g, Masked(g, f, D, mark, m)
  PROVE  SumOver(g, D) = SumOver(f, {x \in D : mark[x] = m})
<1> USE DEF Masked
<1> DEFINE E == {x \in D : mark[x] = m}
<1>1. E \in SUBSET D /\ IsFiniteSet(D \ E) /\ \A x \in D : g[x] \in Int
  BY FS_Subset
<1>2. SumOver(g, D) = SumOver(g, D \ E) + SumOver(g, E)
  BY <1>1, SumSplit
<1>3. SumOver(g, D \ E) = 0
  <2>1. \A x \in D \ E : g[x] \in Nat /\ g[x] = 0
    OBVIOUS
  <2>2. QED
    BY <1>1, <2>1, SumNat
<1>4. SumOver(g, E) = SumOver(f, E) /\ SumOver(f, E) \in Int
  <2>1. \A x \in E : g[x] = f[x]
    OBVIOUS
  <2>2. IsFiniteSet(E) /\ \A x \in E : f[x] \in Int
    BY FS_Subset
  <2>3. QED
    BY <2>1, <2>2, SumSame, SumTake
<1>5. QED
  BY <1>2, <1>3, <1>4

-----------------------------------------------------------------------------
(* What a sale takes of a variant *)

\* It is a number, and 0 if the sale has no line of the variant.
LEMMA UnitsType ==
  ASSUME NEW row, NEW v, IsFiniteSet(DOMAIN Lines[row.basket]),
         \A i \in DOMAIN Lines[row.basket] : Lines[row.basket][i].units \in Nat
  PROVE  /\ Units(row, v) \in Nat
         /\ (\A i \in DOMAIN Lines[row.basket] : Lines[row.basket][i].variant # v)
              => Units(row, v) = 0
<1> DEFINE D == DOMAIN Lines[row.basket]
           f == [i \in D |-> IF Lines[row.basket][i].variant = v
                             THEN Lines[row.basket][i].units ELSE 0]
<1>1. /\ f = [i \in D |-> f[i]] /\ \A i \in D : f[i] \in Nat
      /\ (\A i \in D : Lines[row.basket][i].variant # v) => \A i \in D : f[i] = 0
  OBVIOUS
<1>2. Units(row, v) = SumFunction(f)
  BY DEF Units
<1> HIDE DEF f
<1>3. Units(row, v) = SumOver(f, D)
  BY <1>1, <1>2, SumWhole
<1>4. QED
  BY <1>1, <1>3, SumNat

\* The greatest of some numbers.
LEMMA MaxOfNumbers ==
  ASSUME NEW S \in SUBSET Nat, IsFiniteSet(S), S # {}
  PROVE  Max(S) \in S /\ \A x \in S : x <= Max(S)
<1> DEFINE Tops(T) == \E x \in T : \A y \in T : y <= x
           Bad == {T \in SUBSET S : T # {} /\ ~ Tops(T)}
<1>1. Bad = {}
  <2> SUFFICES ASSUME Bad # {}
               PROVE  FALSE
    OBVIOUS
  <2>1. PICK T \in Bad : \A x \in T : T \ {x} \notin Bad
    BY SmallestSet
  <2>2. PICK x \in T : TRUE
    OBVIOUS
  <2>3. T \ {x} # {}
    <3>1. T \ {x} = {} => \A y \in T : y <= x
      OBVIOUS
    <3>2. QED
      BY <3>1
  <2>4. PICK y \in T \ {x} : \A z \in T \ {x} : z <= y
    BY <2>1, <2>3
  <2>5. x \in Nat /\ y \in Nat /\ \A z \in T : z \in Nat
    OBVIOUS
  <2>6. CASE x <= y
    <3>1. \A z \in T : z <= y
      BY <2>4, <2>6
    <3>2. QED
      BY <3>1
  <2>7. CASE ~ (x <= y)
    <3>1. \A z \in T : z <= x
      BY <2>4, <2>5, <2>7
    <3>2. QED
      BY <3>1
  <2>8. QED
    BY <2>6, <2>7
<1>2. PICK m \in S : \A y \in S : y <= m
  BY <1>1
<1>3. \A y \in S : m >= y
  BY <1>2
<1>4. Max(S) \in S /\ \A y \in S : Max(S) >= y
  BY <1>3 DEF Max
<1>5. QED
  BY <1>4

-----------------------------------------------------------------------------
(* Tables *)

\* The table h has the rows of f, and those of g with other keys.
Joined(f, g, h) ==
  /\ DOMAIN h = DOMAIN f \cup DOMAIN g
  /\ \A x \in DOMAIN f : h[x] = f[x]
  /\ \A x \in DOMAIN g \ DOMAIN f : h[x] = g[x]

LEMMA JoinIs ==
  ASSUME NEW f, NEW g
  PROVE  Joined(f, g, Join(f, g))
  BY DEF Joined, Join

\* The table g has the rows of f with keys in S.
Kept(f, S, g) ==
  DOMAIN g = DOMAIN f \cap S /\ \A x \in DOMAIN f \cap S : g[x] = f[x]

LEMMA KeepIs ==
  ASSUME NEW f, NEW S
  PROVE  Kept(f, S, Keep(f, S))
  BY DEF Kept, Keep

\* The table g is f with a row added or replaced.
Written(f, g, k, row) ==
  /\ DOMAIN g = DOMAIN f \cup {k} /\ g[k] = row
  /\ \A j \in DOMAIN f \ {k} : g[j] = f[j]

LEMMA AddWrites ==
  ASSUME NEW f, NEW k, NEW row
  PROVE  Written(f, Add(f, k, row), k, row)
  BY DEF Written, Add

LEMMA ReplacedIsWritten ==
  ASSUME NEW f, NEW k \in DOMAIN f, NEW row
  PROVE  Written(f, [f EXCEPT ![k] = row], k, row)
  BY DEF Written

-----------------------------------------------------------------------------
(* What is asked for *)

LEMMA TaskFields ==
  ASSUME task \in Traffic, NEW r \in Request
  PROVE  /\ task[r].kind = "seed" => task[r].store \in Store /\ task[r].store # Shop
         /\ task[r].kind = "create" =>
              /\ task[r].sale \in SaleKey /\ task[r].sale[2] \notin DOMAIN SaleSpecs
              /\ task[r].channel \in Channel
         /\ task[r].kind \in SaleTasks => task[r].sale \in SaleKey
         /\ task[r].kind = "add" => task[r].variant \in Variant
<1>1. task[r] \in Operation
  BY DemoAssumption
<1>2. /\ task[r].kind = "seed" => task[r].store # Shop
      /\ task[r].kind = "create" => task[r].sale[2] \notin DOMAIN SaleSpecs
  BY FreshKeys
<1>3. /\ task[r].kind = "seed" => task[r].store \in Store
      /\ task[r].kind = "create" => /\ task[r].sale \in SaleKey
                                    /\ task[r].channel \in Channel
      /\ task[r].kind \in SaleTasks => task[r].sale \in SaleKey
      /\ task[r].kind = "add" => task[r].variant \in Variant
  BY <1>1 DEF Operation, Query, SaleTasks
<1>4. QED
  BY <1>2, <1>3

\* The keys of different requests differ.
LEMMA KeysDiffer ==
  ASSUME task \in Traffic, NEW r \in Request, NEW q \in Request \ {r}
  PROVE  /\ task[r].kind = "seed" /\ task[q].kind = "seed" => task[q].store # task[r].store
         /\ task[r].kind = "create" /\ task[q].kind = "create"
              => task[q].sale # task[r].sale
  BY FreshKeys

LEMMA KeyParts ==
  ASSUME NEW k \in SaleKey
  PROVE  k[1] \in Store /\ k[2] \in Nat /\ k = <<k[1], k[2]>>
  BY DEF SaleKey

LEMMA SaleFields ==
  ASSUME TypeOK, NEW k \in DOMAIN sale
  PROVE  /\ k \in SaleKey /\ sale[k] \in Sale
         /\ sale[k].status \in Status /\ sale[k].number \in Nat
         /\ sale[k].channel \in Channel /\ sale[k].basket \in DOMAIN Lines
         /\ sale[k].made \in Nat /\ sale[k].done \in Nat \cup {Never}
         /\ sale[k].done = Never <=> sale[k].status = "draft"
<1>1. /\ k \in SaleKey /\ sale[k] \in Sale
      /\ sale[k].done = Never <=> sale[k].status = "draft"
  BY DEF TypeOK
<1>2. QED
  BY <1>1 DEF Sale

LEMMA Days ==
  ASSUME TypeOK
  PROVE  day \in Nat /\ LastDay \in Nat /\ day <= LastDay
  BY DemoAssumption DEF TypeOK

\* The lines of a basket.
LEMMA LinesAre ==
  ASSUME NEW b \in DOMAIN Lines
  PROVE  /\ IsFiniteSet(DOMAIN Lines[b]) /\ Len(Lines[b]) \in Nat
         /\ DOMAIN Lines[b] = 1..Len(Lines[b])
         /\ \A i \in DOMAIN Lines[b] : /\ Lines[b][i].variant \in Variant
                                       /\ Lines[b][i].units \in Nat
<1>1. Lines[b] \in Seq(Line)
  BY DemoAssumption
<1>2. /\ Len(Lines[b]) \in Nat /\ DOMAIN Lines[b] = 1..Len(Lines[b])
      /\ \A i \in DOMAIN Lines[b] : Lines[b][i] \in Line
  BY <1>1
<1>3. IsFiniteSet(DOMAIN Lines[b])
  BY <1>2, FS_Interval
<1>4. QED
  BY <1>2, <1>3 DEF Line

LEMMA SaleUnits ==
  ASSUME TypeOK, NEW k \in DOMAIN sale
  PROVE  /\ VariantsOf(k) \subseteq Variant
         /\ \A v \in Variant : /\ Units(sale[k], v) \in Nat
                               /\ v \notin VariantsOf(k) => Units(sale[k], v) = 0
<1>1. PICK row : row = sale[k]
  OBVIOUS
<1>2. row.basket \in DOMAIN Lines
  BY <1>1, SaleFields
<1>3. /\ IsFiniteSet(DOMAIN Lines[row.basket])
      /\ \A i \in DOMAIN Lines[row.basket] : /\ Lines[row.basket][i].variant \in Variant
                                             /\ Lines[row.basket][i].units \in Nat
  BY <1>2, LinesAre
<1>4. VariantsOf(k) = {Lines[row.basket][i].variant : i \in DOMAIN Lines[row.basket]}
  BY <1>1 DEF VariantsOf, LinesIn
<1>5. ASSUME NEW v \in Variant
      PROVE  /\ Units(row, v) \in Nat
             /\ v \notin VariantsOf(k) => Units(row, v) = 0
  <2>1. /\ Units(row, v) \in Nat
        /\ (\A i \in DOMAIN Lines[row.basket] : Lines[row.basket][i].variant # v)
             => Units(row, v) = 0
    BY <1>3, UnitsType
  <2>2. v \notin VariantsOf(k) =>
          \A i \in DOMAIN Lines[row.basket] : Lines[row.basket][i].variant # v
    BY <1>4
  <2>3. QED
    BY <2>1, <2>2
<1>6. QED
  BY <1>1, <1>3, <1>4, <1>5

-----------------------------------------------------------------------------
(* Statements and locks *)

LEMMA RowsAreLockable ==
  /\ DemoUser \in Lockable
  /\ \A s \in Store : StoreRow(s) \in Lockable
  /\ \A k \in SaleKey : SaleRow(k) \in Lockable
  /\ \A s \in Store, v \in Variant : VariantRow(s, v) \in Lockable
  BY DEF Lockable, StoreRow, SaleRow, VariantRow

LEMMA OneRow ==
  ASSUME NEW x \in Lockable
  PROVE  <<x>> \in Seq(Lockable) /\ {<<x>>[i] : i \in DOMAIN <<x>>} = {x}
<1>1. DOMAIN <<x>> = {1} /\ <<x>>[1] = x
  OBVIOUS
<1>2. QED
  BY <1>1

LEMMA NoRows == << >> \in Seq(Lockable) /\ {<< >>[i] : i \in DOMAIN << >>} = {}
  OBVIOUS

\* Finitely many rows, in any order.
LEMMA RowsInOrder ==
  ASSUME NEW S, IsFiniteSet(S), NEW f, NEW R \in SUBSET Lockable,
         \A x \in S : f[x] \in R, \A y \in R : \E x \in S : f[x] = y,
         NEW rows \in Orders(R)
  PROVE  rows \in Seq(Lockable) /\ {rows[i] : i \in DOMAIN rows} = R
<1>1. Cardinality(R) \in Nat
  <2> DEFINE g == [x \in S |-> f[x]]
  <2>1. g \in [S -> R] /\ \A x \in R : \E y \in S : g[y] = x
    OBVIOUS
  <2> HIDE DEF g
  <2>2. g \in Surjection(S, R)
    BY <2>1 DEF Surjection
  <2>3. IsFiniteSet(R)
    BY <2>2, FS_Surjection
  <2>4. QED
    BY <2>3, FS_CardinalityType
<1>2. QED
  BY <1>1, OrdersAreSequences

\* r goes on from one point to another by a statement that locks the rows S.
Went(r, from, where, S) ==
  /\ pc[r] = from /\ pc'[r] = where
  /\ Reserved(r) = held[r] /\ held'[r] = held[r]
  /\ Reserved(r)' = held[r] \cup S

LEMMA WentBy ==
  ASSUME Locks, NEW r \in Request, NEW from, NEW where, NEW rows \in Seq(Lockable),
         At(r, from), Goto(r, where, rows)
  PROVE  /\ Locks' /\ OthersRest(r)
         /\ Went(r, from, where, {rows[i] : i \in DOMAIN rows})
<1>1. /\ LocksInv(Lockable)' /\ OthersRest(r)
      /\ pc'[r] = where /\ plan'[r] = rows /\ held'[r] = held[r]
  BY GotoEffect DEF Locks
<1>2. pc[r] = from /\ Reserved(r) = held[r]
  BY AtHolds
<1>3. Reserved(r)' = held[r] \cup {rows[i] : i \in DOMAIN rows}
  BY <1>1 DEF Reserved
<1>4. QED
  BY <1>1, <1>2, <1>3 DEF Locks, OthersRest, Went

LEMMA WentNowhere ==
  ASSUME Locks, NEW r \in Request, NEW from, NEW where,
         At(r, from), Goto(r, where, << >>)
  PROVE  Locks' /\ OthersRest(r) /\ Went(r, from, where, {})
  BY NoRows, WentBy

LEMMA WentToOne ==
  ASSUME Locks, NEW r \in Request, NEW from, NEW where, NEW x \in Lockable,
         At(r, from), Goto(r, where, <<x>>)
  PROVE  Locks' /\ OthersRest(r) /\ Went(r, from, where, {x})
<1> DEFINE one == <<x>>
<1>1. one \in Seq(Lockable) /\ {one[i] : i \in DOMAIN one} = {x}
  BY OneRow
<1>2. Goto(r, where, one)
  OBVIOUS
<1> HIDE DEF one
<1>3. /\ Locks' /\ OthersRest(r)
      /\ Went(r, from, where, {one[i] : i \in DOMAIN one})
  BY <1>1, <1>2, WentBy
<1>4. QED
  BY <1>1, <1>3

LEMMA EndedBy ==
  ASSUME Locks, NEW r \in Request, NEW outcome, Finish(r, outcome)
  PROVE  Locks' /\ OthersRest(r) /\ pc'[r] = outcome
<1>1. LocksInv(Lockable)' /\ OthersRest(r) /\ pc'[r] = outcome
  BY FinishEffect DEF Locks
<1>2. QED
  BY <1>1 DEF Locks, OthersRest

LEMMA TokenNext ==
  ASSUME Locks, NEW r \in Request, ThenIssueToken(r)
  PROVE  Locks' /\ OthersRest(r) /\ pc'[r] = "issuing"
<1> DEFINE one == <<DemoUser>>
<1>1. /\ DOMAIN pc' = Request /\ DOMAIN plan' = Request /\ DOMAIN held' = Request
      /\ OthersRest(r)
      /\ pc'[r] = "issuing" /\ plan'[r] = one /\ held'[r] = {}
  BY DEF ThenIssueToken, Locks, LocksInv, OthersRest
<1>2. one \in Seq(Lockable)
  BY OneRow, RowsAreLockable
<1> HIDE DEF one
<1>3. \A q \in Request : plan'[q] \in Seq(Lockable)
  <2>1. \A q \in Request : plan[q] \in Seq(Lockable)
    BY DEF Locks, LocksInv
  <2>2. \A q \in Request : plan'[q] \in {plan[q], one}
    BY <1>1 DEF OthersRest
  <2>3. QED
    BY <1>2, <2>1, <2>2
<1>4. \A p, q \in Request : p # q => held'[p] \cap held'[q] = {}
  <2>1. \A q \in Request : held'[q] \subseteq held[q]
    BY <1>1 DEF OthersRest
  <2>2. \A p, q \in Request : p # q => held[p] \cap held[q] = {}
    BY DEF Locks, LocksInv
  <2>3. QED
    BY <2>1, <2>2
<1>5. QED
  BY <1>1, <1>3, <1>4 DEF Locks, LocksInv, OthersRest

\* A request notes something; the others keep what they have.
LEMMA Noted ==
  ASSUME MemoOK, NEW r \in Request, NEW field \in Fields, NEW value,
         Remember(r, field, value)
  PROVE  /\ MemoOK' /\ memo'[r][field] = value
         /\ \A f \in Fields \ {field} : memo'[r][f] = memo[r][f]
         /\ \A q \in Request \ {r} : memo'[q] = memo[q]
<1>1. /\ DOMAIN memo' = Request /\ memo'[r] = [memo[r] EXCEPT ![field] = value]
      /\ \A q \in Request \ {r} : memo'[q] = memo[q]
  BY DEF Remember, MemoOK
<1>2. DOMAIN memo[r] = Fields
  BY DEF MemoOK
<1>3. /\ DOMAIN memo'[r] = Fields /\ memo'[r][field] = value
      /\ \A f \in Fields \ {field} : memo'[r][f] = memo[r][f]
  BY <1>1, <1>2
<1>4. \A q \in Request : DOMAIN memo'[q] = Fields
  BY <1>1, <1>3 DEF MemoOK
<1>5. QED
  BY <1>1, <1>3, <1>4 DEF MemoOK
-----------------------------------------------------------------------------
(* What a step of one request leaves to the others *)

\* Everybody else, and his notes, are left alone.
Alone(r) == OthersRest(r) /\ \A q \in Request \ {r} : memo'[q] = memo[q]

\* Another store takes the place of one that r has locked.
StoreFrame(r) ==
  /\ \/ manages' = manages
     \/ /\ manages' # NoStore /\ DemoUser \in held[r]
        /\ manages # NoStore => StoreRow(manages) \in held[r]
  /\ \A s \in DOMAIN stock' \ DOMAIN stock : s = task[r].store /\ task[r].kind = "seed"

\* r changes no sale that it has not locked, adds none to a store, and finishes
\* none in a store, that it has not locked.
SaleFrame(r) ==
  /\ \A k \in DOMAIN sale :
       SaleRow(k) \notin held[r] => k \in DOMAIN sale' /\ sale'[k] = sale[k]
  /\ \A k \in DOMAIN sale' \ DOMAIN sale :
       \/ /\ k = task[r].sale /\ task[r].kind = "create"
          /\ StoreRow(k[1]) \in held[r]
       \/ k[1] \notin DOMAIN stock /\ k[2] \in DOMAIN SaleSpecs
  /\ \A k \in DOMAIN sale \cap DOMAIN sale' : StoreRow(k[1]) \notin held[r] =>
       /\ sale'[k].status \in {"completed", "cancelled"}
            => sale[k].status \in {"completed", "cancelled"}
       /\ sale'[k].status = "completed" =>
            sale[k].status = "completed" /\ sale'[k].made = sale[k].made

\* r takes from no variant that it has not locked.
StockFrame(r) ==
  \A s \in DOMAIN stock \cap DOMAIN stock', v \in Variant :
    VariantRow(s, v) \notin held[r] => stock[s][v] <= stock'[s][v]

Frame(r) == StoreFrame(r) /\ SaleFrame(r) /\ StockFrame(r)

LEMMA OtherUnmoved ==
  ASSUME Locks, NEW r \in Request, NEW q \in Request \ {r}, Alone(r)
  PROVE  /\ task' = task /\ pc'[q] = pc[q] /\ held'[q] = held[q]
         /\ memo'[q] = memo[q] /\ Reserved(q)' = Reserved(q)
         /\ \A x \in held[q] : x \notin held[r]
<1>1. held[q] \cap held[r] = {}
  BY DEF Locks, LocksInv
<1>2. QED
  BY <1>1 DEF Alone, OthersRest, Reserved

\* While q has locked the store of the demo user, it stays his, and gets no
\* sales from r.
LEMMA LockedStore ==
  ASSUME Locks, Stores, manages # NoStore, NEW r \in Request, NEW q \in Request \ {r},
         Alone(r), Frame(r), StoreRow(manages) \in held[q]
  PROVE  /\ manages' = manages
         /\ \A k \in DOMAIN sale' : k[1] = manages =>
              /\ k \in DOMAIN sale
              /\ sale'[k].status \in {"completed", "cancelled"}
                   => sale[k].status \in {"completed", "cancelled"}
              /\ sale'[k].status = "completed" =>
                   sale[k].status = "completed" /\ sale'[k].made = sale[k].made
<1>1. StoreRow(manages) \notin held[r] /\ manages \in DOMAIN stock
  BY OtherUnmoved DEF Stores
<1>2. manages' = manages
  BY <1>1 DEF Frame, StoreFrame
<1>3. ASSUME NEW k \in DOMAIN sale', k[1] = manages
      PROVE  k \in DOMAIN sale
  BY <1>1, <1>3 DEF Frame, SaleFrame
<1>4. QED
  BY <1>1, <1>2, <1>3 DEF Frame, SaleFrame

LEMMA OtherVisit ==
  ASSUME IInv, NEW r \in Request, NEW q \in Request \ {r}, Alone(r), Frame(r), day' = day
  PROVE  VisitOf(q)'
<1>1. /\ pc'[q] = pc[q] /\ held'[q] = held[q] /\ memo'[q] = memo[q]
      /\ Reserved(q)' = Reserved(q)
  BY OtherUnmoved DEF IInv
<1>2. VisitOf(q)
  BY DEF IInv, ControlOf
<1>3. ASSUME pc[q] = "shifting"
      PROVE  /\ memo[q].store = manages' /\ manages' # NoStore
             /\ StoreRow(manages') \in held[q] /\ memo[q].days \in 0..LastDay
             /\ \A k \in SaleKey : SaleRow(k) \in Reserved(q) => k[1] = manages'
             /\ \A k \in DOMAIN sale' : k[1] = manages' =>
                  /\ sale'[k].status \in {"completed", "cancelled"}
                       => SaleRow(k) \in Reserved(q)
                  /\ sale'[k].status = "completed" => sale'[k].made + memo[q].days <= day
  <2>1. /\ memo[q].store = manages /\ manages # NoStore
        /\ StoreRow(manages) \in held[q] /\ memo[q].days \in 0..LastDay
        /\ \A k \in SaleKey : SaleRow(k) \in Reserved(q) => k[1] = manages
        /\ \A k \in DOMAIN sale : k[1] = manages =>
             /\ sale[k].status \in {"completed", "cancelled"} => SaleRow(k) \in Reserved(q)
             /\ sale[k].status = "completed" => sale[k].made + memo[q].days <= day
    BY <1>2, <1>3 DEF VisitOf, SalesOf, Finished
  <2>2. /\ manages' = manages
        /\ \A k \in DOMAIN sale' : k[1] = manages =>
             /\ k \in DOMAIN sale
             /\ sale'[k].status \in {"completed", "cancelled"}
                  => sale[k].status \in {"completed", "cancelled"}
             /\ sale'[k].status = "completed" =>
                  sale[k].status = "completed" /\ sale'[k].made = sale[k].made
    BY <2>1, LockedStore DEF IInv
  <2>3. ASSUME NEW k \in DOMAIN sale', k[1] = manages'
        PROVE  /\ sale'[k].status \in {"completed", "cancelled"} => SaleRow(k) \in Reserved(q)
               /\ sale'[k].status = "completed" => sale'[k].made + memo[q].days <= day
    BY <2>1, <2>2, <2>3
  <2>4. QED
    BY <2>1, <2>2, <2>3
<1>4. pc[q] = "refreshing" =>
        memo[q].store \in Store \ {Shop} /\ Reserved(q) = {StoreRow(memo[q].store)}
  BY <1>2 DEF VisitOf
<1>5. QED
  BY <1>1, <1>3, <1>4 DEF VisitOf, SalesOf, Finished, StoreRow, SaleRow

LEMMA OtherRebuild ==
  ASSUME IInv, NEW r \in Request, NEW q \in Request \ {r}, Alone(r), Frame(r)
  PROVE  RebuildOf(q)'
<1>1. /\ pc'[q] = pc[q] /\ held'[q] = held[q] /\ memo'[q] = memo[q]
      /\ Reserved(q)' = Reserved(q) /\ \A x \in held[q] : x \notin held[r]
  BY OtherUnmoved DEF IInv
<1>2. RebuildOf(q)
  BY DEF IInv, ControlOf
<1>3. pc[q] = "preparing" =>
        DemoUser \in Reserved(q) /\ (memo[q].found => manages' # NoStore)
  BY <1>2 DEF RebuildOf, Frame, StoreFrame
<1>4. pc[q] \in {"emptying", "deleting", "building"} =>
        DemoUser \in held[q] /\ manages' = manages
  BY <1>1, <1>2 DEF RebuildOf, Frame, StoreFrame
<1>5. ASSUME pc[q] \in {"deleting", "building"}, manages # NoStore
      PROVE  /\ StoreRow(manages) \in held[q]
             /\ \A k \in DOMAIN sale' : k[1] = manages => SaleRow(k) \in Reserved(q)
  <2>1. /\ StoreRow(manages) \in held[q]
        /\ \A k \in DOMAIN sale : k[1] = manages => SaleRow(k) \in Reserved(q)
    BY <1>2, <1>5 DEF RebuildOf, SalesOf
  <2>2. \A k \in DOMAIN sale' : k[1] = manages => k \in DOMAIN sale
    BY <1>5, <2>1, LockedStore DEF IInv
  <2>3. QED
    BY <2>1, <2>2
<1>6. /\ pc[q] = "emptying" => manages # NoStore /\ StoreRow(manages) \in Reserved(q)
      /\ pc[q] = "deleting" => manages # NoStore
  BY <1>2 DEF RebuildOf
<1>7. QED
  BY <1>1, <1>3, <1>4, <1>5, <1>6 DEF RebuildOf, SalesOf, StoreRow, SaleRow

LEMMA OtherNew ==
  ASSUME IInv, NEW r \in Request, NEW q \in Request \ {r}, Alone(r), Frame(r)
  PROVE  NewStoreOf(q)' /\ NewSaleOf(q)'
<1>1. /\ pc'[q] = pc[q] /\ held'[q] = held[q] /\ task' = task
      /\ Reserved(q)' = Reserved(q)
  BY OtherUnmoved DEF IInv
<1>2. NewStoreOf(q) /\ NewSaleOf(q) /\ PointOf(q) /\ task \in Traffic
  BY DEF IInv, ControlOf, Locks
<1>3. ASSUME task[q].kind = "seed", task[q].store \notin DOMAIN stock
      PROVE  task[q].store \notin DOMAIN stock'
  <2>1. task[r].kind = "seed" => task[q].store # task[r].store
    BY <1>2, <1>3, KeysDiffer
  <2>2. QED
    BY <1>3, <2>1 DEF Frame, StoreFrame
<1>4. NewStoreOf(q)'
  <2>1. manages' = NoStore => manages = NoStore
    BY DEF Frame, StoreFrame
  <2>2. QED
    BY <1>1, <1>2, <1>3, <2>1 DEF NewStoreOf, PointOf
<1>5. ASSUME task[q].kind = "create", task[q].sale \notin DOMAIN sale
      PROVE  task[q].sale \notin DOMAIN sale'
  <2>1. task[r].kind = "create" => task[q].sale # task[r].sale
    BY <1>2, <1>5, KeysDiffer
  <2>2. task[q].sale[2] \notin DOMAIN SaleSpecs
    BY <1>2, <1>5, TaskFields
  <2>3. QED
    BY <1>5, <2>1, <2>2 DEF Frame, SaleFrame
<1>6. NewSaleOf(q)'
  BY <1>1, <1>2, <1>5 DEF NewSaleOf, StoreRow
<1>7. QED
  BY <1>4, <1>6

LEMMA OtherSale ==
  ASSUME IInv, NEW r \in Request, NEW q \in Request \ {r}, Alone(r), Frame(r),
         TypeOK', NothingDangles'
  PROVE  SaleOf(q)'
<1>0. PICK k : k = task[q].sale
  OBVIOUS
<1>1. /\ pc'[q] = pc[q] /\ held'[q] = held[q] /\ task' = task
      /\ Reserved(q)' = Reserved(q) /\ \A x \in held[q] : x \notin held[r]
  BY OtherUnmoved DEF IInv
<1>2. SaleOf(q) /\ TypeOK /\ NothingDangles
  BY DEF IInv, ControlOf, Types
<1>3. ASSUME pc[q] \in {"adding", "checking", "numbering", "restocking"}
      PROVE  /\ k \in DOMAIN sale /\ k \in DOMAIN sale' /\ sale'[k] = sale[k]
             /\ SaleRow(k) \in held[q]
  <2>1. k \in DOMAIN sale /\ SaleRow(k) \in held[q]
    BY <1>0, <1>2, <1>3 DEF SaleOf
  <2>2. k \in DOMAIN sale' /\ sale'[k] = sale[k]
    BY <1>1, <2>1 DEF Frame, SaleFrame
  <2>3. QED
    BY <2>1, <2>2
<1>4. pc[q] \in {"checking", "numbering"} => VariantsOf(k)' = VariantsOf(k)
  BY <1>3 DEF VariantsOf, LinesIn
<1>5. ASSUME pc[q] = "numbering", NEW v \in VariantsOf(k)
      PROVE  VariantRow(k[1], v) \in held[q] /\ Units(sale[k], v) <= stock'[k[1]][v]
  <2>1. VariantRow(k[1], v) \in held[q] /\ Units(sale[k], v) <= stock[k[1]][v]
    BY <1>0, <1>2, <1>5 DEF SaleOf
  <2>2. k \in DOMAIN sale /\ k \in DOMAIN sale'
    BY <1>3, <1>5
  <2>3. k[1] \in DOMAIN stock \cap DOMAIN stock'
    BY <1>2, <2>2 DEF NothingDangles
  <2>4. v \in Variant /\ Units(sale[k], v) \in Nat
    BY <1>2, <1>5, <2>2, SaleUnits
  <2>5. stock[k[1]][v] <= stock'[k[1]][v]
    BY <1>1, <2>1, <2>3, <2>4 DEF Frame, StockFrame
  <2>6. stock[k[1]][v] \in Nat /\ stock'[k[1]][v] \in Nat
    BY <1>2, <2>3, <2>4 DEF TypeOK
  <2>7. QED
    BY <2>1, <2>4, <2>5, <2>6
<1>6. /\ pc[q] \in SaleTasks => SaleRow(k) \in Reserved(q)
      /\ pc[q] \in {"adding", "checking", "numbering"} => sale[k].status = "draft"
      /\ pc[q] = "checking" => \A v \in VariantsOf(k) : VariantRow(k[1], v) \in Reserved(q)
      /\ pc[q] = "numbering" => StoreRow(k[1]) \in Reserved(q)
      /\ pc[q] = "restocking" => sale[k].status = "completed"
  BY <1>0, <1>2 DEF SaleOf
<1>7. QED
  BY <1>0, <1>1, <1>3, <1>4, <1>5, <1>6 DEF SaleOf, SaleRow, StoreRow, VariantRow

LEMMA OthersHold ==
  ASSUME IInv, NEW r \in Request, NEW q \in Request \ {r}, Alone(r), Frame(r),
         day' = day, TypeOK', NothingDangles'
  PROVE  ControlOf(q)'
<1>1. PointOf(q)'
  <2>1. pc'[q] = pc[q] /\ task' = task /\ Reserved(q)' = Reserved(q)
    BY OtherUnmoved DEF IInv
  <2>2. QED
    BY <2>1 DEF IInv, ControlOf, PointOf
<1>2. QED
  BY <1>1, OtherVisit, OtherRebuild, OtherNew, OtherSale DEF ControlOf

\* What the tables are, apart from the requests.
Tables == TypeOK /\ IsFiniteSet(DOMAIN sale) /\ Stores /\ NothingDangles /\ MadeInv /\ BookedInv

LEMMA StepHolds ==
  ASSUME IInv, NEW r \in Request, Alone(r), Frame(r), day' = day,
         Locks', MemoOK', Tables', ControlOf(r)'
  PROVE  IInv'
<1>1. TypeOK' /\ NothingDangles'
  BY DEF Tables
<1>2. \A q \in Request \ {r} : ControlOf(q)'
  BY <1>1, OthersHold
<1>3. \A q \in Request : ControlOf(q)'
  BY <1>2
<1>4. QED
  BY <1>3 DEF IInv, Types, Tables

Quiet == UNCHANGED <<day, manages, sale, movement, stock>>

\* A step that changes no table.
LEMMA QuietStep ==
  ASSUME IInv, NEW r \in Request, Quiet, Alone(r), Locks', MemoOK', ControlOf(r)'
  PROVE  IInv'
<1>1. Tables'
  <2>1. Tables
    BY DEF IInv, Types, Tables
  <2>2. TypeOK' /\ IsFiniteSet(DOMAIN sale)' /\ Stores' /\ NothingDangles'
    BY <2>1 DEF Tables, Quiet, TypeOK, Stores, NothingDangles
  <2>3. MadeInv' /\ BookedInv'
    BY <2>1 DEF Tables, Quiet, MadeInv, BookedInv, MovementKeys
  <2>4. QED
    BY <2>2, <2>3 DEF Tables
<1>2. Frame(r)
  <2>1. StoreFrame(r) /\ SaleFrame(r)
    BY DEF Quiet, StoreFrame, SaleFrame
  <2>2. StockFrame(r)
    BY DEF Quiet, StockFrame, IInv, Types, TypeOK
  <2>3. QED
    BY <2>1, <2>2 DEF Frame
<1>3. QED
  BY <1>1, <1>2, StepHolds DEF Quiet
-----------------------------------------------------------------------------
(* The points of each kind of request *)

LEMMA EasyHolds ==
  ASSUME NEW r \in Request, pc'[r] \in {"done", "failed", "issuing", "reading"}
  PROVE  ControlOf(r)'
<1>1. /\ pc'[r] \notin RebuildPoints /\ pc'[r] \notin SalePoints
      /\ pc'[r] \notin {"idle", "refreshing", "shifting", "creating"}
  BY DEF RebuildPoints, SalePoints, SaleTasks
<1>2. PointOf(r)' /\ VisitOf(r)' /\ NewStoreOf(r)' /\ NewSaleOf(r)'
  BY <1>1 DEF PointOf, SalePoints, VisitOf, NewStoreOf, NewSaleOf
<1>3. RebuildOf(r)' /\ SaleOf(r)'
  BY DEF RebuildOf, SaleOf, SaleTasks
<1>4. QED
  BY <1>2, <1>3 DEF ControlOf

LEMMA VisitHolds ==
  ASSUME NEW r \in Request, task'[r].kind = "login", pc'[r] \in {"refreshing", "shifting"},
         VisitOf(r)'
  PROVE  ControlOf(r)'
<1>1. /\ pc'[r] \notin RebuildPoints /\ pc'[r] \notin SalePoints
      /\ pc'[r] \notin {"idle", "creating"}
  BY DEF RebuildPoints, SalePoints, SaleTasks
<1>2. PointOf(r)' /\ NewStoreOf(r)' /\ NewSaleOf(r)'
  BY <1>1 DEF PointOf, SalePoints, NewStoreOf, NewSaleOf
<1>3. RebuildOf(r)' /\ SaleOf(r)'
  BY DEF RebuildOf, SaleOf, SaleTasks
<1>4. QED
  BY <1>2, <1>3 DEF ControlOf

LEMMA RebuildHolds ==
  ASSUME NEW r \in Request, task'[r].kind = "seed", pc'[r] \in RebuildPoints,
         RebuildOf(r)', task'[r].store \notin DOMAIN stock'
  PROVE  ControlOf(r)'
<1>1. /\ pc'[r] \notin SalePoints
      /\ pc'[r] \notin {"idle", "creating", "refreshing", "shifting"}
      /\ pc'[r] \notin SaleTasks /\ pc'[r] \notin {"adding", "checking", "numbering", "restocking"}
  BY DEF RebuildPoints, SalePoints, SaleTasks
<1>2. PointOf(r)' /\ NewStoreOf(r)' /\ NewSaleOf(r)' /\ VisitOf(r)'
  BY <1>1 DEF PointOf, NewStoreOf, NewSaleOf, VisitOf
<1>3. SaleOf(r)'
  BY <1>1 DEF SaleOf
<1>4. QED
  BY <1>2, <1>3 DEF ControlOf

LEMMA NewSaleHolds ==
  ASSUME NEW r \in Request, task'[r].kind = "create", pc'[r] = "creating", NewSaleOf(r)'
  PROVE  ControlOf(r)'
<1>1. PointOf(r)' /\ NewStoreOf(r)' /\ VisitOf(r)'
  BY DEF PointOf, NewStoreOf, VisitOf, RebuildPoints, SalePoints, SaleTasks
<1>2. RebuildOf(r)' /\ SaleOf(r)'
  BY DEF RebuildOf, SaleOf, SaleTasks
<1>3. QED
  BY <1>1, <1>2 DEF ControlOf

LEMMA SaleHolds ==
  ASSUME NEW r \in Request, task'[r].kind \in SaleTasks,
         pc'[r] \in SalePoints, pc'[r] \in SaleTasks => pc'[r] = task'[r].kind, SaleOf(r)'
  PROVE  ControlOf(r)'
<1>1. /\ pc'[r] \notin RebuildPoints
      /\ pc'[r] \notin {"idle", "creating", "refreshing", "shifting"}
      /\ pc'[r] \notin {"preparing", "emptying", "deleting", "building"}
  BY DEF RebuildPoints, SalePoints, SaleTasks
<1>2. PointOf(r)' /\ NewStoreOf(r)' /\ NewSaleOf(r)' /\ VisitOf(r)'
  BY <1>1 DEF PointOf, NewStoreOf, NewSaleOf, VisitOf
<1>3. RebuildOf(r)'
  BY <1>1 DEF RebuildOf
<1>4. QED
  BY <1>2, <1>3 DEF ControlOf

-----------------------------------------------------------------------------
(* The steps that change no table *)

LEMMA MemoStays ==
  ASSUME MemoOK, UNCHANGED memo
  PROVE  MemoOK' /\ \A q \in Request : memo'[q] = memo[q]
  BY DEF MemoOK

\* A request ends, or reaches a point at which it has nothing locked.
LEMMA EasyStep ==
  ASSUME IInv, NEW r \in Request, Quiet, Locks', OthersRest(r), MemoOK',
         \A q \in Request \ {r} : memo'[q] = memo[q],
         pc'[r] \in {"done", "failed", "issuing", "reading"}
  PROVE  IInv'
  BY QuietStep, EasyHolds DEF Alone

LEMMA EndedStep ==
  ASSUME IInv, NEW r \in Request, NEW outcome \in {"done", "failed"}, Finish(r, outcome),
         Quiet, MemoOK', \A q \in Request \ {r} : memo'[q] = memo[q]
  PROVE  IInv'
<1>1. Locks' /\ OthersRest(r) /\ pc'[r] = outcome
  BY EndedBy DEF IInv
<1>2. QED
  BY <1>1, EasyStep

LEMMA MemoIs ==
  ASSUME IInv, UNCHANGED memo
  PROVE  MemoOK' /\ \A q \in Request : memo'[q] = memo[q]
  BY MemoStays DEF IInv, Types

\* What a sale relies on, if its locks and the tables stay as they are.
LEMMA SaleStays ==
  ASSUME NEW r \in Request, SaleOf(r), task' = task, UNCHANGED <<sale, stock>>,
         pc'[r] = pc[r], held[r] \subseteq held'[r], Reserved(r)' = Reserved(r)
  PROVE  SaleOf(r)'
<1>1. PICK k : k = task[r].sale
  OBVIOUS
<1>2. PICK V : V = VariantsOf(k)
  OBVIOUS
<1>3. VariantsOf(k)' = V
  BY <1>2 DEF VariantsOf, LinesIn
<1>4. /\ pc[r] \in SaleTasks => SaleRow(k) \in Reserved(r)
      /\ pc[r] \in {"adding", "checking", "numbering", "restocking"} =>
           k \in DOMAIN sale /\ SaleRow(k) \in held[r]
      /\ pc[r] \in {"adding", "checking", "numbering"} => sale[k].status = "draft"
      /\ pc[r] = "checking" => \A v \in V : VariantRow(k[1], v) \in Reserved(r)
      /\ pc[r] = "numbering" =>
           /\ StoreRow(k[1]) \in Reserved(r)
           /\ \A v \in V : VariantRow(k[1], v) \in held[r] /\ Units(sale[k], v) <= stock[k[1]][v]
      /\ pc[r] = "restocking" => sale[k].status = "completed"
  BY <1>1, <1>2 DEF SaleOf
<1>5. /\ pc'[r] \in SaleTasks => SaleRow(k) \in Reserved(r)'
      /\ pc'[r] \in {"adding", "checking", "numbering", "restocking"} =>
           k \in DOMAIN sale' /\ SaleRow(k) \in held'[r]
      /\ pc'[r] \in {"adding", "checking", "numbering"} => sale'[k].status = "draft"
      /\ pc'[r] = "checking" => \A v \in V : VariantRow(k[1], v) \in Reserved(r)'
      /\ pc'[r] = "numbering" =>
           /\ StoreRow(k[1]) \in Reserved(r)'
           /\ \A v \in V : VariantRow(k[1], v) \in held'[r] /\ Units(sale'[k], v) <= stock'[k[1]][v]
      /\ pc'[r] = "restocking" => sale'[k].status = "completed"
  BY <1>4
<1>6. k = task'[r].sale
  BY <1>1
<1>7. QED
  BY <1>3, <1>5, <1>6 DEF SaleOf, StoreRow, SaleRow, VariantRow

LEMMA AcquireHolds ==
  ASSUME IInv, NEW r \in Request, Acquire(r), UNCHANGED <<day, tables, memo, torn>>
  PROVE  IInv'
<1>1. Locks' /\ OthersRest(r)
  BY AcquireEffect DEF IInv, Locks, OthersRest
<1>2. /\ pc'[r] = pc[r] /\ held[r] \subseteq held'[r] /\ Reserved(r)' = Reserved(r)
      /\ task' = task
  BY AcquireEffect DEF IInv, Locks, OthersRest
<1>3. Quiet /\ UNCHANGED <<manages, sale, stock, day, memo>>
  BY DEF Quiet, tables
<1>4. /\ PointOf(r) /\ VisitOf(r) /\ RebuildOf(r)
      /\ NewStoreOf(r) /\ NewSaleOf(r) /\ SaleOf(r)
  BY DEF IInv, ControlOf
<1>5. PointOf(r)' /\ NewStoreOf(r)' /\ NewSaleOf(r)'
  BY <1>2, <1>3, <1>4 DEF PointOf, NewStoreOf, NewSaleOf, StoreRow
<1>6. VisitOf(r)'
  BY <1>2, <1>3, <1>4 DEF VisitOf, SalesOf, Finished, StoreRow, SaleRow
<1>7. RebuildOf(r)'
  BY <1>2, <1>3, <1>4 DEF RebuildOf, SalesOf, StoreRow, SaleRow
<1>8. SaleOf(r)'
  BY <1>2, <1>3, <1>4, SaleStays
<1>9. QED
  BY <1>1, <1>3, <1>5, <1>6, <1>7, <1>8, QuietStep, MemoIs DEF ControlOf, Alone

LEMMA RollbackHolds ==
  ASSUME IInv, NEW r \in Request, Rollback(r)
  PROVE  IInv'
<1>1. Finish(r, "failed") /\ Quiet /\ UNCHANGED memo
  BY DEF Rollback, Crash, ResolveDeadlock, Quiet, tables
<1>2. QED
  BY <1>1, EndedStep, MemoIs

LEMMA NewDayHolds ==
  ASSUME IInv, NewDay
  PROVE  IInv'
<1>1. /\ day' = day + 1 /\ day < LastDay
      /\ UNCHANGED <<task, pc, held, plan, manages, sale, movement, stock, memo>>
  BY DEF NewDay, transaction, tables
<1>2. day \in Nat /\ LastDay \in Nat
  BY Days DEF IInv, Types
<1>3. \A k \in DOMAIN sale : sale[k].made \in Nat
  BY SaleFields DEF IInv, Types
<1>4. Locks'
  BY <1>1 DEF IInv, Locks, LocksInv
<1>5. Types'
  <2>1. day' \in FirstDay..LastDay
    BY <1>1, <1>2, DemoAssumption DEF IInv, Types, TypeOK
  <2>2. QED
    BY <1>1, <2>1 DEF IInv, Types, TypeOK, MemoOK
<1>6. Stores' /\ NothingDangles' /\ BookedInv'
  BY <1>1 DEF IInv, Stores, NothingDangles, BookedInv, MovementKeys
<1>7. MadeInv'
  BY <1>1, <1>2, <1>3 DEF IInv, MadeInv
<1>8. ASSUME NEW r \in Request
      PROVE  ControlOf(r)'
  <2>1. /\ PointOf(r) /\ VisitOf(r) /\ RebuildOf(r)
        /\ NewStoreOf(r) /\ NewSaleOf(r) /\ SaleOf(r)
    BY DEF IInv, ControlOf
  <2>2. Reserved(r)' = Reserved(r)
    BY <1>1 DEF Reserved
  <2>3. PointOf(r)' /\ NewStoreOf(r)' /\ NewSaleOf(r)'
    BY <1>1, <2>1, <2>2 DEF PointOf, NewStoreOf, NewSaleOf, StoreRow
  <2>4. RebuildOf(r)' /\ SaleOf(r)'
    <3>1. RebuildOf(r)'
      BY <1>1, <2>1, <2>2 DEF RebuildOf, SalesOf, StoreRow, SaleRow
    <3>2. SaleOf(r)'
      BY <1>1, <2>1, <2>2, SaleStays
    <3>3. QED
      BY <3>1, <3>2
  <2>5. VisitOf(r)'
    <3>1. \A k \in DOMAIN sale : memo[r].days \in 0..LastDay =>
            (sale[k].made + memo[r].days <= day => sale[k].made + memo[r].days <= day')
      BY <1>1, <1>2, <1>3
    <3>2. QED
      BY <1>1, <2>1, <2>2, <3>1 DEF VisitOf, SalesOf, Finished, StoreRow, SaleRow
  <2>6. QED
    BY <2>3, <2>4, <2>5 DEF ControlOf
<1>9. QED
  BY <1>4, <1>5, <1>6, <1>7, <1>8 DEF IInv
LEMMA LogInHolds ==
  ASSUME IInv, NEW r \in Request, LogIn(r)
  PROVE  IInv'
<1>1. /\ At(r, "idle") /\ task[r].kind = "login" /\ Quiet
      /\ Remember(r, "store", manages)
      /\ GotoIf(manages # NoStore, r, "refreshing", <<StoreRow(manages)>>)
  BY DEF LogIn, Quiet, tables
<1>2. MemoOK' /\ memo'[r].store = manages /\ \A q \in Request \ {r} : memo'[q] = memo[q]
  BY <1>1, Noted DEF IInv, Types, Fields
<1>3. CASE manages = NoStore
  <2>1. Finish(r, "failed")
    BY <1>1, <1>3 DEF GotoIf
  <2>2. QED
    BY <1>1, <1>2, <2>1, EndedStep
<1>4. CASE manages # NoStore
  <2>1. manages \in Store \ {Shop}
    BY <1>4 DEF IInv, Types, TypeOK, Stores
  <2>2. Goto(r, "refreshing", <<StoreRow(manages)>>)
    BY <1>1, <1>4 DEF GotoIf
  <2>3. /\ Locks' /\ OthersRest(r)
        /\ Went(r, "idle", "refreshing", {StoreRow(manages)})
    BY <1>1, <2>1, <2>2, WentToOne, RowsAreLockable DEF IInv
  <2>4. held[r] = {}
    BY <2>3 DEF IInv, ControlOf, PointOf, Went
  <2>5. VisitOf(r)' /\ task' = task
    BY <1>2, <2>1, <2>3, <2>4 DEF VisitOf, Went, OthersRest, StoreRow
  <2>6. ControlOf(r)'
    BY <1>1, <2>3, <2>5, VisitHolds DEF Went
  <2>7. QED
    BY <1>1, <1>2, <2>3, <2>6, QuietStep DEF Alone
<1>5. QED
  BY <1>3, <1>4

LEMMA MadeIs ==
  ASSUME TypeOK, IsFiniteSet(DOMAIN sale), NEW s, NEW status
  PROVE  /\ Made(s, status) \in SUBSET Nat /\ IsFiniteSet(Made(s, status))
         /\ \A k \in SalesOf(s) : sale[k].status = status => sale[k].made \in Made(s, status)
<1> DEFINE K == {k \in SalesOf(s) : sale[k].status = status}
           f == [k \in K |-> sale[k].made]
<1>1. K \subseteq DOMAIN sale
  BY DEF SalesOf
<1>2. Made(s, status) = {f[k] : k \in K}
  BY DEF Made
<1>3. Made(s, status) \in SUBSET Nat
  BY <1>1, <1>2, SaleFields
<1>4. f \in Surjection(K, Made(s, status))
  BY <1>2 DEF Surjection
<1>5. IsFiniteSet(K)
  BY <1>1, FS_Subset
<1>6. IsFiniteSet(Made(s, status))
  BY <1>4, <1>5, FS_Surjection
<1>7. QED
  BY <1>3, <1>6 DEF Made

\* A timeline is behind by the days from its newest completed sale to today.
LEMMA BehindIs ==
  ASSUME TypeOK, IsFiniteSet(DOMAIN sale), MadeInv, NEW s
  PROVE  /\ Behind(s) \in 0..LastDay
         /\ \A k \in SalesOf(s) : sale[k].status = "completed" =>
              Made(s, "completed") # {} /\ sale[k].made + Behind(s) <= day
<1> DEFINE M == Made(s, "completed")
<1>1. /\ M \in SUBSET Nat /\ IsFiniteSet(M)
      /\ \A k \in SalesOf(s) : sale[k].status = "completed" => sale[k].made \in M
  BY MadeIs
<1>2. \A m \in M : m <= day
  <2>1. \A k \in SalesOf(s) : sale[k].status = "completed" => sale[k].made <= day
    BY DEF MadeInv, SalesOf
  <2>2. QED
    BY <2>1 DEF Made
<1>3. day \in Nat /\ LastDay \in Nat /\ day <= LastDay
  BY Days
<1>4. CASE M = {}
  BY <1>1, <1>3, <1>4 DEF Behind
<1>5. CASE M # {}
  <2>1. Max(M) \in M /\ \A m \in M : m <= Max(M)
    BY <1>1, <1>5, MaxOfNumbers
  <2>2. Max(M) \in Nat /\ Max(M) <= day /\ Behind(s) = day - Max(M)
    BY <1>1, <1>2, <1>5, <2>1 DEF Behind
  <2>3. Behind(s) \in 0..LastDay
    BY <1>3, <2>2
  <2>4. ASSUME NEW k \in SalesOf(s), sale[k].status = "completed"
        PROVE  sale[k].made + Behind(s) <= day
    <3>1. sale[k].made \in Nat /\ sale[k].made <= Max(M)
      BY <1>1, <2>1, <2>4
    <3>2. QED
      BY <1>3, <2>2, <3>1
  <2>5. QED
    BY <1>5, <2>3, <2>4
<1>6. QED
  BY <1>4, <1>5

LEMMA RowsOfSales ==
  ASSUME TypeOK, IsFiniteSet(DOMAIN sale), NEW K \in SUBSET DOMAIN sale,
         NEW rows \in Orders({SaleRow(k) : k \in K})
  PROVE  rows \in Seq(Lockable) /\ {rows[i] : i \in DOMAIN rows} = {SaleRow(k) : k \in K}
<1> DEFINE f == [k \in K |-> SaleRow(k)]
           R == {SaleRow(k) : k \in K}
<1>1. IsFiniteSet(K) /\ R \in SUBSET Lockable
  BY FS_Subset, RowsAreLockable DEF TypeOK
<1>2. (\A k \in K : f[k] \in R) /\ (\A y \in R : \E k \in K : f[k] = y)
  OBVIOUS
<1>3. rows \in Orders(R)
  OBVIOUS
<1> HIDE DEF f, R
<1>4. rows \in Seq(Lockable) /\ {rows[i] : i \in DOMAIN rows} = R
  BY <1>1, <1>2, <1>3, RowsInOrder
<1>5. QED
  BY <1>4 DEF R

LEMMA RowsOfVariants ==
  ASSUME NEW s \in Store, NEW V \in SUBSET Variant,
         NEW rows \in Orders({VariantRow(s, v) : v \in V})
  PROVE  /\ rows \in Seq(Lockable)
         /\ {rows[i] : i \in DOMAIN rows} = {VariantRow(s, v) : v \in V}
<1> DEFINE f == [v \in V |-> VariantRow(s, v)]
           R == {VariantRow(s, v) : v \in V}
<1>1. IsFiniteSet(V) /\ R \in SUBSET Lockable
  BY FS_Subset, RowsAreLockable, DemoAssumption
<1>2. (\A v \in V : f[v] \in R) /\ (\A y \in R : \E v \in V : f[v] = y)
  OBVIOUS
<1>3. rows \in Orders(R)
  OBVIOUS
<1> HIDE DEF f, R
<1>4. rows \in Seq(Lockable) /\ {rows[i] : i \in DOMAIN rows} = R
  BY <1>1, <1>2, <1>3, RowsInOrder
<1>5. QED
  BY <1>4 DEF R

\* The store that a visitor finds under its lock is that of the demo user.
LEMMA RefreshHolds ==
  ASSUME IInv, NEW r \in Request, Refresh(r)
  PROVE  IInv'
<1>0. PICK s : s = memo[r].store
  OBVIOUS
<1>1. /\ At(r, "refreshing") /\ Quiet
      /\ Remember(r, "days", Behind(s))
      /\ \/ s \notin DOMAIN stock /\ Finish(r, "failed")
         \/ s \in DOMAIN stock /\ Behind(s) = 0 /\ ThenIssueToken(r)
         \/ /\ s \in DOMAIN stock
            /\ \E rows \in Orders({SaleRow(k) : k \in {j \in SalesOf(s) : Finished(j)}}) :
                 Goto(r, "shifting", rows)
  BY <1>0 DEF Refresh, Quiet, tables
<1>2. /\ MemoOK' /\ memo'[r].days = Behind(s) /\ memo'[r].store = s
      /\ \A q \in Request \ {r} : memo'[q] = memo[q]
  BY <1>0, <1>1, Noted DEF IInv, Types, Fields
<1>3. CASE Finish(r, "failed")
  BY <1>1, <1>2, <1>3, EndedStep
<1>4. CASE ThenIssueToken(r)
  <2>1. Locks' /\ OthersRest(r) /\ pc'[r] = "issuing"
    BY <1>4, TokenNext DEF IInv
  <2>2. QED
    BY <1>1, <1>2, <2>1, EasyStep
<1>5. ASSUME s \in DOMAIN stock,
             NEW rows \in Orders({SaleRow(k) : k \in {j \in SalesOf(s) : Finished(j)}}),
             Goto(r, "shifting", rows)
      PROVE  IInv'
  <2> DEFINE K == {j \in SalesOf(s) : Finished(j)}
  <2>1. /\ pc[r] = "refreshing" /\ task[r].kind = "login"
        /\ s \in Store \ {Shop} /\ held[r] = {StoreRow(s)}
    BY <1>0, <1>1, AtHolds DEF IInv, ControlOf, PointOf, VisitOf
  <2>2. s = manages /\ manages # NoStore
    BY <1>5, <2>1 DEF IInv, Stores
  <2>3. K \in SUBSET DOMAIN sale
    BY DEF SalesOf
  <2> HIDE DEF K
  <2>4. rows \in Seq(Lockable) /\ {rows[i] : i \in DOMAIN rows} = {SaleRow(k) : k \in K}
    BY <1>5, <2>3, RowsOfSales DEF IInv, Types, K
  <2>5. Locks' /\ OthersRest(r) /\ Went(r, "refreshing", "shifting", {SaleRow(k) : k \in K})
    BY <1>1, <1>5, <2>4, WentBy DEF IInv
  <2>6. /\ Behind(s) \in 0..LastDay
        /\ \A k \in SalesOf(s) : sale[k].status = "completed" => sale[k].made + Behind(s) <= day
    BY BehindIs DEF IInv, Types
  <2>7. \A k \in SalesOf(s) : Finished(k) => SaleRow(k) \in Reserved(r)'
    BY <2>5 DEF Went, K
  <2>8. \A k \in SaleKey : SaleRow(k) \in Reserved(r)' => k[1] = s
    <3>1. ASSUME NEW k \in SaleKey, SaleRow(k) \in Reserved(r)'
          PROVE  k \in K
      <4>1. SaleRow(k) \notin held[r]
        BY <2>1 DEF SaleRow, StoreRow
      <4>2. SaleRow(k) \in {SaleRow(j) : j \in K}
        BY <2>5, <3>1, <4>1 DEF Went
      <4>3. QED
        BY <4>2 DEF SaleRow
    <3>2. QED
      BY <3>1 DEF K, SalesOf
  <2>9. VisitOf(r)'
    BY <1>1, <1>2, <2>1, <2>2, <2>5, <2>6, <2>7, <2>8
    DEF VisitOf, Went, Quiet, SalesOf, Finished, StoreRow, SaleRow
  <2>10. ControlOf(r)'
    BY <2>1, <2>5, <2>9, VisitHolds DEF Went, OthersRest
  <2>11. QED
    BY <1>1, <1>2, <2>5, <2>10, QuietStep DEF Alone
<1>6. QED
  BY <1>1, <1>3, <1>4, <1>5

LEMMA IssueTokenHolds ==
  ASSUME IInv, NEW r \in Request, IssueToken(r)
  PROVE  IInv'
<1>1. Finish(r, "done") /\ Quiet /\ UNCHANGED memo
  BY DEF IssueToken, Quiet, tables
<1>2. QED
  BY <1>1, EndedStep, MemoIs

LEMMA CommandHolds ==
  ASSUME IInv, NEW r \in Request, Command(r)
  PROVE  IInv'
<1>1. /\ At(r, "idle") /\ task[r].kind = "seed" /\ Quiet /\ UNCHANGED memo
      /\ IF manages # NoStore /\ ~ task[r].reset THEN Finish(r, "done")
         ELSE Goto(r, "rebuilding", << >>)
  BY DEF Command, Quiet, tables
<1>2. CASE manages # NoStore /\ ~ task[r].reset
  BY <1>1, <1>2, EndedStep, MemoIs
<1>3. CASE ~ (manages # NoStore /\ ~ task[r].reset)
  <2>1. Locks' /\ OthersRest(r) /\ Went(r, "idle", "rebuilding", {})
    BY <1>1, <1>3, WentNowhere DEF IInv
  <2>2. task[r].store \notin DOMAIN stock
    BY <1>1, <1>3 DEF IInv, ControlOf, NewStoreOf, At
  <2>3. RebuildOf(r)' /\ task' = task /\ stock' = stock /\ pc'[r] \in RebuildPoints
    BY <1>1, <2>1 DEF RebuildOf, Went, OthersRest, Quiet, RebuildPoints
  <2>4. ControlOf(r)'
    BY <1>1, <2>2, <2>3, RebuildHolds
  <2>5. QED
    BY <1>1, <2>1, <2>4, QuietStep, MemoIs DEF Alone
<1>4. QED
  BY <1>2, <1>3

\* A rebuild that is on its way goes on.
LEMMA RebuildGoesOn ==
  ASSUME IInv, NEW r \in Request, Quiet, Locks', OthersRest(r), MemoOK',
         \A q \in Request \ {r} : memo'[q] = memo[q],
         pc[r] \in RebuildPoints, pc'[r] \in RebuildPoints, RebuildOf(r)'
  PROVE  IInv'
<1>1. task[r].kind = "seed" /\ task[r].store \notin DOMAIN stock
  BY DEF IInv, ControlOf, PointOf, NewStoreOf
<1>2. task' = task /\ stock' = stock
  BY DEF OthersRest, Quiet
<1>3. ControlOf(r)'
  BY <1>1, <1>2, RebuildHolds
<1>4. QED
  BY <1>3, QuietStep DEF Alone

LEMMA FindUserHolds ==
  ASSUME IInv, NEW r \in Request, FindUser(r)
  PROVE  IInv'
<1>1. /\ At(r, "rebuilding") /\ Quiet
      /\ Remember(r, "found", manages # NoStore)
      /\ Goto(r, "preparing", <<DemoUser>>)
  BY DEF FindUser, Quiet, tables
<1>2. /\ MemoOK' /\ memo'[r].found = (manages # NoStore)
      /\ \A q \in Request \ {r} : memo'[q] = memo[q]
  BY <1>1, Noted DEF IInv, Types, Fields
<1>3. Locks' /\ OthersRest(r) /\ Went(r, "rebuilding", "preparing", {DemoUser})
  BY <1>1, WentToOne, RowsAreLockable DEF IInv
<1>4. pc[r] \in RebuildPoints /\ pc'[r] \in RebuildPoints
  BY <1>3 DEF Went, RebuildPoints
<1>5. RebuildOf(r)'
  BY <1>1, <1>2, <1>3 DEF RebuildOf, Went, Quiet
<1>6. QED
  BY <1>1, <1>2, <1>3, <1>4, <1>5, RebuildGoesOn

LEMMA PrepareHolds ==
  ASSUME IInv, NEW r \in Request, Prepare(r)
  PROVE  IInv'
<1>1. /\ At(r, "preparing") /\ Quiet /\ UNCHANGED memo
      /\ IF memo[r].found THEN Goto(r, "emptying", <<StoreRow(manages)>>)
         ELSE GotoIf(manages = NoStore, r, "building", << >>)
  BY DEF Prepare, Quiet, tables
<1>2. /\ pc[r] = "preparing" /\ DemoUser \in held[r]
      /\ memo[r].found => manages # NoStore
  BY <1>1, AtHolds DEF IInv, ControlOf, RebuildOf
<1>3. CASE memo[r].found
  <2>1. manages \in Store /\ manages # NoStore
    BY <1>2, <1>3 DEF IInv, Types, TypeOK
  <2>2. /\ Locks' /\ OthersRest(r)
        /\ Went(r, "preparing", "emptying", {StoreRow(manages)})
    BY <1>1, <1>3, <2>1, WentToOne, RowsAreLockable DEF IInv
  <2>3. pc[r] \in RebuildPoints /\ pc'[r] \in RebuildPoints
    BY <2>2 DEF Went, RebuildPoints
  <2>4. RebuildOf(r)'
    BY <1>1, <1>2, <2>1, <2>2 DEF RebuildOf, Went, Quiet, StoreRow
  <2>5. QED
    BY <1>1, <2>2, <2>3, <2>4, RebuildGoesOn, MemoIs
<1>4. CASE ~ memo[r].found /\ manages # NoStore
  <2>1. Finish(r, "failed")
    BY <1>1, <1>4 DEF GotoIf
  <2>2. QED
    BY <1>1, <2>1, EndedStep, MemoIs
<1>5. CASE ~ memo[r].found /\ manages = NoStore
  <2>1. Locks' /\ OthersRest(r) /\ Went(r, "preparing", "building", {})
    BY <1>1, <1>5, WentNowhere DEF IInv, GotoIf
  <2>2. pc[r] \in RebuildPoints /\ pc'[r] \in RebuildPoints
    BY <2>1 DEF Went, RebuildPoints
  <2>3. RebuildOf(r)'
    BY <1>1, <1>2, <1>5, <2>1 DEF RebuildOf, Went, Quiet
  <2>4. QED
    BY <1>1, <2>1, <2>2, <2>3, RebuildGoesOn, MemoIs
<1>6. QED
  BY <1>3, <1>4, <1>5

LEMMA DeleteSalesHolds ==
  ASSUME IInv, NEW r \in Request, DeleteSales(r)
  PROVE  IInv'
<1>1. /\ At(r, "emptying") /\ Quiet /\ UNCHANGED memo
      /\ \E rows \in Orders({SaleRow(k) : k \in SalesOf(manages)}) :
           Goto(r, "deleting", rows)
  BY DEF DeleteSales, Quiet, tables
<1>2. /\ pc[r] = "emptying" /\ DemoUser \in held[r]
      /\ manages # NoStore /\ StoreRow(manages) \in held[r]
  BY <1>1, AtHolds DEF IInv, ControlOf, RebuildOf
<1>3. PICK rows \in Orders({SaleRow(k) : k \in SalesOf(manages)}) : Goto(r, "deleting", rows)
  BY <1>1
<1>4. PICK K : K = SalesOf(manages)
  OBVIOUS
<1>5. /\ rows \in Seq(Lockable)
      /\ {rows[i] : i \in DOMAIN rows} = {SaleRow(k) : k \in K}
  <2>1. K \in SUBSET DOMAIN sale
    BY <1>4 DEF SalesOf
  <2>2. QED
    BY <1>3, <1>4, <2>1, RowsOfSales DEF IInv, Types
<1>6. Locks' /\ OthersRest(r) /\ Went(r, "emptying", "deleting", {SaleRow(k) : k \in K})
  BY <1>1, <1>3, <1>5, WentBy DEF IInv
<1>7. pc[r] \in RebuildPoints /\ pc'[r] \in RebuildPoints
  BY <1>6 DEF Went, RebuildPoints
<1>8. \A k \in SalesOf(manages) : SaleRow(k) \in Reserved(r)'
  BY <1>4, <1>6 DEF Went
<1>9. RebuildOf(r)'
  BY <1>1, <1>2, <1>6, <1>8 DEF RebuildOf, Went, Quiet, SalesOf, StoreRow, SaleRow
<1>10. QED
  BY <1>1, <1>6, <1>7, <1>9, RebuildGoesOn, MemoIs

LEMMA DeleteStoreHolds ==
  ASSUME IInv, NEW r \in Request, DeleteStore(r)
  PROVE  IInv'
<1>1. /\ At(r, "deleting") /\ Quiet /\ UNCHANGED memo
      /\ \E rows \in Orders({VariantRow(manages, v) : v \in Variant}) :
           Goto(r, "building", rows)
  BY DEF DeleteStore, Quiet, tables
<1>2. /\ pc[r] = "deleting" /\ DemoUser \in held[r]
      /\ manages # NoStore /\ StoreRow(manages) \in held[r]
      /\ \A k \in SalesOf(manages) : SaleRow(k) \in held[r]
  BY <1>1, AtHolds DEF IInv, ControlOf, RebuildOf
<1>3. manages \in Store
  BY <1>2 DEF IInv, Types, TypeOK
<1>4. PICK rows \in Orders({VariantRow(manages, v) : v \in Variant}) :
        Goto(r, "building", rows)
  BY <1>1
<1>5. PICK R : R = {rows[i] : i \in DOMAIN rows}
  OBVIOUS
<1>6. rows \in Seq(Lockable)
  BY <1>3, <1>4, RowsOfVariants
<1>7. Locks' /\ OthersRest(r) /\ Went(r, "deleting", "building", R)
  BY <1>1, <1>4, <1>5, <1>6, WentBy DEF IInv
<1>8. pc[r] \in RebuildPoints /\ pc'[r] \in RebuildPoints
  BY <1>7 DEF Went, RebuildPoints
<1>9. RebuildOf(r)'
  BY <1>1, <1>2, <1>7 DEF RebuildOf, Went, Quiet, SalesOf, StoreRow, SaleRow
<1>10. QED
  BY <1>1, <1>7, <1>8, <1>9, RebuildGoesOn, MemoIs
LEMMA CreateHolds ==
  ASSUME IInv, NEW r \in Request, Create(r)
  PROVE  IInv'
<1>0. PICK k : k = task[r].sale
  OBVIOUS
<1>1. /\ At(r, "idle") /\ task[r].kind = "create" /\ Quiet /\ UNCHANGED memo
      /\ GotoIf(k[1] \in DOMAIN stock, r, "creating", <<StoreRow(k[1])>>)
  BY <1>0 DEF Create, Quiet, tables
<1>2. CASE k[1] \notin DOMAIN stock
  <2>1. Finish(r, "failed")
    BY <1>1, <1>2 DEF GotoIf
  <2>2. QED
    BY <1>1, <2>1, EndedStep, MemoIs
<1>3. CASE k[1] \in DOMAIN stock
  <2>1. Goto(r, "creating", <<StoreRow(k[1])>>)
    BY <1>1, <1>3 DEF GotoIf
  <2>2. StoreRow(k[1]) \in Lockable
    BY <1>3, RowsAreLockable DEF IInv, Types, TypeOK
  <2>3. Locks' /\ OthersRest(r) /\ Went(r, "idle", "creating", {StoreRow(k[1])})
    BY <1>1, <2>1, <2>2, WentToOne DEF IInv
  <2>4. k \notin DOMAIN sale
    BY <1>0, <1>1, <2>3 DEF IInv, ControlOf, NewSaleOf, Went
  <2>5. task' = task /\ sale' = sale
    BY <1>1, <2>3 DEF OthersRest, Quiet
  <2>6. NewSaleOf(r)'
    BY <1>0, <2>3, <2>4, <2>5 DEF NewSaleOf, Went, StoreRow
  <2>7. ControlOf(r)'
    BY <1>1, <2>3, <2>5, <2>6, NewSaleHolds DEF Went
  <2>8. QED
    BY <1>1, <2>3, <2>7, QuietStep, MemoIs DEF Alone
<1>4. QED
  BY <1>2, <1>3

\* A request that adds to, completes or cancels a sale goes on.
LEMMA SaleGoesOn ==
  ASSUME IInv, NEW r \in Request, Quiet, UNCHANGED memo, Locks', OthersRest(r),
         task[r].kind \in SaleTasks, SaleOf(r)',
         pc'[r] \in SalePoints, pc'[r] \in SaleTasks => pc'[r] = task[r].kind
  PROVE  IInv'
<1>1. task' = task
  BY DEF OthersRest
<1>2. ControlOf(r)'
  BY <1>1, SaleHolds
<1>3. QED
  BY <1>2, QuietStep, MemoIs DEF Alone

LEMMA TakeSaleHolds ==
  ASSUME IInv, NEW r \in Request, TakeSale(r)
  PROVE  IInv'
<1>0. PICK k : k = task[r].sale
  OBVIOUS
<1>1. /\ At(r, "idle") /\ task[r].kind \in SaleTasks /\ Quiet /\ UNCHANGED memo
      /\ GotoIf(k \in DOMAIN sale, r, task[r].kind, <<SaleRow(k)>>)
  BY <1>0 DEF TakeSale, SaleTasks, Quiet, tables
<1>2. CASE k \notin DOMAIN sale
  <2>1. Finish(r, "failed")
    BY <1>1, <1>2 DEF GotoIf
  <2>2. QED
    BY <1>1, <2>1, EndedStep, MemoIs
<1>3. CASE k \in DOMAIN sale
  <2>1. Goto(r, task[r].kind, <<SaleRow(k)>>)
    BY <1>1, <1>3 DEF GotoIf
  <2>2. SaleRow(k) \in Lockable
    BY <1>3, RowsAreLockable DEF IInv, Types, TypeOK
  <2>3. Locks' /\ OthersRest(r) /\ Went(r, "idle", task[r].kind, {SaleRow(k)})
    BY <1>1, <2>1, <2>2, WentToOne DEF IInv
  <2>4. /\ pc'[r] = task[r].kind /\ pc'[r] \in SaleTasks
        /\ SaleRow(k) \in Reserved(r)' /\ task' = task
    BY <1>1, <2>3 DEF Went, OthersRest
  <2>5. SaleOf(r)' /\ pc'[r] \in SalePoints
    BY <1>0, <2>4 DEF SaleOf, SaleRow, SalePoints, SaleTasks
  <2>6. QED
    BY <1>1, <2>3, <2>4, <2>5, SaleGoesOn
<1>4. QED
  BY <1>2, <1>3

LEMMA AddItemHolds ==
  ASSUME IInv, NEW r \in Request, AddItem(r)
  PROVE  IInv'
<1>0. PICK k, v : k = task[r].sale /\ v = task[r].variant
  OBVIOUS
<1>1. /\ At(r, "add") /\ Quiet /\ UNCHANGED memo
      /\ \/ Finish(r, "failed")
         \/ Is(k, "draft") /\ Goto(r, "adding", <<VariantRow(k[1], v)>>)
  BY <1>0 DEF AddItem, GotoIf, Quiet, tables
<1>2. pc[r] = "add" /\ SaleRow(k) \in held[r] /\ task[r].kind \in SaleTasks
  BY <1>0, <1>1, AtHolds DEF IInv, ControlOf, PointOf, SaleOf, SalePoints, SaleTasks
<1>3. CASE Finish(r, "failed")
  BY <1>1, <1>3, EndedStep, MemoIs
<1>4. ASSUME k \in DOMAIN sale, sale[k].status = "draft",
             Goto(r, "adding", <<VariantRow(k[1], v)>>)
      PROVE  IInv'
  <2>1. VariantRow(k[1], v) \in Lockable
    <3>1. task[r].kind = "add"
      BY <1>2 DEF IInv, ControlOf, PointOf, SaleTasks
    <3>2. v \in Variant /\ k[1] \in Store
      BY <1>0, <1>4, <3>1, TaskFields, KeyParts DEF IInv, Locks, Types, TypeOK
    <3>3. QED
      BY <3>2, RowsAreLockable
  <2>2. Locks' /\ OthersRest(r) /\ Went(r, "add", "adding", {VariantRow(k[1], v)})
    BY <1>1, <1>4, <2>1, WentToOne DEF IInv
  <2>3. pc'[r] = "adding" /\ SaleRow(k) \in held'[r] /\ task' = task /\ sale' = sale
    BY <1>1, <1>2, <2>2 DEF Went, OthersRest, Quiet
  <2>4. SaleOf(r)' /\ pc'[r] \in SalePoints
    BY <1>0, <1>4, <2>3 DEF SaleOf, SaleRow, SalePoints, SaleTasks
  <2>5. QED
    BY <1>1, <1>2, <2>2, <2>3, <2>4, SaleGoesOn DEF SaleTasks
<1>5. QED
  BY <1>1, <1>3, <1>4 DEF Is

LEMMA CompleteHolds ==
  ASSUME IInv, NEW r \in Request, Complete(r)
  PROVE  IInv'
<1>0. PICK k : k = task[r].sale
  OBVIOUS
<1>1. /\ At(r, "complete") /\ Quiet /\ UNCHANGED memo
      /\ \/ Finish(r, "failed")
         \/ /\ Is(k, "draft")
            /\ \E rows \in Orders({VariantRow(k[1], v) : v \in VariantsOf(k)}) :
                 Goto(r, "checking", rows)
  BY <1>0 DEF Complete, Quiet, tables
<1>2. pc[r] = "complete" /\ SaleRow(k) \in held[r] /\ task[r].kind \in SaleTasks
  BY <1>0, <1>1, AtHolds DEF IInv, ControlOf, PointOf, SaleOf, SalePoints, SaleTasks
<1>3. CASE Finish(r, "failed")
  BY <1>1, <1>3, EndedStep, MemoIs
<1>4. ASSUME k \in DOMAIN sale, sale[k].status = "draft",
             NEW rows \in Orders({VariantRow(k[1], v) : v \in VariantsOf(k)}),
             Goto(r, "checking", rows)
      PROVE  IInv'
  <2>1. PICK V : V = VariantsOf(k)
    OBVIOUS
  <2>2. V \in SUBSET Variant /\ k[1] \in Store
    BY <1>4, <2>1, SaleUnits, KeyParts DEF IInv, Types, TypeOK
  <2>3. rows \in Seq(Lockable)
        /\ {rows[i] : i \in DOMAIN rows} = {VariantRow(k[1], v) : v \in V}
    BY <1>4, <2>1, <2>2, RowsOfVariants
  <2>4. /\ Locks' /\ OthersRest(r)
        /\ Went(r, "complete", "checking", {VariantRow(k[1], v) : v \in V})
    BY <1>1, <1>4, <2>3, WentBy DEF IInv
  <2>5. \A v \in V : VariantRow(k[1], v) \in Reserved(r)'
    BY <2>4 DEF Went
  <2>6. pc'[r] = "checking" /\ SaleRow(k) \in held'[r] /\ task' = task /\ sale' = sale
    BY <1>1, <1>2, <2>4 DEF Went, OthersRest, Quiet
  <2>7. VariantsOf(k)' = V
    BY <2>1, <2>6 DEF VariantsOf, LinesIn
  <2>8. SaleOf(r)' /\ pc'[r] \in SalePoints
    BY <1>0, <1>4, <2>5, <2>6, <2>7 DEF SaleOf, SaleRow, VariantRow, SalePoints, SaleTasks
  <2>9. QED
    BY <1>1, <1>2, <2>4, <2>6, <2>8, SaleGoesOn DEF SaleTasks
<1>5. QED
  BY <1>1, <1>3, <1>4 DEF Is

LEMMA ValidateStockHolds ==
  ASSUME IInv, NEW r \in Request, ValidateStock(r)
  PROVE  IInv'
<1>0. PICK k : k = task[r].sale
  OBVIOUS
<1>1. /\ At(r, "checking") /\ Quiet /\ UNCHANGED memo
      /\ GotoIf(\A v \in VariantsOf(k) : Units(sale[k], v) <= stock[k[1]][v],
                r, "numbering", <<StoreRow(k[1])>>)
  BY <1>0 DEF ValidateStock, Quiet, tables
<1>2. /\ pc[r] = "checking" /\ task[r].kind \in SaleTasks
      /\ k \in DOMAIN sale /\ SaleRow(k) \in held[r] /\ sale[k].status = "draft"
      /\ \A v \in VariantsOf(k) : VariantRow(k[1], v) \in held[r]
  BY <1>0, <1>1, AtHolds DEF IInv, ControlOf, PointOf, SaleOf, SalePoints, SaleTasks
<1>3. CASE ~ \A v \in VariantsOf(k) : Units(sale[k], v) <= stock[k[1]][v]
  <2>1. Finish(r, "failed")
    BY <1>1, <1>3 DEF GotoIf
  <2>2. QED
    BY <1>1, <2>1, EndedStep, MemoIs
<1>4. CASE \A v \in VariantsOf(k) : Units(sale[k], v) <= stock[k[1]][v]
  <2>1. Goto(r, "numbering", <<StoreRow(k[1])>>)
    BY <1>1, <1>4 DEF GotoIf
  <2>2. StoreRow(k[1]) \in Lockable
    BY <1>2, RowsAreLockable, KeyParts DEF IInv, Types, TypeOK
  <2>3. Locks' /\ OthersRest(r) /\ Went(r, "checking", "numbering", {StoreRow(k[1])})
    BY <1>1, <2>1, <2>2, WentToOne DEF IInv
  <2>4. /\ pc'[r] = "numbering" /\ task' = task /\ sale' = sale /\ stock' = stock
        /\ held'[r] = held[r] /\ StoreRow(k[1]) \in Reserved(r)'
    BY <1>1, <2>3 DEF Went, OthersRest, Quiet
  <2>5. VariantsOf(k)' = VariantsOf(k)
    BY <2>4 DEF VariantsOf, LinesIn
  <2>6. SaleOf(r)' /\ pc'[r] \in SalePoints
    BY <1>0, <1>2, <1>4, <2>4, <2>5 DEF SaleOf, SaleRow, VariantRow, StoreRow, SalePoints, SaleTasks
  <2>7. QED
    BY <1>1, <1>2, <2>3, <2>4, <2>6, SaleGoesOn DEF SaleTasks
<1>5. QED
  BY <1>3, <1>4

LEMMA CancelHolds ==
  ASSUME IInv, NEW r \in Request, Cancel(r)
  PROVE  IInv'
<1>0. PICK k : k = task[r].sale
  OBVIOUS
<1> DEFINE rows == [i \in DOMAIN LinesIn(k) |-> VariantRow(k[1], LinesIn(k)[i].variant)]
<1>1. /\ At(r, "cancel") /\ Quiet /\ UNCHANGED memo
      /\ \/ Finish(r, "failed")
         \/ Is(k, "completed") /\ Goto(r, "restocking", rows)
  BY <1>0 DEF Cancel, Quiet, tables
<1>2. pc[r] = "cancel" /\ SaleRow(k) \in held[r] /\ task[r].kind \in SaleTasks
  BY <1>0, <1>1, AtHolds DEF IInv, ControlOf, PointOf, SaleOf, SalePoints, SaleTasks
<1>3. CASE Finish(r, "failed")
  BY <1>1, <1>3, EndedStep, MemoIs
<1>4. ASSUME k \in DOMAIN sale, sale[k].status = "completed", Goto(r, "restocking", rows)
      PROVE  IInv'
  <2>1. rows \in Seq(Lockable)
    <3>1. sale[k].basket \in DOMAIN Lines /\ k[1] \in Store
      BY <1>4, SaleFields, KeyParts DEF IInv, Types
    <3>2. /\ Len(LinesIn(k)) \in Nat /\ DOMAIN LinesIn(k) = 1..Len(LinesIn(k))
          /\ \A i \in DOMAIN LinesIn(k) : LinesIn(k)[i].variant \in Variant
      BY <3>1, LinesAre DEF LinesIn
    <3>3. \A i \in DOMAIN LinesIn(k) : VariantRow(k[1], LinesIn(k)[i].variant) \in Lockable
      BY <3>1, <3>2, RowsAreLockable
    <3>4. rows \in [1..Len(LinesIn(k)) -> Lockable]
      BY <3>2, <3>3
    <3> HIDE DEF rows
    <3>5. QED
      BY <3>2, <3>4
  <2> HIDE DEF rows
  <2>2. /\ Locks' /\ OthersRest(r)
        /\ Went(r, "cancel", "restocking", {rows[i] : i \in DOMAIN rows})
    BY <1>1, <1>4, <2>1, WentBy DEF IInv
  <2>3. pc'[r] = "restocking" /\ SaleRow(k) \in held'[r] /\ task' = task /\ sale' = sale
    BY <1>1, <1>2, <2>2 DEF Went, OthersRest, Quiet
  <2>4. SaleOf(r)' /\ pc'[r] \in SalePoints
    BY <1>0, <1>4, <2>3 DEF SaleOf, SaleRow, SalePoints, SaleTasks
  <2>5. QED
    BY <1>1, <1>2, <2>2, <2>3, <2>4, SaleGoesOn DEF SaleTasks
<1> HIDE DEF rows
<1>5. QED
  BY <1>1, <1>3, <1>4 DEF Is

LEMMA AskHolds ==
  ASSUME IInv, NEW r \in Request, Ask(r)
  PROVE  IInv'
<1>1. /\ At(r, "idle") /\ Quiet
      /\ GotoIf(task[r].store \in DOMAIN stock
                  /\ ValidPeriod(DateFrom(task[r], day), DateTo(task[r], day)),
                r, "reading", << >>)
  BY DEF Ask, Quiet, tables
<1>2. MemoOK' /\ \A q \in Request \ {r} : memo'[q] = memo[q]
  <2>1. /\ DOMAIN memo' = DOMAIN memo /\ \A q \in Request \ {r} : memo'[q] = memo[q]
        /\ DOMAIN memo'[r] = DOMAIN memo[r]
    BY DEF Ask, IInv, Types, MemoOK
  <2>2. QED
    BY <2>1 DEF IInv, Types, MemoOK
<1>3. CASE Finish(r, "failed")
  BY <1>1, <1>2, <1>3, EndedStep
<1>4. CASE Goto(r, "reading", << >>)
  <2>1. Locks' /\ OthersRest(r) /\ pc'[r] = "reading"
    BY <1>1, <1>4, WentNowhere DEF IInv, Went
  <2>2. QED
    BY <1>1, <1>2, <2>1, EasyStep
<1>5. QED
  BY <1>1, <1>3, <1>4 DEF GotoIf

LEMMA ReadSectionHolds ==
  ASSUME IInv, NEW r \in Request, ReadSection(r)
  PROVE  IInv'
<1>1. /\ At(r, "reading") /\ Quiet
      /\ Finish(r, "done") \/ UNCHANGED transaction
  BY DEF ReadSection, Quiet, tables
<1>2. MemoOK' /\ \A q \in Request \ {r} : memo'[q] = memo[q]
  <2>1. /\ DOMAIN memo' = DOMAIN memo /\ \A q \in Request \ {r} : memo'[q] = memo[q]
        /\ DOMAIN memo'[r] = DOMAIN memo[r]
    BY DEF ReadSection, IInv, Types, MemoOK
  <2>2. QED
    BY <2>1 DEF IInv, Types, MemoOK
<1>3. CASE Finish(r, "done")
  BY <1>1, <1>2, <1>3, EndedStep
<1>4. CASE UNCHANGED transaction
  <2>1. UNCHANGED <<task, pc, held, plan>>
    BY <1>4 DEF transaction
  <2>2. Locks' /\ OthersRest(r)
    BY <2>1 DEF IInv, Locks, LocksInv, OthersRest
  <2>3. pc'[r] = "reading"
    BY <1>1, <2>1 DEF At
  <2>4. QED
    BY <1>1, <1>2, <2>2, <2>3, EasyStep
<1>5. QED
  BY <1>1, <1>3, <1>4
-----------------------------------------------------------------------------
(* The commits *)

\* The movements depend on which sales there are and on their status only.
LEMMA SameKeys ==
  ASSUME NEW f, NEW g, DOMAIN f = DOMAIN g,
         \A k \in DOMAIN f : f[k].status = g[k].status
  PROVE  MovementKeys(f) = MovementKeys(g)
<1>1. {j \in DOMAIN f : f[j].status # "draft"} = {j \in DOMAIN g : g[j].status # "draft"}
  OBVIOUS
<1>2. {j \in DOMAIN f : f[j].status = "cancelled"}
        = {j \in DOMAIN g : g[j].status = "cancelled"}
  OBVIOUS
<1>3. QED
  BY <1>1, <1>2 DEF MovementKeys

LEMMA KeysAre ==
  ASSUME NEW f, NEW k, NEW kind
  PROVE  <<k, kind>> \in MovementKeys(f) <=>
           /\ k \in DOMAIN f
           /\ \/ kind = "sale" /\ f[k].status # "draft"
              \/ kind = "cancellation" /\ f[k].status = "cancelled"
  BY DEF MovementKeys

LEMMA KeysArePairs ==
  ASSUME NEW f, NEW m \in MovementKeys(f)
  PROVE  /\ m = <<m[1], m[2]>> /\ m[1] \in DOMAIN f
         /\ m[2] \in {"sale", "cancellation"}
  BY DEF MovementKeys

LEMMA ShiftedSale ==
  ASSUME NEW row \in Sale, NEW n \in Nat, NEW next,
         next = [row EXCEPT !.made = row.made + n]
  PROVE  next \in Sale /\ next.made = row.made + n
         /\ next.status = row.status /\ next.done = row.done
  BY DEF Sale

LEMMA DatedMovement ==
  ASSUME NEW row \in [number: Nat, made: Nat], NEW date \in Nat, NEW next,
         next = [row EXCEPT !.made = date]
  PROVE  next \in [number: Nat, made: Nat] /\ next.made = date /\ next.number = row.number
  OBVIOUS

\* What moving a timeline does to the tables.
LEMMA ShiftEffect ==
  ASSUME IInv, NEW r \in Request, CommitShift(r)
  PROVE  /\ pc[r] = "shifting" /\ manages # NoStore /\ memo[r].days \in Nat
         /\ memo[r].days \in 0..LastDay
         /\ StoreRow(manages) \in held[r]
         /\ \A k \in SalesOf(manages) :
              /\ Finished(k) => SaleRow(k) \in held[r]
              /\ sale[k].status = "completed" => sale[k].made + memo[r].days <= day
         /\ UNCHANGED <<day, manages, stock, memo>> /\ ThenIssueToken(r)
         /\ DOMAIN sale' = DOMAIN sale /\ DOMAIN movement' = DOMAIN movement
         /\ \A k \in DOMAIN sale :
              IF SaleRow(k) \in held[r] /\ Finished(k)
              THEN /\ k[1] = manages
                   /\ sale'[k] = [sale[k] EXCEPT !.made = sale[k].made + memo[r].days]
              ELSE sale'[k] = sale[k]
         /\ \A m \in DOMAIN movement :
              IF m[1][1] = manages
              THEN movement'[m] = [movement[m] EXCEPT !.made = movement[m].made + memo[r].days]
              ELSE movement'[m] = movement[m]
<1>1. At(r, "shifting")
  BY DEF CommitShift
<1>2. /\ pc[r] = "shifting" /\ Reserved(r) = held[r]
  BY <1>1, AtHolds
<1>3. /\ memo[r].store = manages /\ manages # NoStore
      /\ memo[r].days \in 0..LastDay /\ StoreRow(manages) \in held[r]
      /\ \A k \in SaleKey : SaleRow(k) \in held[r] => k[1] = manages
      /\ \A k \in SalesOf(manages) :
           /\ Finished(k) => SaleRow(k) \in held[r]
           /\ sale[k].status = "completed" => sale[k].made + memo[r].days <= day
  BY <1>2 DEF IInv, ControlOf, VisitOf
<1>4. memo[r].days \in Nat
  BY <1>3, Days DEF IInv, Types
<1>5. UNCHANGED <<day, manages, stock, memo>> /\ ThenIssueToken(r)
  BY DEF CommitShift
<1>6. /\ DOMAIN sale' = DOMAIN sale
      /\ \A k \in DOMAIN sale :
           sale'[k] = IF SaleRow(k) \in held[r] /\ Finished(k)
                      THEN [sale[k] EXCEPT !.made = sale[k].made + memo[r].days] ELSE sale[k]
  BY DEF CommitShift
<1>7. /\ DOMAIN movement' = DOMAIN movement
      /\ \A m \in DOMAIN movement :
           movement'[m] = IF m \in Dated(manages)
                          THEN [movement[m] EXCEPT !.made = movement[m].made + memo[r].days]
                          ELSE movement[m]
  BY <1>3 DEF CommitShift
<1>8. \A m \in DOMAIN movement : m \in Dated(manages) <=> m[1][1] = manages
  <2>1. \A m \in DOMAIN movement : m[2] \in {"sale", "cancellation"}
    BY KeysArePairs DEF IInv, BookedInv
  <2>2. QED
    BY <2>1 DEF Dated
<1>9. \A k \in DOMAIN sale : k \in SaleKey
  BY DEF IInv, Types, TypeOK
<1>10. \A k \in DOMAIN sale :
         IF SaleRow(k) \in held[r] /\ Finished(k)
         THEN /\ k[1] = manages
              /\ sale'[k] = [sale[k] EXCEPT !.made = sale[k].made + memo[r].days]
         ELSE sale'[k] = sale[k]
  BY <1>3, <1>6, <1>9
<1>11. \A m \in DOMAIN movement :
         IF m[1][1] = manages
         THEN movement'[m] = [movement[m] EXCEPT !.made = movement[m].made + memo[r].days]
         ELSE movement'[m] = movement[m]
  BY <1>7, <1>8
<1>12. QED
  BY <1>2, <1>3, <1>4, <1>5, <1>6, <1>7, <1>10, <1>11

LEMMA CommitShiftHolds ==
  ASSUME IInv, NEW r \in Request, CommitShift(r)
  PROVE  IInv'
<1>0. PICK n : n = memo[r].days
  OBVIOUS
<1>1. /\ pc[r] = "shifting" /\ manages # NoStore /\ n \in Nat
      /\ StoreRow(manages) \in held[r]
      /\ \A k \in SalesOf(manages) : sale[k].status = "completed" => sale[k].made + n <= day
      /\ UNCHANGED <<day, manages, stock, memo>> /\ ThenIssueToken(r)
      /\ DOMAIN sale' = DOMAIN sale /\ DOMAIN movement' = DOMAIN movement
  BY <1>0, ShiftEffect
<1>2. \A k \in DOMAIN sale :
        IF SaleRow(k) \in held[r] /\ Finished(k)
        THEN /\ k[1] = manages
             /\ sale'[k] = [sale[k] EXCEPT !.made = sale[k].made + n]
        ELSE sale'[k] = sale[k]
  BY <1>0, ShiftEffect
<1>3. \A m \in DOMAIN movement :
        \/ movement'[m] = [movement[m] EXCEPT !.made = movement[m].made + n]
        \/ movement'[m] = movement[m]
  BY <1>0, ShiftEffect
<1>4. Locks' /\ OthersRest(r) /\ pc'[r] = "issuing"
  BY <1>1, TokenNext DEF IInv
<1>5. TypeOK /\ Stores /\ NothingDangles /\ MadeInv /\ BookedInv
  BY DEF IInv, Types
<1>6. ASSUME NEW k \in DOMAIN sale
      PROVE  /\ sale'[k] \in Sale /\ sale'[k].status = sale[k].status
             /\ sale'[k].done = sale[k].done
             /\ sale'[k].made = sale[k].made
                  \/ (k[1] = manages /\ Finished(k) /\ sale'[k].made = sale[k].made + n)
             /\ SaleRow(k) \notin held[r] => sale'[k] = sale[k]
  <2>1. sale[k] \in Sale
    BY <1>5 DEF TypeOK
  <2>2. CASE SaleRow(k) \in held[r] /\ Finished(k)
    <3>1. k[1] = manages /\ sale'[k] = [sale[k] EXCEPT !.made = sale[k].made + n]
      BY <1>2, <2>2
    <3>2. /\ sale'[k] \in Sale /\ sale'[k].made = sale[k].made + n
          /\ sale'[k].status = sale[k].status /\ sale'[k].done = sale[k].done
      BY <1>1, <2>1, <3>1, ShiftedSale
    <3>3. QED
      BY <2>2, <3>1, <3>2
  <2>3. CASE ~ (SaleRow(k) \in held[r] /\ Finished(k))
    BY <1>2, <2>1, <2>3
  <2>4. QED
    BY <2>2, <2>3
<1>7. \A m \in DOMAIN movement : movement'[m] \in [number: Nat, made: Nat]
  <2>1. ASSUME NEW m \in DOMAIN movement
        PROVE  movement'[m] \in [number: Nat, made: Nat]
    <3>1. movement[m] \in [number: Nat, made: Nat]
      BY <1>5 DEF TypeOK
    <3>2. movement[m].made + n \in Nat
      BY <1>1, <3>1
    <3>3. QED
      BY <1>3, <2>1, <3>1, <3>2, DatedMovement
  <2>2. QED
    BY <2>1
<1>8. Tables'
  <2>1. TypeOK'
    <3>1. /\ day \in FirstDay..LastDay /\ manages \in Store \cup {NoStore}
          /\ DOMAIN sale \subseteq SaleKey
          /\ \A k \in DOMAIN sale : sale[k].done = Never <=> sale[k].status = "draft"
          /\ DOMAIN movement \subseteq SaleKey \X {"sale", "cancellation"}
          /\ stock \in [DOMAIN stock -> [Variant -> Nat]] /\ DOMAIN stock \subseteq Store
      BY <1>5 DEF TypeOK
    <3>2. \A k \in DOMAIN sale : /\ sale'[k] \in Sale
                                 /\ sale'[k].done = Never <=> sale'[k].status = "draft"
      BY <1>6, <3>1
    <3>3. QED
      BY <1>1, <1>7, <3>1, <3>2 DEF TypeOK
  <2>2. IsFiniteSet(DOMAIN sale)' /\ Stores' /\ NothingDangles'
    BY <1>1, <1>5 DEF IInv, Types, Stores, NothingDangles
  <2>3. MadeInv'
    <3>1. ASSUME NEW k \in DOMAIN sale, sale[k].status # "cancelled"
          PROVE  sale'[k].made <= day
      <4>1. sale[k].made <= day
        BY <1>5, <3>1 DEF MadeInv
      <4>2. ASSUME k[1] = manages, Finished(k)
            PROVE  sale[k].made + n <= day
        BY <1>1, <3>1, <4>2 DEF SalesOf, Finished
      <4>3. QED
        BY <1>6, <4>1, <4>2
    <3>2. QED
      BY <1>1, <1>6, <3>1 DEF MadeInv
  <2>4. BookedInv'
    <3>1. MovementKeys(sale') = MovementKeys(sale)
      BY <1>1, <1>6, SameKeys
    <3>2. QED
      BY <1>1, <1>5, <3>1 DEF BookedInv, MovementKeys
  <2>5. QED
    BY <2>1, <2>2, <2>3, <2>4 DEF Tables
<1>9. Frame(r)
  <2>1. StoreFrame(r)
    BY <1>1 DEF StoreFrame
  <2>2. SaleFrame(r)
    BY <1>1, <1>6 DEF SaleFrame
  <2>3. StockFrame(r)
    BY <1>1, <1>5 DEF StockFrame, TypeOK
  <2>4. QED
    BY <2>1, <2>2, <2>3 DEF Frame
<1>10. ControlOf(r)'
  BY <1>4, EasyHolds
<1>11. QED
  BY <1>1, <1>4, <1>8, <1>9, <1>10, StepHolds, MemoIs DEF Alone
\* One row of the sales is added or replaced by a request that has locked it or,
\* if the row is new, its store; the movements follow.
LEMMA OneSale ==
  ASSUME IInv, NEW r \in Request, NEW k \in SaleKey, NEW row \in Sale,
         UNCHANGED <<day, manages, memo>>, Written(sale, sale', k, row),
         row.done = Never <=> row.status = "draft",
         row.status # "cancelled" => row.made <= day,
         k[1] \in DOMAIN stock, StoreRow(k[1]) \in held[r] \/ k \in DOMAIN sale,
         IF k \in DOMAIN sale THEN SaleRow(k) \in held[r]
         ELSE k = task[r].sale /\ task[r].kind = "create",
         StoreRow(k[1]) \notin held[r] =>
           \/ row.status = "draft"
           \/ row.status = "cancelled" /\ sale[k].status \in {"completed", "cancelled"},
         DOMAIN stock' = DOMAIN stock, stock' \in [DOMAIN stock -> [Variant -> Nat]],
         \A m \in DOMAIN movement' : movement'[m] \in [number: Nat, made: Nat],
         DOMAIN movement' = MovementKeys(sale'),
         StockFrame(r),
         Locks', OthersRest(r), pc'[r] \in {"done", "failed"}
  PROVE  IInv'
<1>1. /\ DOMAIN sale' = DOMAIN sale \cup {k} /\ sale'[k] = row
      /\ \A j \in DOMAIN sale \ {k} : sale'[j] = sale[j]
  BY DEF Written
<1>2. TypeOK /\ IsFiniteSet(DOMAIN sale) /\ Stores /\ NothingDangles /\ MadeInv
  BY DEF IInv, Types
<1>3. Tables'
  <2>1. /\ DOMAIN sale' \subseteq SaleKey
        /\ \A j \in DOMAIN sale' : /\ sale'[j] \in Sale
                                   /\ sale'[j].done = Never <=> sale'[j].status = "draft"
    BY <1>1, <1>2 DEF TypeOK
  <2>2. DOMAIN movement' \subseteq SaleKey \X {"sale", "cancellation"}
    BY <2>1, KeysArePairs
  <2>3. TypeOK'
    <3>1. /\ day \in FirstDay..LastDay /\ manages \in Store \cup {NoStore}
          /\ DOMAIN stock \subseteq Store
      BY <1>2 DEF TypeOK
    <3>2. QED
      BY <2>1, <2>2, <3>1 DEF TypeOK
  <2>4. IsFiniteSet(DOMAIN sale')
    BY <1>1, <1>2, FS_AddElement
  <2>5. Stores' /\ NothingDangles'
    BY <1>1, <1>2 DEF Stores, NothingDangles
  <2>6. MadeInv'
    BY <1>1, <1>2 DEF MadeInv
  <2>7. BookedInv'
    BY DEF BookedInv, MovementKeys
  <2>8. QED
    BY <2>3, <2>4, <2>5, <2>6, <2>7 DEF Tables
<1>4. StoreFrame(r)
  BY DEF StoreFrame
<1>5. SaleFrame(r)
  <2>1. \A j \in DOMAIN sale :
          SaleRow(j) \notin held[r] => j \in DOMAIN sale' /\ sale'[j] = sale[j]
    BY <1>1
  <2>2. \A j \in DOMAIN sale' \ DOMAIN sale :
          j = task[r].sale /\ task[r].kind = "create" /\ StoreRow(j[1]) \in held[r]
    BY <1>1
  <2>3. ASSUME NEW j \in DOMAIN sale \cap DOMAIN sale', StoreRow(j[1]) \notin held[r]
        PROVE  /\ sale'[j].status \in {"completed", "cancelled"}
                    => sale[j].status \in {"completed", "cancelled"}
               /\ sale'[j].status = "completed" =>
                    sale[j].status = "completed" /\ sale'[j].made = sale[j].made
    BY <1>1, <2>3
  <2>4. QED
    BY <2>1, <2>2, <2>3 DEF SaleFrame
<1>6. ControlOf(r)'
  BY EasyHolds
<1>7. QED
  BY <1>3, <1>4, <1>5, <1>6, StepHolds, MemoIs DEF Alone, Frame

LEMMA CommitCreateHolds ==
  ASSUME IInv, NEW r \in Request, CommitCreate(r)
  PROVE  IInv'
<1>0. PICK k : k = task[r].sale
  OBVIOUS
<1> DEFINE row == [status |-> "draft", number |-> 0, channel |-> task[r].channel,
                   basket |-> Empty, made |-> day, done |-> Never]
<1>1. /\ At(r, "creating") /\ UNCHANGED <<day, manages, movement, stock, memo>>
      /\ \/ k[1] \in DOMAIN stock /\ sale' = Add(sale, k, row) /\ Finish(r, "done")
         \/ Finish(r, "failed") /\ UNCHANGED sale
  BY <1>0 DEF CommitCreate
<1>2. /\ task[r].kind = "create" /\ k \notin DOMAIN sale /\ StoreRow(k[1]) \in held[r]
  BY <1>0, <1>1, AtHolds DEF IInv, ControlOf, PointOf, NewSaleOf, At
<1>3. k \in SaleKey /\ task[r].channel \in Channel /\ Empty \in DOMAIN Lines
  BY <1>0, <1>2, TaskFields, DemoAssumption DEF IInv, Locks
<1>4. CASE Finish(r, "failed") /\ UNCHANGED sale
  BY <1>1, <1>4, EndedStep, MemoIs DEF Quiet
<1>5. ASSUME k[1] \in DOMAIN stock, sale' = Add(sale, k, row), Finish(r, "done")
      PROVE  IInv'
  <2>1. TypeOK /\ BookedInv
    BY DEF IInv, Types
  <2>2. day \in Nat
    BY <2>1, Days
  <2>3. /\ row \in Sale /\ row.status = "draft" /\ row.done = Never /\ row.made = day
    BY <1>3, <2>2 DEF Sale, Status
  <2> HIDE DEF row
  <2>4. Locks' /\ OthersRest(r) /\ pc'[r] = "done" /\ Written(sale, sale', k, row)
    BY <1>5, EndedBy, AddWrites DEF IInv
  <2>5. DOMAIN movement' = MovementKeys(sale')
    <3>1. /\ DOMAIN sale' = DOMAIN sale \cup {k} /\ sale'[k] = row
          /\ \A j \in DOMAIN sale \ {k} : sale'[j] = sale[j]
      BY <2>4 DEF Written
    <3>2. /\ {j \in DOMAIN sale' : sale'[j].status # "draft"}
               = {j \in DOMAIN sale : sale[j].status # "draft"}
          /\ {j \in DOMAIN sale' : sale'[j].status = "cancelled"}
               = {j \in DOMAIN sale : sale[j].status = "cancelled"}
      BY <1>2, <2>3, <3>1
    <3>3. MovementKeys(sale') = MovementKeys(sale)
      BY <3>2 DEF MovementKeys
    <3>4. QED
      BY <1>1, <2>1, <3>3 DEF BookedInv
  <2>6. /\ stock' \in [DOMAIN stock -> [Variant -> Nat]]
        /\ \A m \in DOMAIN movement' : movement'[m] \in [number: Nat, made: Nat]
    BY <1>1, <2>1 DEF TypeOK
  <2>7. StockFrame(r)
    BY <1>1, <2>1 DEF StockFrame, TypeOK
  <2>8. row.made <= day
    BY <2>2, <2>3
  <2>9. QED
    BY <1>0, <1>1, <1>2, <1>3, <1>5, <2>3, <2>4, <2>5, <2>6, <2>7, <2>8, OneSale
<1>6. QED
  BY <1>1, <1>4, <1>5

\* What adding an item does: a draft gets another basket.
LEMMA ItemEffect ==
  ASSUME IInv, NEW r \in Request, CommitItem(r)
  PROVE  \E k \in DOMAIN sale, row \in Sale :
           /\ SaleRow(k) \in held[r] /\ sale[k].status = "draft"
           /\ row.status = "draft" /\ row.done = Never /\ row.made = sale[k].made
           /\ Written(sale, sale', k, row) /\ Finish(r, "done")
           /\ UNCHANGED <<day, manages, movement, stock, memo, torn>>
<1>0. PICK k : k = task[r].sale
  OBVIOUS
<1>1. PICK b \in DOMAIN Lines : sale' = [sale EXCEPT ![k].basket = b]
  BY <1>0 DEF CommitItem, WithItem
<1>2. /\ At(r, "adding") /\ Finish(r, "done")
      /\ UNCHANGED <<day, manages, movement, stock, memo, torn>>
  BY DEF CommitItem
<1>3. k \in DOMAIN sale /\ SaleRow(k) \in held[r] /\ sale[k].status = "draft"
  BY <1>0, <1>2, AtHolds DEF IInv, ControlOf, SaleOf
<1>4. sale[k] \in Sale /\ sale[k].done = Never
  BY <1>3, SaleFields DEF IInv, Types
<1>5. PICK row : row = [sale[k] EXCEPT !.basket = b]
  OBVIOUS
<1>6. row \in Sale /\ row.status = "draft" /\ row.done = Never /\ row.made = sale[k].made
  BY <1>3, <1>4, <1>5 DEF Sale
<1>7. sale' = [sale EXCEPT ![k] = row]
  BY <1>1, <1>3, <1>5
<1>8. Written(sale, sale', k, row)
  BY <1>3, <1>7, ReplacedIsWritten
<1>9. QED
  BY <1>2, <1>3, <1>6, <1>8

LEMMA CommitItemHolds ==
  ASSUME IInv, NEW r \in Request, CommitItem(r)
  PROVE  IInv'
<1>1. PICK k \in DOMAIN sale, row \in Sale :
        /\ SaleRow(k) \in held[r] /\ sale[k].status = "draft"
        /\ row.status = "draft" /\ row.done = Never /\ row.made = sale[k].made
        /\ Written(sale, sale', k, row) /\ Finish(r, "done")
        /\ UNCHANGED <<day, manages, movement, stock, memo, torn>>
  BY ItemEffect
<1>2. TypeOK /\ NothingDangles /\ MadeInv /\ BookedInv
  BY DEF IInv, Types
<1>3. k \in SaleKey /\ k[1] \in DOMAIN stock /\ row.made <= day
  BY <1>1, <1>2 DEF TypeOK, NothingDangles, MadeInv
<1>4. DOMAIN movement' = MovementKeys(sale')
  <2>1. DOMAIN sale' = DOMAIN sale /\ \A j \in DOMAIN sale : sale[j].status = sale'[j].status
    BY <1>1 DEF Written
  <2>2. QED
    BY <1>1, <1>2, <2>1, SameKeys DEF BookedInv
<1>5. /\ stock' \in [DOMAIN stock -> [Variant -> Nat]]
      /\ \A m \in DOMAIN movement' : movement'[m] \in [number: Nat, made: Nat]
  BY <1>1, <1>2 DEF TypeOK
<1>6. StockFrame(r)
  BY <1>1, <1>2 DEF StockFrame, TypeOK
<1>7. Locks' /\ OthersRest(r) /\ pc'[r] = "done"
  BY <1>1, EndedBy DEF IInv
<1>8. QED
  BY <1>1, <1>3, <1>4, <1>5, <1>6, <1>7, OneSale

\* A finished sale has one movement more.
LEMMA OneMovement ==
  ASSUME NEW f, NEW g, NEW k \in DOMAIN f, NEW row, NEW kind, Written(f, g, k, row),
         \/ f[k].status = "draft" /\ row.status = "completed" /\ kind = "sale"
         \/ f[k].status = "completed" /\ row.status = "cancelled" /\ kind = "cancellation"
  PROVE  MovementKeys(g) = MovementKeys(f) \cup {<<k, kind>>}
<1>1. /\ DOMAIN g = DOMAIN f /\ g[k] = row
      /\ \A j \in DOMAIN f \ {k} : g[j] = f[j]
  BY DEF Written
<1>2. PICK D, C : /\ D = {j \in DOMAIN f : f[j].status # "draft"}
                  /\ C = {j \in DOMAIN f : f[j].status = "cancelled"}
  OBVIOUS
<1>3. /\ {j \in DOMAIN g : g[j].status # "draft"} = D \cup {k}
      /\ {j \in DOMAIN g : g[j].status = "cancelled"}
           = IF kind = "sale" THEN C ELSE C \cup {k}
      /\ kind = "cancellation" => k \in D
  BY <1>1, <1>2
<1>4. /\ MovementKeys(f) = {<<j, "sale">> : j \in D} \cup {<<j, "cancellation">> : j \in C}
      /\ MovementKeys(g) = {<<j, "sale">> : j \in D \cup {k}} \cup
           {<<j, "cancellation">> : j \in IF kind = "sale" THEN C ELSE C \cup {k}}
  BY <1>2, <1>3 DEF MovementKeys
<1>5. MovementKeys(g) = MovementKeys(f) \cup {<<k, kind>>}
  BY <1>3, <1>4
<1>6. QED
  BY <1>5

LEMMA CancelledSale ==
  ASSUME NEW row \in Sale, NEW next, next = [row EXCEPT !.status = "cancelled"]
  PROVE  next \in Sale /\ next.status = "cancelled" /\ next.done = row.done
         /\ next.made = row.made
  BY DEF Sale, Status

LEMMA NextNumber ==
  ASSUME TypeOK, IsFiniteSet(DOMAIN sale), NEW s
  PROVE  1 + Max({0} \cup {sale[j].number : j \in SalesOf(s)}) \in Nat
<1> DEFINE f == [j \in SalesOf(s) |-> sale[j].number]
           T == {sale[j].number : j \in SalesOf(s)}
           N == {0} \cup T
<1>1. SalesOf(s) \subseteq DOMAIN sale
  BY DEF SalesOf
<1>2. \A j \in SalesOf(s) : sale[j].number \in Nat
  BY <1>1, SaleFields
<1>3. IsFiniteSet(SalesOf(s))
  BY <1>1, FS_Subset
<1>4. f \in Surjection(SalesOf(s), T)
  BY DEF Surjection
<1>5. IsFiniteSet(T) /\ T \in SUBSET Nat
  BY <1>2, <1>3, <1>4, FS_Surjection
<1> HIDE DEF f, T
<1>6. IsFiniteSet(N) /\ N \in SUBSET Nat /\ N # {}
  BY <1>5, FS_AddElement
<1> HIDE DEF N
<1>7. Max(N) \in Nat
  BY <1>6, MaxOfNumbers
<1>8. 1 + Max(N) \in Nat
  BY <1>7
<1>9. QED
  BY <1>8 DEF N, T
\* The stock of one store is changed.
LEMMA OneStock ==
  ASSUME TypeOK, NEW s \in DOMAIN stock, NEW row \in [Variant -> Nat],
         stock' = [stock EXCEPT ![s] = row]
  PROVE  /\ DOMAIN stock' = DOMAIN stock /\ stock' \in [DOMAIN stock -> [Variant -> Nat]]
         /\ stock'[s] = row /\ \A x \in DOMAIN stock \ {s} : stock'[x] = stock[x]
  BY DEF TypeOK

\* One movement is added.
LEMMA MovementAdded ==
  ASSUME TypeOK, NEW m, NEW n \in Nat, NEW d \in Nat,
         movement' = Add(movement, m, [number |-> n, made |-> d])
  PROVE  /\ DOMAIN movement' = DOMAIN movement \cup {m}
         /\ \A x \in DOMAIN movement \ {m} : movement'[x] = movement[x]
         /\ \A x \in DOMAIN movement' : movement'[x] \in [number: Nat, made: Nat]
<1> DEFINE row == [number |-> n, made |-> d]
<1>1. row \in [number: Nat, made: Nat] /\ movement' = Add(movement, m, row)
  OBVIOUS
<1> HIDE DEF row
<1>2. Written(movement, movement', m, row)
  BY <1>1, AddWrites
<1>3. /\ DOMAIN movement' = DOMAIN movement \cup {m} /\ movement'[m] = row
      /\ \A x \in DOMAIN movement \ {m} : movement'[x] = movement[x]
  BY <1>2 DEF Written
<1>4. \A x \in DOMAIN movement : movement[x] \in [number: Nat, made: Nat]
  BY DEF TypeOK
<1>5. \A x \in DOMAIN movement' : movement'[x] \in [number: Nat, made: Nat]
  BY <1>1, <1>3, <1>4
<1>6. QED
  BY <1>3, <1>5

LEMMA CommitCompleteHolds ==
  ASSUME IInv, NEW r \in Request, CommitComplete(r)
  PROVE  IInv'
<1>0. PICK k, s : k = task[r].sale /\ s = k[1]
  OBVIOUS
<1>1. PICK n : n = 1 + Max({0} \cup {sale[j].number : j \in SalesOf(s)})
  OBVIOUS
<1> DEFINE row == [sale[k] EXCEPT !.status = "completed", !.number = n, !.done = day]
           left == [v \in Variant |-> stock[s][v] - Units(sale[k], v)]
<1>2. /\ At(r, "numbering") /\ Finish(r, "done") /\ UNCHANGED <<day, manages, memo>>
      /\ movement' = Add(movement, <<k, "sale">>, [number |-> n, made |-> day])
  <2>1. PICK m : m = 1 + Max({0} \cup {sale[j].number : j \in SalesOf(task[r].sale[1])})
    OBVIOUS
  <2>2. /\ At(r, "numbering") /\ Finish(r, "done") /\ UNCHANGED <<day, manages, memo>>
        /\ movement' = Add(movement, <<task[r].sale, "sale">>, [number |-> m, made |-> day])
    BY <2>1, Zenon DEF CommitComplete
  <2>3. m = n
    BY <1>0, <1>1, <2>1
  <2>4. QED
    BY <1>0, <2>2, <2>3
<1>3. /\ pc[r] = "numbering" /\ k \in DOMAIN sale /\ SaleRow(k) \in held[r]
      /\ sale[k].status = "draft" /\ StoreRow(s) \in held[r]
      /\ \A v \in VariantsOf(k) :
           VariantRow(s, v) \in held[r] /\ Units(sale[k], v) <= stock[s][v]
  BY <1>0, <1>2, AtHolds DEF IInv, ControlOf, SaleOf
<1>4. TypeOK /\ IsFiniteSet(DOMAIN sale) /\ NothingDangles /\ MadeInv /\ BookedInv
  BY DEF IInv, Types
<1>5. s \in DOMAIN stock /\ k \in SaleKey /\ sale[k] \in Sale /\ day \in Nat /\ n \in Nat
  BY <1>0, <1>1, <1>3, <1>4, Days, NextNumber DEF NothingDangles, TypeOK
<1>6. sale' = [sale EXCEPT ![k] = row] /\ stock' = [stock EXCEPT ![s] = left]
  BY <1>0, <1>1, <1>3, <1>5 DEF CommitComplete
<1>7. row \in Sale /\ row.status = "completed" /\ row.done = day /\ row.made = sale[k].made
  BY <1>5 DEF Sale, Status
<1> HIDE DEF row
<1>8. Written(sale, sale', k, row)
  BY <1>3, <1>6, ReplacedIsWritten
<1>9. \A v \in Variant : /\ stock[s][v] \in Nat /\ left[v] \in Nat
                         /\ v \notin VariantsOf(k) => left[v] = stock[s][v]
  <2>1. ASSUME NEW v \in Variant
        PROVE  /\ stock[s][v] \in Nat /\ left[v] \in Nat
               /\ v \notin VariantsOf(k) => left[v] = stock[s][v]
    <3>1. stock[s][v] \in Nat
      BY <1>4, <1>5 DEF TypeOK
    <3>2. Units(sale[k], v) \in Nat /\ (v \notin VariantsOf(k) => Units(sale[k], v) = 0)
      BY <1>3, <1>4, SaleUnits
    <3>3. Units(sale[k], v) <= stock[s][v]
      BY <1>3, <3>1, <3>2
    <3>4. QED
      BY <3>1, <3>2, <3>3
  <2>2. QED
    BY <2>1
<1>10. left \in [Variant -> Nat]
  BY <1>9
<1> HIDE DEF left
<1>11. /\ DOMAIN stock' = DOMAIN stock /\ stock' \in [DOMAIN stock -> [Variant -> Nat]]
       /\ stock'[s] = left /\ \A x \in DOMAIN stock \ {s} : stock'[x] = stock[x]
  BY <1>4, <1>5, <1>6, <1>10, OneStock
<1>12. StockFrame(r)
  <2>1. ASSUME NEW x \in DOMAIN stock, NEW v \in Variant, VariantRow(x, v) \notin held[r]
        PROVE  stock[x][v] <= stock'[x][v]
    <3>1. stock[x][v] \in Nat
      BY <1>4 DEF TypeOK
    <3>2. stock'[x][v] = stock[x][v]
      BY <1>3, <1>9, <1>11, <2>1
    <3>3. QED
      BY <3>1, <3>2
  <2>2. QED
    BY <1>11, <2>1 DEF StockFrame
<1>13. DOMAIN movement' = MovementKeys(sale')
       /\ \A m \in DOMAIN movement' : movement'[m] \in [number: Nat, made: Nat]
  <2>1. MovementKeys(sale') = MovementKeys(sale) \cup {<<k, "sale">>}
    BY <1>3, <1>7, <1>8, OneMovement
  <2>2. DOMAIN movement' = DOMAIN movement \cup {<<k, "sale">>}
        /\ \A m \in DOMAIN movement' : movement'[m] \in [number: Nat, made: Nat]
    BY <1>2, <1>4, <1>5, MovementAdded
  <2>3. QED
    BY <1>4, <2>1, <2>2 DEF BookedInv
<1>14. Locks' /\ OthersRest(r) /\ pc'[r] = "done"
  BY <1>2, EndedBy DEF IInv
<1>15. row.done # Never /\ row.made <= day
  BY <1>3, <1>4, <1>5, <1>7, DemoAssumption DEF MadeInv
<1>16. QED
  BY <1>0, <1>2, <1>3, <1>5, <1>7, <1>8, <1>11, <1>12, <1>13, <1>14, <1>15, OneSale

LEMMA CommitCancelHolds ==
  ASSUME IInv, NEW r \in Request, CommitCancel(r)
  PROVE  IInv'
<1>0. PICK k, s : k = task[r].sale /\ s = k[1]
  OBVIOUS
<1> DEFINE row == [sale[k] EXCEPT !.status = "cancelled"]
           left == [v \in Variant |-> stock[s][v] + Units(sale[k], v)]
<1>2. /\ At(r, "restocking") /\ Finish(r, "done") /\ UNCHANGED <<day, manages, memo>>
      /\ movement' = Add(movement, <<k, "cancellation">>,
                         [number |-> sale[k].number, made |-> day])
  BY <1>0 DEF CommitCancel
<1>3. /\ pc[r] = "restocking" /\ k \in DOMAIN sale /\ SaleRow(k) \in held[r]
      /\ sale[k].status = "completed"
  BY <1>0, <1>2, AtHolds DEF IInv, ControlOf, SaleOf
<1>4. TypeOK /\ IsFiniteSet(DOMAIN sale) /\ NothingDangles /\ MadeInv /\ BookedInv
  BY DEF IInv, Types
<1>5. /\ s \in DOMAIN stock /\ k \in SaleKey /\ sale[k] \in Sale
      /\ day \in Nat /\ sale[k].number \in Nat
  BY <1>0, <1>3, <1>4, Days, SaleFields DEF NothingDangles
<1>6. sale' = [sale EXCEPT ![k] = row] /\ stock' = [stock EXCEPT ![s] = left]
  BY <1>0, <1>3, <1>5 DEF CommitCancel
<1>7. row \in Sale /\ row.status = "cancelled" /\ row.done = sale[k].done
  BY <1>5, CancelledSale
<1> HIDE DEF row
<1>8. Written(sale, sale', k, row)
  BY <1>3, <1>6, ReplacedIsWritten
<1>9. \A v \in Variant : stock[s][v] \in Nat /\ left[v] \in Nat /\ stock[s][v] <= left[v]
  <2>1. ASSUME NEW v \in Variant
        PROVE  stock[s][v] \in Nat /\ left[v] \in Nat /\ stock[s][v] <= left[v]
    <3>1. stock[s][v] \in Nat
      BY <1>4, <1>5 DEF TypeOK
    <3>2. Units(sale[k], v) \in Nat
      BY <1>3, <1>4, SaleUnits
    <3>3. QED
      BY <3>1, <3>2
  <2>2. QED
    BY <2>1
<1>10. left \in [Variant -> Nat]
  BY <1>9
<1> HIDE DEF left
<1>11. /\ DOMAIN stock' = DOMAIN stock /\ stock' \in [DOMAIN stock -> [Variant -> Nat]]
       /\ stock'[s] = left /\ \A x \in DOMAIN stock \ {s} : stock'[x] = stock[x]
  BY <1>4, <1>5, <1>6, <1>10, OneStock
<1>12. StockFrame(r)
  <2>1. ASSUME NEW x \in DOMAIN stock, NEW v \in Variant
        PROVE  stock[x][v] <= stock'[x][v]
    <3>1. stock[x][v] \in Nat
      BY <1>4 DEF TypeOK
    <3>2. x # s => stock'[x][v] = stock[x][v]
      BY <1>11
    <3>3. QED
      BY <1>9, <1>11, <3>1, <3>2
  <2>2. QED
    BY <1>11, <2>1 DEF StockFrame
<1>13. DOMAIN movement' = MovementKeys(sale')
       /\ \A m \in DOMAIN movement' : movement'[m] \in [number: Nat, made: Nat]
  <2>1. MovementKeys(sale') = MovementKeys(sale) \cup {<<k, "cancellation">>}
    BY <1>3, <1>7, <1>8, OneMovement
  <2>2. DOMAIN movement' = DOMAIN movement \cup {<<k, "cancellation">>}
        /\ \A m \in DOMAIN movement' : movement'[m] \in [number: Nat, made: Nat]
    BY <1>2, <1>4, <1>5, MovementAdded
  <2>3. QED
    BY <1>4, <2>1, <2>2 DEF BookedInv
<1>14. Locks' /\ OthersRest(r) /\ pc'[r] = "done"
  BY <1>2, EndedBy DEF IInv
<1>15. row.done # Never
  BY <1>3, <1>4, <1>7 DEF TypeOK
<1>16. QED
  BY <1>0, <1>2, <1>3, <1>5, <1>7, <1>8, <1>11, <1>12, <1>13, <1>14, <1>15, OneSale
\* The sales that a rebuilt store begins with.
LEMMA SpecIs ==
  ASSUME NEW i \in DOMAIN SaleSpecs
  PROVE  /\ i \in Nat
         /\ SaleSpecs[i].ago \in Nat /\ SaleSpecs[i].ago <= FirstDay
         /\ SaleSpecs[i].status \in Status /\ SaleSpecs[i].channel \in Channel
         /\ SaleSpecs[i].basket \in DOMAIN Lines
<1> DEFINE S == [ago: 0..FirstDay, status: Status, channel: Channel, basket: DOMAIN Lines]
<1>1. SaleSpecs \in Seq(S)
  BY DemoAssumption
<1>2. \A x \in S : /\ x.ago \in 0..FirstDay /\ x.status \in Status
                   /\ x.channel \in Channel /\ x.basket \in DOMAIN Lines
  OBVIOUS
<1> HIDE DEF S
<1>3. i \in Nat /\ SaleSpecs[i] \in S
  BY <1>1
<1>4. FirstDay \in Nat
  BY DemoAssumption
<1>5. QED
  BY <1>2, <1>3, <1>4

LEMMA SeedSaleIs ==
  ASSUME NEW i \in DOMAIN SaleSpecs, NEW d \in Nat, FirstDay <= d
  PROVE  /\ SeedSale(i, d) \in Sale /\ SeedSale(i, d).made <= d
         /\ SeedSale(i, d).done = Never <=> SeedSale(i, d).status = "draft"
<1> DEFINE spec == SaleSpecs[i]
<1>1. i \in Nat /\ Never \notin Nat /\ FirstDay \in Nat
  BY SpecIs, DemoAssumption
<1>2. /\ spec.ago \in Nat /\ spec.ago <= FirstDay
      /\ spec.status \in Status /\ spec.channel \in Channel
      /\ spec.basket \in DOMAIN Lines
  BY SpecIs
<1>3. PICK final, number, made, done :
        /\ final = (spec.status # "draft") /\ number = (IF final THEN i ELSE 0)
        /\ made = d - spec.ago /\ done = (IF final THEN d ELSE Never)
  OBVIOUS
<1>4. SeedSale(i, d) = [status |-> spec.status, number |-> number, channel |-> spec.channel,
                        basket |-> spec.basket, made |-> made, done |-> done]
  BY <1>3 DEF SeedSale
<1> HIDE DEF spec
<1>5. made \in Nat /\ made <= d
  BY <1>1, <1>2, <1>3
<1>6. /\ number \in Nat /\ done \in Nat \cup {Never}
      /\ done = Never <=> spec.status = "draft"
  BY <1>1, <1>3
<1>7. SeedSale(i, d) \in Sale
  BY <1>2, <1>4, <1>5, <1>6 DEF Sale
<1>8. /\ SeedSale(i, d).made = made /\ SeedSale(i, d).status = spec.status
      /\ SeedSale(i, d).done = done
  BY <1>4
<1>9. QED
  BY <1>5, <1>6, <1>7, <1>8

LEMMA SeedSalesAre ==
  ASSUME NEW s \in Store, NEW d \in FirstDay..LastDay, NEW f, f = SeedSales(s, d)
  PROVE  /\ IsFiniteSet(DOMAIN f)
         /\ \A k \in DOMAIN f :
              /\ k \in SaleKey /\ k[1] = s /\ k[2] \in DOMAIN SaleSpecs
              /\ f[k] \in Sale /\ f[k].made <= d
              /\ f[k].done = Never <=> f[k].status = "draft"
<1>1. DOMAIN SaleSpecs = 1..Len(SaleSpecs) /\ Len(SaleSpecs) \in Nat
  BY DemoAssumption
<1>2. /\ DOMAIN f = {s} \X DOMAIN SaleSpecs
      /\ \A k \in DOMAIN f : f[k] = SeedSale(k[2], d)
  BY DEF SeedSales
<1>3. IsFiniteSet(DOMAIN f)
  <2>1. IsFiniteSet(DOMAIN SaleSpecs)
    BY <1>1, FS_Interval
  <2>2. IsFiniteSet({s})
    BY FS_Singleton
  <2>3. QED
    BY <1>2, <2>1, <2>2, FS_Product
<1>4. d \in Nat /\ FirstDay <= d
  BY DemoAssumption
<1>5. ASSUME NEW k \in DOMAIN f
      PROVE  /\ k \in SaleKey /\ k[1] = s /\ k[2] \in DOMAIN SaleSpecs
             /\ f[k] \in Sale /\ f[k].made <= d
             /\ f[k].done = Never <=> f[k].status = "draft"
  <2>1. k[1] = s /\ k[2] \in DOMAIN SaleSpecs /\ k = <<k[1], k[2]>>
    BY <1>2
  <2>2. k \in SaleKey
    BY <1>1, <2>1 DEF SaleKey
  <2>3. QED
    BY <1>2, <1>4, <2>1, <2>2, SeedSaleIs
<1>6. QED
  BY <1>3, <1>5

LEMMA MovementsAre ==
  ASSUME NEW f, \A k \in DOMAIN f : f[k] \in Sale
  PROVE  /\ DOMAIN MovementsOf(f) = MovementKeys(f)
         /\ \A m \in MovementKeys(f) : MovementsOf(f)[m] \in [number: Nat, made: Nat]
<1>1. /\ DOMAIN MovementsOf(f) = MovementKeys(f)
      /\ \A m \in MovementKeys(f) :
           MovementsOf(f)[m] = [number |-> f[m[1]].number, made |-> f[m[1]].made]
  BY DEF MovementsOf
<1>2. \A k \in DOMAIN f : f[k].number \in Nat /\ f[k].made \in Nat
  BY DEF Sale
<1>3. \A m \in MovementKeys(f) : m[1] \in DOMAIN f
  BY KeysArePairs
<1>4. QED
  BY <1>1, <1>2, <1>3

LEMMA DatesSet ==
  ASSUME NEW moves, NEW d \in Nat, FirstDay <= d,
         \A m \in DOMAIN moves : moves[m] \in [number: Nat, made: Nat]
  PROVE  /\ DOMAIN SetSaleDate(moves, d) = DOMAIN moves
         /\ \A m \in DOMAIN moves : SetSaleDate(moves, d)[m] \in [number: Nat, made: Nat]
<1>0. FirstDay \in Nat
  BY DemoAssumption
<1>1. DOMAIN SetSaleDate(moves, d) = DOMAIN moves
  BY DEF SetSaleDate
<1>2. ASSUME NEW m \in DOMAIN moves
      PROVE  SetSaleDate(moves, d)[m] \in [number: Nat, made: Nat]
  <2>1. PICK n : n = moves[m].number
    OBVIOUS
  <2>2. \/ SetSaleDate(moves, d)[m] = moves[m]
        \/ /\ n \in DOMAIN SaleSpecs
           /\ SetSaleDate(moves, d)[m] = [moves[m] EXCEPT !.made = d - SaleSpecs[n].ago]
    BY <2>1 DEF SetSaleDate
  <2>3. n \in DOMAIN SaleSpecs => d - SaleSpecs[n].ago \in Nat
    <3>1. n \in DOMAIN SaleSpecs => SaleSpecs[n].ago \in Nat /\ SaleSpecs[n].ago <= FirstDay
      BY SpecIs
    <3>2. QED
      BY <1>0, <3>1
  <2>4. QED
    BY <2>2, <2>3, DatedMovement
<1>3. QED
  BY <1>1, <1>2

\* The sales of a new store take the place of those of another.
LEMMA KeysReplaced ==
  ASSUME NEW f, NEW g, NEW K \in SUBSET DOMAIN g, DOMAIN f \cap K = {}, NEW h,
         DOMAIN h = DOMAIN f \cup K, \A k \in DOMAIN f : h[k] = f[k], \A k \in K : h[k] = g[k]
  PROVE  \A m : m \in MovementKeys(h) <=>
                 m \in MovementKeys(f) \/ (m \in MovementKeys(g) /\ m[1] \in K)
<1>1. ASSUME NEW m \in MovementKeys(h)
      PROVE  m \in MovementKeys(f) \/ (m \in MovementKeys(g) /\ m[1] \in K)
  <2>1. /\ m = <<m[1], m[2]>> /\ m[1] \in DOMAIN h
        /\ \/ m[2] = "sale" /\ h[m[1]].status # "draft"
           \/ m[2] = "cancellation" /\ h[m[1]].status = "cancelled"
    BY KeysArePairs, KeysAre
  <2>2. m[1] \in DOMAIN f => m \in MovementKeys(f)
    BY <2>1, KeysAre
  <2>3. m[1] \in K => m \in MovementKeys(g)
    BY <2>1, KeysAre
  <2>4. QED
    BY <2>1, <2>2, <2>3
<1>2. ASSUME NEW m \in MovementKeys(f)
      PROVE  m \in MovementKeys(h)
  <2>1. /\ m = <<m[1], m[2]>> /\ m[1] \in DOMAIN f
        /\ \/ m[2] = "sale" /\ f[m[1]].status # "draft"
           \/ m[2] = "cancellation" /\ f[m[1]].status = "cancelled"
    BY KeysArePairs, KeysAre
  <2>2. QED
    BY <2>1, KeysAre
<1>3. ASSUME NEW m \in MovementKeys(g), m[1] \in K
      PROVE  m \in MovementKeys(h)
  <2>1. /\ m = <<m[1], m[2]>>
        /\ \/ m[2] = "sale" /\ g[m[1]].status # "draft"
           \/ m[2] = "cancellation" /\ g[m[1]].status = "cancelled"
    BY KeysArePairs, KeysAre
  <2>2. QED
    BY <1>3, <2>1, KeysAre
<1>4. QED
  BY <1>1, <1>2, <1>3

\* What rebuilding a store does to the tables: the old one goes with its sales.
Rebuilt(r, s, fresh) ==
  /\ s \in Store \ {Shop} /\ s \notin DOMAIN stock
  /\ DemoUser \in held[r]
  /\ manages # NoStore => StoreRow(manages) \in held[r]
  /\ \A k \in DOMAIN sale : k[1] = manages => SaleRow(k) \in held[r]
  /\ manages' = s /\ UNCHANGED <<day, memo>> /\ Finish(r, "done")
  /\ DOMAIN sale' = DOMAIN fresh \cup {k \in DOMAIN sale : k[1] # manages}
  /\ \A k \in DOMAIN fresh : k \notin DOMAIN sale /\ sale'[k] = fresh[k]
  /\ \A k \in DOMAIN sale : k[1] # manages => sale'[k] = sale[k]
  /\ DOMAIN movement' =
       MovementKeys(fresh) \cup {m \in DOMAIN movement : m[1] \in DOMAIN sale
                                                         /\ m[1][1] # manages}
  /\ \A m \in DOMAIN movement' : movement'[m] \in [number: Nat, made: Nat]
  /\ DOMAIN stock' = (DOMAIN stock \ {manages}) \cup {s}
  /\ stock'[s] \in [Variant -> Nat]
  /\ \A x \in DOMAIN stock \ {manages} : stock'[x] = stock[x]

LEMMA SeedEffect ==
  ASSUME IInv, NEW r \in Request, CommitSeed(r), NEW s, s = task[r].store,
         NEW fresh, fresh = SeedSales(s, day)
  PROVE  Rebuilt(r, s, fresh)
<1> DEFINE kept == {k \in DOMAIN sale : k[1] # manages}
           others == {m \in DOMAIN movement : m[1] \in kept}
           moves == Join(MovementsOf(fresh), Keep(movement, others))
<1>1. At(r, "building")
  BY DEF CommitSeed
<1>2. pc[r] = "building" /\ Reserved(r) = held[r] /\ task[r].kind = "seed"
  BY <1>1, AtHolds DEF IInv, ControlOf, PointOf, RebuildPoints
<1>3. TypeOK /\ NothingDangles /\ RebuildOf(r) /\ NewStoreOf(r) /\ task \in Traffic
  BY DEF IInv, Types, ControlOf, Locks
<1>4. s \in Store \ {Shop} /\ s \notin DOMAIN stock
  BY <1>2, <1>3, TaskFields DEF NewStoreOf, RebuildPoints
<1>5. /\ DemoUser \in held[r]
      /\ manages # NoStore => StoreRow(manages) \in held[r]
      /\ manages # NoStore => \A k \in SalesOf(manages) : SaleRow(k) \in held[r]
  BY <1>2, <1>3 DEF RebuildOf
<1>6. \A k \in DOMAIN sale : k[1] = manages => SaleRow(k) \in held[r]
  <2>1. ASSUME NEW k \in DOMAIN sale, k[1] = manages
        PROVE  SaleRow(k) \in held[r]
    <3>1. manages \in Store
      BY <1>3, <2>1 DEF NothingDangles, TypeOK
    <3>2. manages # NoStore
      BY <3>1, DemoAssumption
    <3>3. QED
      BY <1>5, <2>1, <3>2 DEF SalesOf
  <2>2. QED
    BY <2>1
<1>7. /\ manages' = s /\ UNCHANGED <<day, memo>> /\ Finish(r, "done")
      /\ sale' = Join(fresh, Keep(sale, kept))
      /\ movement' = SetSaleDate(moves, day)
      /\ stock' = Add(Keep(stock, DOMAIN stock \ {manages}), s, StockAfter(fresh))
  BY DEF CommitSeed
<1>8. /\ day \in FirstDay..LastDay
      /\ \A m \in DOMAIN movement : movement[m] \in [number: Nat, made: Nat]
  BY <1>3 DEF TypeOK
<1>9. \A k \in DOMAIN fresh : k[1] = s /\ fresh[k] \in Sale
  BY <1>4, <1>8, SeedSalesAre
<1>10. \A k \in DOMAIN fresh : k \notin DOMAIN sale
  BY <1>3, <1>4, <1>9 DEF NothingDangles
<1> HIDE DEF kept, others, moves
<1>11. /\ DOMAIN sale' = DOMAIN fresh \cup (DOMAIN sale \cap kept)
       /\ \A k \in DOMAIN fresh : sale'[k] = fresh[k]
       /\ \A k \in (DOMAIN sale \cap kept) \ DOMAIN fresh : sale'[k] = sale[k]
  <2>1. PICK rest : rest = Keep(sale, kept)
    OBVIOUS
  <2>2. /\ DOMAIN rest = DOMAIN sale \cap kept
        /\ \A k \in DOMAIN sale \cap kept : rest[k] = sale[k]
    BY <2>1, KeepIs DEF Kept
  <2>3. Joined(fresh, rest, sale')
    BY <1>7, <2>1, JoinIs
  <2>4. /\ DOMAIN sale' = DOMAIN fresh \cup DOMAIN rest
        /\ \A k \in DOMAIN fresh : sale'[k] = fresh[k]
        /\ \A k \in DOMAIN rest \ DOMAIN fresh : sale'[k] = rest[k]
    BY <2>3 DEF Joined
  <2>5. QED
    BY <2>2, <2>4
<1>12. /\ DOMAIN moves = MovementKeys(fresh) \cup (DOMAIN movement \cap others)
       /\ \A m \in DOMAIN moves : moves[m] \in [number: Nat, made: Nat]
  <2>1. PICK first, rest : first = MovementsOf(fresh) /\ rest = Keep(movement, others)
    OBVIOUS
  <2>2. /\ DOMAIN first = MovementKeys(fresh)
        /\ \A m \in DOMAIN first : first[m] \in [number: Nat, made: Nat]
    BY <1>9, <2>1, MovementsAre
  <2>3. /\ DOMAIN rest = DOMAIN movement \cap others
        /\ \A m \in DOMAIN movement \cap others : rest[m] = movement[m]
    BY <2>1, KeepIs DEF Kept
  <2>4. Joined(first, rest, moves)
    BY <2>1, JoinIs DEF moves
  <2>5. /\ DOMAIN moves = DOMAIN first \cup DOMAIN rest
        /\ \A m \in DOMAIN first : moves[m] = first[m]
        /\ \A m \in DOMAIN rest \ DOMAIN first : moves[m] = rest[m]
    BY <2>4 DEF Joined
  <2>6. QED
    BY <1>8, <2>2, <2>3, <2>5
<1>13. day \in Nat /\ FirstDay <= day
  BY <1>8, DemoAssumption
<1>14. /\ DOMAIN movement' = DOMAIN moves
       /\ \A m \in DOMAIN moves : movement'[m] \in [number: Nat, made: Nat]
  BY <1>7, <1>12, <1>13, DatesSet
<1>15. /\ DOMAIN stock' = (DOMAIN stock \ {manages}) \cup {s}
       /\ stock'[s] = StockAfter(fresh)
       /\ \A x \in (DOMAIN stock \ {manages}) \ {s} : stock'[x] = stock[x]
  <2>1. PICK rest, left : rest = Keep(stock, DOMAIN stock \ {manages}) /\ left = StockAfter(fresh)
    OBVIOUS
  <2>2. /\ DOMAIN rest = DOMAIN stock \cap (DOMAIN stock \ {manages})
        /\ \A x \in DOMAIN stock \cap (DOMAIN stock \ {manages}) : rest[x] = stock[x]
    BY <2>1, KeepIs DEF Kept
  <2>3. stock' = Add(rest, s, left)
    BY <1>7, <2>1
  <2>4. Written(rest, stock', s, left)
    BY <2>3, AddWrites
  <2>5. QED
    BY <2>1, <2>2, <2>4 DEF Written
<1>16. StockAfter(fresh) \in [Variant -> Nat]
  BY <1>4, <1>8, EnoughBought
<1>17. /\ DOMAIN sale' = DOMAIN fresh \cup {k \in DOMAIN sale : k[1] # manages}
       /\ \A k \in DOMAIN sale : k[1] # manages => sale'[k] = sale[k]
  BY <1>10, <1>11 DEF kept
<1>18. DOMAIN movement' =
         MovementKeys(fresh) \cup {m \in DOMAIN movement : m[1] \in DOMAIN sale
                                                           /\ m[1][1] # manages}
  BY <1>12, <1>14 DEF others, kept
<1>19. QED
  BY <1>4, <1>5, <1>6, <1>7, <1>10, <1>11, <1>14, <1>15, <1>16, <1>17, <1>18 DEF Rebuilt

LEMMA CommitSeedHolds ==
  ASSUME IInv, NEW r \in Request, CommitSeed(r)
  PROVE  IInv'
<1>0. PICK s, fresh : /\ s = task[r].store /\ fresh = SeedSales(s, day)
                      /\ Rebuilt(r, s, fresh)
  BY SeedEffect
<1>1. /\ s \in Store \ {Shop} /\ s \notin DOMAIN stock
      /\ DemoUser \in held[r]
      /\ manages # NoStore => StoreRow(manages) \in held[r]
      /\ \A k \in DOMAIN sale : k[1] = manages => SaleRow(k) \in held[r]
      /\ manages' = s /\ UNCHANGED <<day, memo>> /\ Finish(r, "done")
  BY <1>0 DEF Rebuilt
<1>2. /\ DOMAIN sale' = DOMAIN fresh \cup {k \in DOMAIN sale : k[1] # manages}
      /\ \A k \in DOMAIN fresh : k \notin DOMAIN sale /\ sale'[k] = fresh[k]
      /\ \A k \in DOMAIN sale : k[1] # manages => sale'[k] = sale[k]
  BY <1>0 DEF Rebuilt
<1>3. /\ DOMAIN movement' =
           MovementKeys(fresh) \cup {m \in DOMAIN movement : m[1] \in DOMAIN sale
                                                             /\ m[1][1] # manages}
      /\ \A m \in DOMAIN movement' : movement'[m] \in [number: Nat, made: Nat]
  BY <1>0 DEF Rebuilt
<1>4. /\ DOMAIN stock' = (DOMAIN stock \ {manages}) \cup {s}
      /\ stock'[s] \in [Variant -> Nat]
      /\ \A x \in DOMAIN stock \ {manages} : stock'[x] = stock[x]
  BY <1>0 DEF Rebuilt
<1>5. /\ TypeOK /\ IsFiniteSet(DOMAIN sale) /\ Stores /\ NothingDangles
      /\ MadeInv /\ BookedInv /\ task \in Traffic
  BY DEF IInv, Types, Locks
<1>6. day \in FirstDay..LastDay /\ NoStore \notin Store /\ Shop \in Store
  BY <1>5, DemoAssumption DEF TypeOK
<1>7. /\ IsFiniteSet(DOMAIN fresh)
      /\ \A k \in DOMAIN fresh :
           /\ k \in SaleKey /\ k[1] = s /\ k[2] \in DOMAIN SaleSpecs
           /\ fresh[k] \in Sale /\ fresh[k].made <= day
           /\ fresh[k].done = Never <=> fresh[k].status = "draft"
  BY <1>0, <1>1, <1>6, SeedSalesAre
<1>8. Tables'
  <2>1. DOMAIN stock' = {s, Shop}
    BY <1>1, <1>4, <1>5, <1>6 DEF Stores
  <2>2. Stores'
    BY <1>1, <1>6, <2>1 DEF Stores
  <2>3. NothingDangles'
    <3>1. \A k \in DOMAIN sale' : k[1] \in DOMAIN stock'
      BY <1>2, <1>4, <1>5, <1>7 DEF NothingDangles
    <3>2. QED
      BY <1>1, <2>1, <3>1 DEF NothingDangles
  <2>4. BookedInv'
    <3>1. PICK K : K = {k \in DOMAIN sale : k[1] # manages}
      OBVIOUS
    <3>2. /\ K \in SUBSET DOMAIN sale /\ DOMAIN fresh \cap K = {}
          /\ DOMAIN sale' = DOMAIN fresh \cup K
          /\ \A k \in DOMAIN fresh : sale'[k] = fresh[k]
          /\ \A k \in K : sale'[k] = sale[k]
      BY <1>2, <3>1
    <3>3. \A m : m \in MovementKeys(sale') <=>
                  m \in MovementKeys(fresh) \/ (m \in MovementKeys(sale) /\ m[1] \in K)
      BY <3>2, KeysReplaced
    <3>4. DOMAIN movement' = MovementKeys(sale')
      BY <1>3, <1>5, <3>1, <3>3 DEF BookedInv
    <3>5. QED
      BY <3>4 DEF BookedInv, MovementKeys
  <2>5. TypeOK'
    <3>1. /\ DOMAIN sale' \subseteq SaleKey
          /\ \A k \in DOMAIN sale' : /\ sale'[k] \in Sale
                                     /\ sale'[k].done = Never <=> sale'[k].status = "draft"
      <4>1. \A k \in DOMAIN sale : /\ k \in SaleKey /\ sale[k] \in Sale
                                   /\ sale[k].done = Never <=> sale[k].status = "draft"
        BY <1>5 DEF TypeOK
      <4>2. QED
        BY <1>2, <1>7, <4>1
    <3>2. DOMAIN movement' \subseteq SaleKey \X {"sale", "cancellation"}
      <4>1. DOMAIN movement' = MovementKeys(sale)'
        BY <2>4 DEF BookedInv
      <4>2. DOMAIN movement' = MovementKeys(sale')
        BY <4>1 DEF MovementKeys
      <4>3. QED
        BY <3>1, <4>2, KeysArePairs
    <3>3. stock' \in [DOMAIN stock' -> [Variant -> Nat]] /\ DOMAIN stock' \subseteq Store
      <4>1. \A x \in DOMAIN stock' : stock'[x] \in [Variant -> Nat]
        BY <1>4, <1>5 DEF TypeOK
      <4>2. stock' = [x \in DOMAIN stock' |-> stock'[x]]
        BY DEF CommitSeed, Add
      <4>3. QED
        BY <1>1, <1>6, <2>1, <4>1, <4>2
    <3>4. day' \in FirstDay..LastDay /\ manages' \in Store \cup {NoStore}
      BY <1>1, <1>6
    <3>5. QED
      BY <1>3, <3>1, <3>2, <3>3, <3>4 DEF TypeOK
  <2>6. IsFiniteSet(DOMAIN sale')
    <3>1. PICK K : K = {k \in DOMAIN sale : k[1] # manages}
      OBVIOUS
    <3>2. IsFiniteSet(K)
      BY <1>5, <3>1, FS_Subset
    <3>3. DOMAIN sale' = DOMAIN fresh \cup K
      BY <1>2, <3>1
    <3>4. QED
      BY <1>7, <3>2, <3>3, FS_Union
  <2>7. MadeInv'
    BY <1>1, <1>2, <1>5, <1>7 DEF MadeInv
  <2>8. QED
    BY <2>2, <2>3, <2>4, <2>5, <2>6, <2>7 DEF Tables
<1>9. task[r].kind = "seed"
  <2>1. pc[r] = "building"
    BY DEF CommitSeed, At
  <2>2. QED
    BY <2>1 DEF IInv, ControlOf, PointOf, RebuildPoints
<1>10. Frame(r)
  <2>1. StoreFrame(r)
    BY <1>0, <1>1, <1>4, <1>6, <1>9 DEF StoreFrame
  <2>2. SaleFrame(r)
    <3>1. \A k \in DOMAIN sale :
            SaleRow(k) \notin held[r] => k \in DOMAIN sale' /\ sale'[k] = sale[k]
      BY <1>1, <1>2
    <3>2. \A k \in DOMAIN sale' \ DOMAIN sale :
            k[1] \notin DOMAIN stock /\ k[2] \in DOMAIN SaleSpecs
      BY <1>1, <1>2, <1>7
    <3>3. \A k \in DOMAIN sale \cap DOMAIN sale' : sale'[k] = sale[k]
      BY <1>2
    <3>4. QED
      BY <3>1, <3>2, <3>3 DEF SaleFrame
  <2>3. StockFrame(r)
    <3>1. ASSUME NEW x \in DOMAIN stock \cap DOMAIN stock', NEW v \in Variant
          PROVE  stock[x][v] <= stock'[x][v]
      <4>1. x \in DOMAIN stock \ {manages}
        BY <1>1, <1>4, <3>1
      <4>2. stock'[x] = stock[x] /\ stock[x][v] \in Nat
        BY <1>4, <1>5, <4>1 DEF TypeOK
      <4>3. QED
        BY <4>2
    <3>2. QED
      BY <3>1 DEF StockFrame
  <2>4. QED
    BY <2>1, <2>2, <2>3 DEF Frame
<1>11. Locks' /\ OthersRest(r) /\ pc'[r] = "done"
  BY <1>1, EndedBy DEF IInv
<1>12. ControlOf(r)'
  BY <1>11, EasyHolds
<1>13. QED
  BY <1>1, <1>8, <1>10, <1>11, <1>12, StepHolds, MemoIs DEF Alone
-----------------------------------------------------------------------------
(* The invariant *)

\* The tables that the model begins with, with or without a demo store.
LEMMA FirstTables ==
  ASSUME Init
  PROVE  /\ Tables
         /\ \A k \in DOMAIN sale : k \in DOMAIN ShopSales \/ k[2] \in DOMAIN SaleSpecs
<1> DEFINE seeded == IF manages = Demo THEN SeedSales(Demo, FirstDay) ELSE << >>
           open == {manages, Shop} \ {NoStore}
<1>1. /\ day = FirstDay /\ manages \in {Demo, NoStore}
      /\ sale = Join(seeded, ShopSales) /\ movement = MovementsOf(sale)
      /\ stock = [s \in open |-> StockAfter(Keep(sale, {s} \X Nat))]
  BY DEF Init
<1>2. /\ Demo \in Store /\ Shop \in Store /\ Demo # Shop /\ NoStore \notin Store
      /\ FirstDay \in FirstDay..LastDay
  BY DemoAssumption
<1>3. /\ IsFiniteSet(DOMAIN seeded)
      /\ \A k \in DOMAIN seeded :
           /\ manages = Demo /\ k \in SaleKey /\ k[1] = Demo /\ k[2] \in DOMAIN SaleSpecs
           /\ seeded[k] \in Sale /\ seeded[k].made <= FirstDay
           /\ seeded[k].done = Never <=> seeded[k].status = "draft"
  <2>1. CASE manages = Demo
    <3>1. seeded = SeedSales(Demo, FirstDay)
      BY <2>1
    <3> HIDE DEF seeded
    <3>2. QED
      BY <1>2, <2>1, <3>1, SeedSalesAre
  <2>2. CASE manages # Demo
    <3>1. DOMAIN seeded = {}
      BY <2>2
    <3> HIDE DEF seeded
    <3>2. QED
      BY <3>1, FS_EmptySet
  <2>3. QED
    BY <2>1, <2>2
<1>4. /\ IsFiniteSet(DOMAIN ShopSales)
      /\ ShopSales = [k \in DOMAIN ShopSales |-> ShopSales[k]]
      /\ \A k \in DOMAIN ShopSales :
           /\ k \in SaleKey /\ k[1] = Shop /\ ShopSales[k] \in Sale
           /\ ShopSales[k].done = Never <=> ShopSales[k].status = "draft"
           /\ ShopSales[k].status # "cancelled" => ShopSales[k].made <= FirstDay
  <2>1. \A k \in DOMAIN ShopSales : k \in SaleKey /\ k[1] = Shop
    BY <1>2, FirstSales DEF SaleKey
  <2>2. QED
    BY <2>1, FirstSales
<1>5. manages = Demo => seeded = SeedSales(Demo, FirstDay)
  OBVIOUS
<1> HIDE DEF seeded
<1>6. Joined(seeded, ShopSales, sale)
  BY <1>1, JoinIs
<1>7. /\ DOMAIN sale = DOMAIN seeded \cup DOMAIN ShopSales
      /\ \A k \in DOMAIN seeded : sale[k] = seeded[k]
      /\ \A k \in DOMAIN ShopSales : sale[k] = ShopSales[k]
  BY <1>2, <1>3, <1>4, <1>6 DEF Joined
<1>8. /\ DOMAIN sale \subseteq SaleKey
      /\ \A k \in DOMAIN sale :
           /\ sale[k] \in Sale
           /\ sale[k].done = Never <=> sale[k].status = "draft"
           /\ sale[k].status # "cancelled" => sale[k].made <= FirstDay
           /\ k[1] \in open
  BY <1>2, <1>3, <1>4, <1>7
<1>9. DOMAIN movement = MovementKeys(sale)
      /\ \A m \in DOMAIN movement : movement[m] \in [number: Nat, made: Nat]
  BY <1>1, <1>8, MovementsAre
<1>10. \A s \in open : StockAfter(Keep(sale, {s} \X Nat)) \in [Variant -> Nat]
  <2>1. Keep(sale, {Shop} \X Nat) = ShopSales
    <3>1. \A k \in DOMAIN sale : k \in {Shop} \X Nat <=> k \in DOMAIN ShopSales
      BY <1>2, <1>3, <1>4, <1>7 DEF SaleKey
    <3>2. DOMAIN sale \cap ({Shop} \X Nat) = DOMAIN ShopSales
      BY <1>7, <3>1
    <3>3. Keep(sale, {Shop} \X Nat) = [k \in DOMAIN ShopSales |-> sale[k]]
      BY <3>2 DEF Keep
    <3>4. QED
      BY <1>4, <1>7, <3>3
  <2>2. ASSUME manages = Demo
        PROVE  Keep(sale, {Demo} \X Nat) = SeedSales(Demo, FirstDay)
    <3>1. \A k \in DOMAIN sale : k \in {Demo} \X Nat <=> k \in DOMAIN seeded
      BY <1>2, <1>3, <1>4, <1>7 DEF SaleKey
    <3>2. DOMAIN sale \cap ({Demo} \X Nat) = DOMAIN seeded
      BY <1>7, <3>1
    <3>3. Keep(sale, {Demo} \X Nat) = [k \in DOMAIN seeded |-> sale[k]]
      BY <3>2 DEF Keep
    <3>4. seeded = [k \in DOMAIN seeded |-> seeded[k]]
      BY <1>5, <2>2 DEF SeedSales
    <3>5. QED
      BY <1>5, <1>7, <2>2, <3>3, <3>4
  <2>3. /\ StockAfter(ShopSales) \in [Variant -> Nat]
        /\ StockAfter(SeedSales(Demo, FirstDay)) \in [Variant -> Nat]
    BY <1>2, EnoughBought
  <2>4. QED
    BY <1>1, <2>1, <2>2, <2>3
<1>11. TypeOK
  <2>1. DOMAIN movement \subseteq SaleKey \X {"sale", "cancellation"}
    BY <1>8, <1>9, KeysArePairs
  <2>2. DOMAIN stock = open /\ open \subseteq Store
    BY <1>1, <1>2
  <2>3. stock \in [DOMAIN stock -> [Variant -> Nat]]
    BY <1>1, <1>10, <2>2
  <2>4. QED
    BY <1>1, <1>2, <1>8, <1>9, <2>1, <2>2, <2>3 DEF TypeOK
<1>12. IsFiniteSet(DOMAIN sale)
  <2>1. IsFiniteSet(DOMAIN seeded \cup DOMAIN ShopSales)
    BY <1>3, <1>4, FS_Union
  <2>2. QED
    BY <1>7, <2>1
<1>13. Stores /\ NothingDangles
  BY <1>1, <1>2, <1>8 DEF Stores, NothingDangles
<1>14. MadeInv /\ BookedInv
  BY <1>1, <1>8, <1>9 DEF MadeInv, BookedInv
<1>15. \A k \in DOMAIN sale : k \in DOMAIN ShopSales \/ k[2] \in DOMAIN SaleSpecs
  BY <1>3, <1>7
<1>16. QED
  BY <1>11, <1>12, <1>13, <1>14, <1>15 DEF Tables

LEMMA InitHolds == Init => IInv
<1> SUFFICES ASSUME Init PROVE IInv
  OBVIOUS
<1>1. Locks /\ \A r \in Request : pc[r] = "idle" /\ Reserved(r) = {}
  <2>1. AtRest
    BY DEF Init
  <2>2. LocksInv(Lockable) /\ task \in Traffic
    BY <2>1, LocksInit DEF AtRest
  <2>3. \A r \in Request : pc[r] = "idle" /\ held[r] = {} /\ plan[r] = << >>
    BY <2>1 DEF AtRest
  <2>4. QED
    BY <2>2, <2>3 DEF Locks, Reserved
<1>2. Tables /\ \A k \in DOMAIN sale : k \in DOMAIN ShopSales \/ k[2] \in DOMAIN SaleSpecs
  BY FirstTables
<1>3. MemoOK
  BY DEF Init, MemoOK, Nothing, Fields
<1>4. DOMAIN stock = {manages, Shop} \ {NoStore} /\ manages \in {Demo, NoStore}
  BY <1>2 DEF Tables, Stores, Init
<1>5. ASSUME NEW r \in Request
      PROVE  ControlOf(r)
  <2>1. /\ task[r].kind = "seed" => task[r].store # Shop /\ (task[r].reset => task[r].store # Demo)
        /\ task[r].kind = "create" =>
             task[r].sale \notin DOMAIN ShopSales /\ task[r].sale[2] \notin DOMAIN SaleSpecs
        /\ task[r].kind = "seed" => task[r].store \in Store
    BY <1>1, FreshKeys, TaskFields DEF Locks
  <2>2. pc[r] = "idle"
    BY <1>1
  <2>3. /\ pc[r] \notin RebuildPoints /\ pc[r] \notin SalePoints
        /\ pc[r] \notin {"refreshing", "shifting", "creating"}
    BY <2>2 DEF RebuildPoints, SalePoints, SaleTasks
  <2>4. PointOf(r)
    BY <1>1, <2>3 DEF PointOf, SalePoints
  <2>5. NewStoreOf(r)
    BY <1>4, <2>1, <2>3 DEF NewStoreOf
  <2>6. NewSaleOf(r)
    BY <1>2, <2>1, <2>3 DEF NewSaleOf
  <2>7. VisitOf(r)
    BY <2>3 DEF VisitOf
  <2>8. RebuildOf(r) /\ SaleOf(r)
    BY <2>2 DEF RebuildOf, SaleOf, SaleTasks
  <2>9. QED
    BY <2>4, <2>5, <2>6, <2>7, <2>8 DEF ControlOf
<1>6. QED
  BY <1>1, <1>2, <1>3, <1>5 DEF IInv, Types, Tables

LEMMA StutterHolds ==
  ASSUME IInv, UNCHANGED vars
  PROVE  IInv'
<1>1. UNCHANGED <<task, pc, held, plan, day, manages, sale, movement, stock, memo>>
  BY DEF vars, transaction, tables
<1>2. Locks' /\ MemoOK'
  BY <1>1 DEF IInv, Locks, LocksInv, Types, MemoOK
<1>3. TypeOK' /\ IsFiniteSet(DOMAIN sale)'
  BY <1>1 DEF IInv, Types, TypeOK
<1>4. Stores' /\ NothingDangles' /\ MadeInv' /\ BookedInv'
  BY <1>1 DEF IInv, Stores, NothingDangles, MadeInv, BookedInv, MovementKeys
<1>5. ASSUME NEW r \in Request
      PROVE  ControlOf(r)'
  <2>1. /\ PointOf(r) /\ VisitOf(r) /\ RebuildOf(r)
        /\ NewStoreOf(r) /\ NewSaleOf(r) /\ SaleOf(r)
    BY DEF IInv, ControlOf
  <2>2. Reserved(r)' = Reserved(r)
    BY <1>1 DEF Reserved
  <2>3. PointOf(r)' /\ NewStoreOf(r)' /\ NewSaleOf(r)'
    BY <1>1, <2>1, <2>2 DEF PointOf, NewStoreOf, NewSaleOf, StoreRow
  <2>4. VisitOf(r)' /\ RebuildOf(r)'
    BY <1>1, <2>1, <2>2 DEF VisitOf, RebuildOf, SalesOf, Finished, StoreRow, SaleRow
  <2>5. SaleOf(r)'
    BY <1>1, <2>1, <2>2, SaleStays
  <2>6. QED
    BY <2>3, <2>4, <2>5 DEF ControlOf
<1>6. QED
  BY <1>2, <1>3, <1>4, <1>5 DEF IInv, Types

LEMMA NextHolds == IInv /\ [Next]_vars => IInv'
<1> SUFFICES ASSUME IInv, [Next]_vars
             PROVE  IInv'
  OBVIOUS
<1>1. ASSUME NEW r \in Request, Handle(r)
      PROVE  IInv'
  <2>1. CASE Acquire(r) /\ UNCHANGED <<day, tables, memo, torn>>
    BY <2>1, AcquireHolds
  <2>2. CASE LogIn(r) \/ Refresh(r) \/ CommitShift(r) \/ IssueToken(r)
    BY <2>2, LogInHolds, RefreshHolds, CommitShiftHolds, IssueTokenHolds
  <2>3. CASE Command(r) \/ FindUser(r) \/ Prepare(r)
    BY <2>3, CommandHolds, FindUserHolds, PrepareHolds
  <2>4. CASE DeleteSales(r) \/ DeleteStore(r) \/ CommitSeed(r)
    BY <2>4, DeleteSalesHolds, DeleteStoreHolds, CommitSeedHolds
  <2>5. CASE Create(r) \/ CommitCreate(r) \/ AddItem(r) \/ CommitItem(r)
    BY <2>5, CreateHolds, CommitCreateHolds, AddItemHolds, CommitItemHolds
  <2>6. CASE TakeSale(r) \/ Complete(r) \/ ValidateStock(r) \/ CommitComplete(r)
    BY <2>6, TakeSaleHolds, CompleteHolds, ValidateStockHolds, CommitCompleteHolds
  <2>7. CASE Cancel(r) \/ CommitCancel(r)
    BY <2>7, CancelHolds, CommitCancelHolds
  <2>8. CASE Ask(r) \/ ReadSection(r)
    BY <2>8, AskHolds, ReadSectionHolds
  <2>9. QED
    BY <1>1, <2>1, <2>2, <2>3, <2>4, <2>5, <2>6, <2>7, <2>8 DEF Handle
<1>2. ASSUME NEW r \in Request, Rollback(r)
      PROVE  IInv'
  BY <1>2, RollbackHolds
<1>3. CASE NewDay
  BY <1>3, NewDayHolds
<1>4. CASE UNCHANGED vars
  BY <1>4, StutterHolds
<1>5. QED
  BY <1>1, <1>2, <1>3, <1>4 DEF Next, Over

\* No step of any number of requests that overlap takes the invariant away.
LEMMA Invariance == Spec => []IInv
  BY InitHolds, NextHolds, PTL DEF Spec

\* The tables hold well-formed rows and no sale outlives its store, however
\* visitors, cashiers and rebuilds overlap (stores/demo.py:145-206).
THEOREM TablesSoundAlways == Spec => []TablesSound
<1>1. IInv => TablesSound
  BY DEF IInv, Types, TablesSound
<1>2. QED
  BY <1>1, Invariance, PTL

\* However many visitors move the timeline, no completed sale gets a date after
\* today (stores/demo.py:103-142).
THEOREM NoCompletedSaleAheadAlways == Spec => []NoCompletedSaleAhead
<1>1. IInv => NoCompletedSaleAhead
  BY DEF IInv, MadeInv, NoCompletedSaleAhead
<1>2. QED
  BY <1>1, Invariance, PTL
-----------------------------------------------------------------------------
(* The timeline *)

\* The finished sales of the demo store that a step leaves.
Past == {k \in DOMAIN sale \cap DOMAIN sale' : k[1] = manages /\ Finished(k)}

\* They and their movements are moved by d days.
MovedBy(d) ==
  /\ \A k \in Past : sale'[k].made = sale[k].made + d
  /\ \A m \in DOMAIN movement : m[1] \in Past => movement'[m].made = movement[m].made + d

LEMMA NotMoved ==
  ASSUME IInv, \A k \in Past : sale'[k].made = sale[k].made,
         \A m \in DOMAIN movement : m[1] \in Past => movement'[m].made = movement[m].made
  PROVE  \E d \in 0..LastDay : MovedBy(d)
<1>1. \A k \in Past : sale[k].made \in Nat
  BY SaleFields DEF IInv, Types, Past
<1>2. \A m \in DOMAIN movement : movement[m].made \in Nat
  BY DEF IInv, Types, TypeOK
<1>3. MovedBy(0)
  BY <1>1, <1>2 DEF MovedBy
<1>4. 0 \in 0..LastDay
  BY DemoAssumption
<1>5. QED
  BY <1>3, <1>4

LEMMA ShiftMoves ==
  ASSUME IInv, NEW r \in Request, CommitShift(r)
  PROVE  \E d \in 0..LastDay : MovedBy(d)
<1>0. PICK n : n = memo[r].days
  OBVIOUS
<1>1. /\ n \in 0..LastDay /\ n \in Nat
      /\ \A k \in SalesOf(manages) : Finished(k) => SaleRow(k) \in held[r]
  BY <1>0, ShiftEffect
<1>2. \A k \in DOMAIN sale : SaleRow(k) \in held[r] /\ Finished(k) =>
        sale'[k] = [sale[k] EXCEPT !.made = sale[k].made + n]
  BY <1>0, ShiftEffect
<1>3. \A m \in DOMAIN movement : m[1][1] = manages =>
        movement'[m] = [movement[m] EXCEPT !.made = movement[m].made + n]
  BY <1>0, ShiftEffect
<1>4. ASSUME NEW k \in Past
      PROVE  sale'[k].made = sale[k].made + n
  <2>1. k \in DOMAIN sale /\ SaleRow(k) \in held[r] /\ Finished(k)
    BY <1>1 DEF Past, SalesOf
  <2>2. sale'[k] = [sale[k] EXCEPT !.made = sale[k].made + n]
    BY <1>2, <2>1
  <2>3. sale[k] \in Sale
    BY <2>1 DEF IInv, Types, TypeOK
  <2>4. QED
    BY <1>1, <2>2, <2>3, ShiftedSale
<1>5. ASSUME NEW m \in DOMAIN movement, m[1] \in Past
      PROVE  movement'[m].made = movement[m].made + n
  <2>1. movement'[m] = [movement[m] EXCEPT !.made = movement[m].made + n]
    BY <1>3, <1>5 DEF Past
  <2>2. movement[m] \in [number: Nat, made: Nat]
    BY DEF IInv, Types, TypeOK
  <2>3. QED
    BY <2>1, <2>2
<1>6. QED
  BY <1>1, <1>4, <1>5 DEF MovedBy

LEMMA SeedMovesNone ==
  ASSUME IInv, NEW r \in Request, CommitSeed(r)
  PROVE  \E d \in 0..LastDay : MovedBy(d)
<1>1. PICK s, fresh : Rebuilt(r, s, fresh)
  BY SeedEffect
<1>2. /\ DOMAIN sale' = DOMAIN fresh \cup {k \in DOMAIN sale : k[1] # manages}
      /\ \A k \in DOMAIN fresh : k \notin DOMAIN sale
  BY <1>1 DEF Rebuilt
<1>3. Past = {}
  BY <1>2 DEF Past
<1>4. QED
  BY <1>3, NotMoved

\* When one sale is added or replaced, a finished one that is replaced keeps
\* its date, and no movement of a finished one is changed, nothing has moved.
LEMMA OneSaleMovesNone ==
  ASSUME IInv, NEW k, NEW row, Written(sale, sale', k, row),
         k \in Past => row.made = sale[k].made,
         \A m \in DOMAIN movement : m[1] \in Past => movement'[m] = movement[m]
  PROVE  \E d \in 0..LastDay : MovedBy(d)
<1>1. \A j \in Past : sale'[j].made = sale[j].made
  BY DEF Written, Past
<1>2. QED
  BY <1>1, NotMoved

LEMMA CreateMovesNone ==
  ASSUME IInv, NEW r \in Request, CommitCreate(r)
  PROVE  \E d \in 0..LastDay : MovedBy(d)
<1>0. PICK k : k = task[r].sale
  OBVIOUS
<1> DEFINE row == [status |-> "draft", number |-> 0, channel |-> task[r].channel,
                   basket |-> Empty, made |-> day, done |-> Never]
<1>1. /\ At(r, "creating") /\ movement' = movement
      /\ sale' = Add(sale, k, row) \/ sale' = sale
  BY <1>0 DEF CommitCreate
<1> HIDE DEF row
<1>2. k \notin DOMAIN sale
  BY <1>0, <1>1 DEF IInv, ControlOf, PointOf, NewSaleOf, At
<1>3. CASE sale' = Add(sale, k, row)
  <2>1. Written(sale, sale', k, row)
    BY <1>3, AddWrites
  <2>2. QED
    BY <1>1, <1>2, <2>1, OneSaleMovesNone DEF Past
<1>4. CASE sale' = sale
  BY <1>1, <1>4, NotMoved
<1>5. QED
  BY <1>1, <1>3, <1>4

LEMMA ItemMovesNone ==
  ASSUME IInv, NEW r \in Request, CommitItem(r)
  PROVE  \E d \in 0..LastDay : MovedBy(d)
<1>1. PICK k \in DOMAIN sale, row \in Sale :
        row.made = sale[k].made /\ Written(sale, sale', k, row) /\ movement' = movement
  BY ItemEffect
<1>2. QED
  BY <1>1, OneSaleMovesNone

LEMMA CompleteMovesNone ==
  ASSUME IInv, NEW r \in Request, CommitComplete(r)
  PROVE  \E d \in 0..LastDay : MovedBy(d)
<1>0. PICK k, s : k = task[r].sale /\ s = k[1]
  OBVIOUS
<1>1. PICK n : n = 1 + Max({0} \cup {sale[j].number : j \in SalesOf(s)})
  OBVIOUS
<1> DEFINE row == [sale[k] EXCEPT !.status = "completed", !.number = n, !.done = day]
<1>2. pc[r] = "numbering" /\ movement' = Add(movement, <<k, "sale">>, [number |-> n, made |-> day])
  <2>1. PICK m : m = 1 + Max({0} \cup {sale[j].number : j \in SalesOf(task[r].sale[1])})
    OBVIOUS
  <2>2. /\ At(r, "numbering")
        /\ movement' = Add(movement, <<task[r].sale, "sale">>, [number |-> m, made |-> day])
    BY <2>1, Zenon DEF CommitComplete
  <2>3. m = n
    BY <1>0, <1>1, <2>1
  <2>4. QED
    BY <1>0, <2>2, <2>3 DEF At
<1>3. k \in DOMAIN sale /\ sale[k].status = "draft"
  BY <1>0, <1>2 DEF IInv, ControlOf, SaleOf
<1>4. TypeOK /\ IsFiniteSet(DOMAIN sale)
  BY DEF IInv, Types
<1>5. n \in Nat /\ day \in Nat
  BY <1>1, <1>4, NextNumber, Days
<1>6. sale' = [sale EXCEPT ![k] = row]
  BY <1>0, <1>1, <1>3 DEF CommitComplete
<1> HIDE DEF row
<1>7. Written(sale, sale', k, row)
  BY <1>3, <1>6, ReplacedIsWritten
<1>8. k \notin Past
  BY <1>3 DEF Past, Finished
<1>9. \A m \in DOMAIN movement \ {<<k, "sale">>} : movement'[m] = movement[m]
  BY <1>2, <1>4, <1>5, MovementAdded
<1>10. \A m \in DOMAIN movement : m[1] \in Past => m # <<k, "sale">>
  BY <1>8
<1>11. QED
  BY <1>7, <1>8, <1>9, <1>10, OneSaleMovesNone

LEMMA CancelMovesNone ==
  ASSUME IInv, NEW r \in Request, CommitCancel(r)
  PROVE  \E d \in 0..LastDay : MovedBy(d)
<1>0. PICK k, n : k = task[r].sale /\ n = sale[k].number
  OBVIOUS
<1> DEFINE row == [sale[k] EXCEPT !.status = "cancelled"]
<1>2. /\ pc[r] = "restocking"
      /\ movement' = Add(movement, <<k, "cancellation">>, [number |-> n, made |-> day])
  BY <1>0 DEF CommitCancel, At
<1>3. k \in DOMAIN sale /\ sale[k].status = "completed"
  BY <1>0, <1>2 DEF IInv, ControlOf, SaleOf
<1>4. TypeOK /\ BookedInv
  BY DEF IInv, Types
<1>5. n \in Nat /\ day \in Nat /\ sale[k] \in Sale
  BY <1>0, <1>3, <1>4, SaleFields, Days
<1>6. sale' = [sale EXCEPT ![k] = row]
  BY <1>0, <1>3 DEF CommitCancel
<1>7. row.made = sale[k].made
  BY <1>5, CancelledSale
<1> HIDE DEF row
<1>8. Written(sale, sale', k, row)
  BY <1>3, <1>6, ReplacedIsWritten
<1>9. \A m \in DOMAIN movement \ {<<k, "cancellation">>} : movement'[m] = movement[m]
  BY <1>2, <1>4, <1>5, MovementAdded
<1>10. <<k, "cancellation">> \notin DOMAIN movement
  BY <1>3, <1>4, KeysAre DEF BookedInv
<1>11. QED
  BY <1>7, <1>8, <1>9, <1>10, OneSaleMovesNone

LEMMA NoTablesMove ==
  ASSUME IInv, UNCHANGED <<sale, movement>>
  PROVE  \E d \in 0..LastDay : MovedBy(d)
  BY NotMoved

\* Whatever the step, there is one number of days.
LEMMA StepMoves ==
  ASSUME IInv, [Next]_vars
  PROVE  \E d \in 0..LastDay : MovedBy(d)
<1>1. ASSUME NEW r \in Request, Handle(r)
      PROVE  \E d \in 0..LastDay : MovedBy(d)
  <2>1. CASE CommitShift(r) \/ CommitSeed(r)
    BY <2>1, ShiftMoves, SeedMovesNone
  <2>2. CASE CommitCreate(r) \/ CommitItem(r) \/ CommitComplete(r) \/ CommitCancel(r)
    BY <2>2, CreateMovesNone, ItemMovesNone, CompleteMovesNone, CancelMovesNone
  <2>3. CASE \/ Acquire(r) /\ UNCHANGED <<day, tables, memo, torn>>
             \/ LogIn(r) \/ Refresh(r) \/ IssueToken(r)
    <3>1. UNCHANGED tables
      BY <2>3 DEF LogIn, Refresh, IssueToken
    <3>2. QED
      BY <3>1, NoTablesMove DEF tables
  <2>4. CASE Command(r) \/ FindUser(r) \/ Prepare(r) \/ DeleteSales(r) \/ DeleteStore(r)
    <3>1. UNCHANGED tables
      BY <2>4 DEF Command, FindUser, Prepare, DeleteSales, DeleteStore
    <3>2. QED
      BY <3>1, NoTablesMove DEF tables
  <2>5. CASE \/ Create(r) \/ TakeSale(r) \/ AddItem(r) \/ Complete(r) \/ ValidateStock(r)
             \/ Cancel(r) \/ Ask(r) \/ ReadSection(r)
    <3>1. UNCHANGED tables
      BY <2>5 DEF Create, TakeSale, AddItem, Complete, ValidateStock, Cancel, Ask, ReadSection
    <3>2. QED
      BY <3>1, NoTablesMove DEF tables
  <2>6. QED
    BY <1>1, <2>1, <2>2, <2>3, <2>4, <2>5 DEF Handle
<1>2. CASE \/ \E r \in Request : Rollback(r)
           \/ NewDay \/ UNCHANGED vars
  <2>1. UNCHANGED tables
    BY <1>2 DEF Rollback, NewDay, vars
  <2>2. QED
    BY <2>1, NoTablesMove DEF tables
<1>3. QED
  BY <1>1, <1>2 DEF Next, Over

\* The finished sales of the demo store and the movements made for them keep
\* their distance in time, those too that are cancelled meanwhile
\* (stores/demo.py:128-141).
THEOREM TimelineMovesTogetherAlways == Spec => TimelineMovesTogether
<1>1. IInv /\ [Next]_vars =>
        LET K == {k \in DOMAIN sale \cap DOMAIN sale' : k[1] = manages /\ Finished(k)}
        IN \E d \in 0..LastDay :
             /\ \A k \in K : sale'[k].made = sale[k].made + d
             /\ \A m \in DOMAIN movement : m[1] \in K => movement'[m].made = movement[m].made + d
  BY StepMoves DEF MovedBy, Past
<1>2. QED
  BY <1>1, Invariance, PTL DEF Spec, TimelineMovesTogether
-----------------------------------------------------------------------------
(* What is in stock and what was sold *)

\* What the sales K take of v.
Taken(sales, K, v) == SumFunction([k \in K |-> Units(sales[k], v)])

LEMMA TakenIs ==
  ASSUME NEW sales, NEW K, IsFiniteSet(K), NEW v, \A k \in K : Units(sales[k], v) \in Nat
  PROVE  /\ Taken(sales, K, v) \in Nat
         /\ \A k \in K : Taken(sales, K, v) = Units(sales[k], v) + Taken(sales, K \ {k}, v)
<1> DEFINE f == [k \in K |-> Units(sales[k], v)]
<1>1. \A k \in K : f[k] = Units(sales[k], v) /\ f[k] \in Nat
  OBVIOUS
<1>2. ASSUME NEW S \in SUBSET K
      PROVE  Taken(sales, S, v) = SumOver(f, S)
  <2>1. [k \in S |-> Units(sales[k], v)] = [k \in S |-> f[k]]
    OBVIOUS
  <2>2. QED
    BY <2>1 DEF Taken, SumOver
<1> HIDE DEF f
<1>3. SumOver(f, K) \in Nat /\ \A k \in K : SumOver(f, K) = f[k] + SumOver(f, K \ {k})
  BY <1>1, SumNat, SumTake
<1>4. Taken(sales, K, v) = SumOver(f, K)
  BY <1>2
<1>5. \A k \in K : Taken(sales, K \ {k}, v) = SumOver(f, K \ {k})
  BY <1>2
<1>6. QED
  BY <1>1, <1>3, <1>4, <1>5

\* It depends on the baskets of the sales only.
LEMMA UnitsOfBasket ==
  ASSUME NEW a, NEW b, a.basket = b.basket, NEW v
  PROVE  Units(a, v) = Units(b, v)
  BY DEF Units

LEMMA TakenSame ==
  ASSUME NEW f, NEW g, NEW K, \A k \in K : f[k].basket = g[k].basket, NEW v
  PROVE  Taken(f, K, v) = Taken(g, K, v)
<1>1. \A k \in K : Units(f[k], v) = Units(g[k], v)
  BY UnitsOfBasket
<1>2. [k \in K |-> Units(f[k], v)] = [k \in K |-> Units(g[k], v)]
  BY <1>1
<1>3. QED
  BY <1>2 DEF Taken

CompletedOf(s) == {k \in DOMAIN sale : k[1] = s /\ sale[k].status = "completed"}

\* What is in stock and what was sold is what was bought.
Balance(s) ==
  \A v \in Variant : stock[s][v] + Taken(sale, CompletedOf(s), v) = Opening[v]

BalanceInv == \A s \in DOMAIN stock : Balance(s)

\* A sale has been completed by today.
DoneInv == \A k \in DOMAIN sale : sale[k].status = "completed" => sale[k].done \in 0..day

LEMMA TakenTypes ==
  ASSUME Types, NEW s
  PROVE  /\ CompletedOf(s) \subseteq DOMAIN sale /\ IsFiniteSet(CompletedOf(s))
         /\ \A v \in Variant : /\ Taken(sale, CompletedOf(s), v) \in Nat
                               /\ \A k \in CompletedOf(s) : Units(sale[k], v) \in Nat
<1>1. CompletedOf(s) \subseteq DOMAIN sale /\ IsFiniteSet(CompletedOf(s))
  BY FS_Subset DEF CompletedOf, Types
<1>2. \A v \in Variant : \A k \in CompletedOf(s) : Units(sale[k], v) \in Nat
  BY <1>1, SaleUnits DEF Types
<1>3. QED
  BY <1>1, <1>2, TakenIs

\* The stock with which a store begins.
LEMMA StockAfterIs ==
  ASSUME NEW f, NEW C, C = {k \in DOMAIN f : f[k].status = "completed"}, IsFiniteSet(C),
         \A k \in C : f[k] \in Sale, NEW v \in Variant
  PROVE  StockAfter(f)[v] + Taken(f, C, v) = Opening[v]
<1>1. StockAfter(f)[v] = Opening[v] - Taken(f, C, v)
  BY DEF StockAfter, Taken
<1>2. Opening[v] \in Nat
  BY DemoAssumption
<1>3. ASSUME NEW k \in C
      PROVE  Units(f[k], v) \in Nat
  <2>1. f[k].basket \in DOMAIN Lines
    BY DEF Sale
  <2>2. QED
    BY <2>1, LinesAre, UnitsType
<1>4. Taken(f, C, v) \in Nat
  BY <1>3, TakenIs
<1>5. QED
  BY <1>1, <1>2, <1>4

\* The completed sales of s, as queries read them, and its stock stay as they are.
Untouched(s) ==
  /\ CompletedOf(s)' = CompletedOf(s)
  /\ \A k \in CompletedOf(s) : Columns(sale'[k]) = Columns(sale[k])
  /\ s \in DOMAIN stock' <=> s \in DOMAIN stock
  /\ s \in DOMAIN stock => stock'[s] = stock[s]

LEMMA BalanceStays ==
  ASSUME NEW s \in DOMAIN stock, Untouched(s), Balance(s)
  PROVE  Balance(s)'
<1>1. \A k \in CompletedOf(s) : sale'[k].basket = sale[k].basket
  BY DEF Untouched, Columns
<1>2. ASSUME NEW v \in Variant
      PROVE  stock'[s][v] + Taken(sale', CompletedOf(s)', v) = Opening[v]
  <2>1. Taken(sale', CompletedOf(s), v) = Taken(sale, CompletedOf(s), v)
    BY <1>1, TakenSame
  <2>2. QED
    BY <2>1 DEF Untouched, Balance
<1>3. QED
  BY <1>2 DEF Balance, Taken, Units

LEMMA SnapshotIs ==
  ASSUME NEW s, NEW from, NEW to
  PROVE  Snapshot(s, from, to) =
           [sales |-> [k \in {j \in CompletedOf(s) : sale[j].done \in from..to} |->
                         Columns(sale[k])],
            stock |-> IF s \in DOMAIN stock THEN stock[s] ELSE << >>]
<1>1. Completed(sale, from, to) \cap SalesOf(s)
        = {j \in CompletedOf(s) : sale[j].done \in from..to}
  BY DEF Completed, SalesOf, CompletedOf
<1>2. QED
  BY <1>1 DEF Snapshot

LEMMA SnapshotStays ==
  ASSUME NEW s, Untouched(s), NEW from, NEW to
  PROVE  Snapshot(s, from, to)' = Snapshot(s, from, to)
<1>1. PICK K : K = {j \in CompletedOf(s) : sale[j].done \in from..to}
  OBVIOUS
<1>2. \A k \in CompletedOf(s) : sale'[k].done = sale[k].done
  BY DEF Untouched, Columns
<1>3. {j \in CompletedOf(s)' : sale'[j].done \in from..to} = K
  BY <1>1, <1>2 DEF Untouched
<1>4. [k \in K |-> Columns(sale'[k])] = [k \in K |-> Columns(sale[k])]
  BY <1>1 DEF Untouched
<1>5. Snapshot(s, from, to)' =
        [sales |-> [k \in {j \in CompletedOf(s)' : sale'[j].done \in from..to} |->
                      Columns(sale'[k])],
         stock |-> IF s \in DOMAIN stock' THEN stock'[s] ELSE << >>]
  <2>1. Completed(sale', from, to) \cap SalesOf(s)'
          = {j \in CompletedOf(s)' : sale'[j].done \in from..to}
    BY DEF Completed, SalesOf, CompletedOf
  <2>2. QED
    BY <2>1 DEF Snapshot, Completed, Columns
<1>6. QED
  BY <1>1, <1>3, <1>4, <1>5, SnapshotIs DEF Untouched
-----------------------------------------------------------------------------
(* Reports that are being read *)

ReportNames == {"totals", "items", "daily", "channels", "products", "inventory", "low", "out"}

Now(r) == Snapshot(memo[r].store, memo[r].from, memo[r].to)

\* What the queries of a report can find.
Found(F, from, to) ==
  /\ IsFiniteSet(DOMAIN F.sales)
  /\ \A k \in DOMAIN F.sales :
       /\ F.sales[k].channel \in Channel /\ F.sales[k].basket \in DOMAIN Lines
       /\ F.sales[k].done \in from..to

\* What was found in stock and what had been sold is what was bought.
Balanced(F) ==
  /\ F.stock \in [Variant -> Nat]
  /\ \A v \in Variant : F.stock[v] + Taken(F.sales, DOMAIN F.sales, v) = Opening[v]

\* A rebuild that is still to give a store its key.
Pending(p) ==
  /\ task[p].kind = "seed"
  /\ \/ pc[p] = "idle" /\ (task[p].reset \/ manages = NoStore)
     \/ pc[p] \in RebuildPoints

IsReport(r) == task[r].kind = "report"

\* The store of a report is none that is still to be built.
StoreOf(r) ==
  /\ memo[r].from \in Int /\ memo[r].to \in Int /\ memo[r].store \in Store
  /\ \A p \in Request : Pending(p) => task[p].store # memo[r].store

\* All sections have found the same.
AnswerOf(r) ==
  LET F == memo[r].answer["totals"] IN
  /\ \A n \in ReportNames : memo[r].answer[n] = F
  /\ Found(F, memo[r].from, memo[r].to)
  /\ memo[r].from = 0 /\ day <= memo[r].to /\ memo[r].store \in DOMAIN stock => Balanced(F)

\* A report that is not torn has found in every section what is there now.
ReaderOf(r) ==
  /\ pc[r] \in {"idle", "reading", "done", "failed"}
  /\ pc[r] = "idle" => memo[r].answer = << >>
  /\ pc[r] \in {"reading", "done"} => StoreOf(r)
  /\ pc[r] = "reading" =>
       /\ memo[r].left \in Seq(ReportNames) /\ memo[r].left # << >>
       /\ DOMAIN memo[r].answer \cup {memo[r].left[i] : i \in DOMAIN memo[r].left}
            = ReportNames
       /\ r \notin torn => \A n \in DOMAIN memo[r].answer : memo[r].answer[n] = Now(r)
  /\ pc[r] = "done" =>
       DOMAIN memo[r].answer = ReportNames /\ (r \notin torn => AnswerOf(r))

RInv ==
  /\ DoneInv /\ BalanceInv
  /\ \A r \in Request : IsReport(r) => ReaderOf(r)

\* What a step leaves to a report that is being read of s: what it reads, or it
\* is torn, or the store was not there before.
LeftTo(s) ==
  \/ Untouched(s)
  \/ ReadersOf(s) \subseteq torn'
  \/ \E p \in Request : Pending(p) /\ task[p].store = s

\* What a step does to reports.
ReportFrame ==
  /\ torn \subseteq torn' /\ day' \in Int /\ day <= day'
  /\ \A p \in Request : Pending(p)' => Pending(p)
  /\ \A s \in DOMAIN stock' \ DOMAIN stock : \E p \in Request : Pending(p) /\ task[p].store = s
  /\ \A s \in Store : LeftTo(s)

LEMMA ReaderStays ==
  ASSUME Types, RInv, NEW r \in Request, IsReport(r), ReportFrame, task' = task,
         pc'[r] = pc[r], memo'[r] = memo[r]
  PROVE  ReaderOf(r)'
<1>1. ReaderOf(r)
  BY DEF RInv
<1>2. pc[r] \in {"reading", "done"} => StoreOf(r)'
  BY <1>1 DEF ReaderOf, StoreOf, ReportFrame
<1>3. ASSUME pc[r] = "reading", r \notin torn', NEW n \in DOMAIN memo[r].answer
      PROVE  memo[r].answer[n] = Now(r)'
  <2>1. memo[r].answer[n] = Now(r)
    BY <1>1, <1>3 DEF ReaderOf, ReportFrame
  <2>2. memo[r].answer # << >>
    BY <1>3
  <2>3. r \in ReadersOf(memo[r].store)
    BY <1>3, <2>2 DEF ReadersOf
  <2>4. /\ memo[r].store \in Store
        /\ \A p \in Request : Pending(p) => task[p].store # memo[r].store
    BY <1>1, <1>3 DEF ReaderOf, StoreOf
  <2>5. Untouched(memo[r].store)
    BY <1>3, <2>3, <2>4 DEF ReportFrame, LeftTo
  <2>6. PICK s, from, to : s = memo[r].store /\ from = memo[r].from /\ to = memo[r].to
    OBVIOUS
  <2>7. Snapshot(s, from, to)' = Snapshot(s, from, to)
    BY <2>5, <2>6, SnapshotStays
  <2>8. Now(r) = Snapshot(s, from, to)
    BY <2>6 DEF Now
  <2>9. Now(r)' = Snapshot(s, from, to)'
    BY <2>6 DEF Now
  <2>10. QED
    BY <2>1, <2>7, <2>8, <2>9
<1>4. ASSUME pc[r] = "done", r \notin torn'
      PROVE  AnswerOf(r)'
  <2>1. AnswerOf(r) /\ StoreOf(r)
    BY <1>1, <1>4 DEF ReaderOf, ReportFrame
  <2>2. memo[r].store \in DOMAIN stock' => memo[r].store \in DOMAIN stock
    BY <2>1 DEF StoreOf, ReportFrame
  <2>3. day \in Int /\ memo[r].to \in Int /\ day' \in Int
    BY <2>1, Days DEF StoreOf, ReportFrame, Types
  <2>4. day' <= memo[r].to => day <= memo[r].to
    BY <2>3 DEF ReportFrame
  <2>5. PICK F : F = memo[r].answer["totals"]
    OBVIOUS
  <2>6. /\ \A n \in ReportNames : memo[r].answer[n] = F
        /\ Found(F, memo[r].from, memo[r].to)
        /\ memo[r].from = 0 /\ day' <= memo[r].to /\ memo[r].store \in DOMAIN stock'
             => Balanced(F)
    BY <2>1, <2>2, <2>4, <2>5 DEF AnswerOf
  <2>7. QED
    BY <2>5, <2>6 DEF AnswerOf, Found, Balanced
<1>5. /\ pc[r] \in {"idle", "reading", "done", "failed"}
      /\ pc[r] = "idle" => memo[r].answer = << >>
      /\ pc[r] = "reading" =>
           /\ memo[r].left \in Seq(ReportNames) /\ memo[r].left # << >>
           /\ DOMAIN memo[r].answer \cup {memo[r].left[i] : i \in DOMAIN memo[r].left}
                = ReportNames
      /\ pc[r] = "done" => DOMAIN memo[r].answer = ReportNames
  BY <1>1 DEF ReaderOf
<1>6. QED
  BY <1>2, <1>3, <1>4, <1>5 DEF ReaderOf
-----------------------------------------------------------------------------
(* What each step leaves to the reports *)

\* r goes to one of the points S, and only what it notes itself changes.
Passed(r, S) ==
  /\ task' = task /\ torn \subseteq torn'
  /\ pc'[r] \in S
  /\ \A q \in Request \ {r} : pc'[q] = pc[q] /\ memo'[q] = memo[q]

LEMMA PassedNoting ==
  ASSUME IInv, NEW r \in Request, NEW field, NEW value, torn' = torn,
         Remember(r, field, value) \/ UNCHANGED memo, NEW S, NEW where \in S,
         \/ \E rows : Goto(r, where, rows)
         \/ Finish(r, where)
         \/ where = "issuing" /\ ThenIssueToken(r)
  PROVE  Passed(r, S)
<1>1. DOMAIN pc = Request /\ DOMAIN memo = Request
  BY DEF IInv, Locks, LocksInv, Types, MemoOK
<1>2. task' = task /\ pc' = [pc EXCEPT ![r] = where]
  BY DEF Goto, Finish, ThenIssueToken
<1>3. \A q \in Request \ {r} : memo'[q] = memo[q]
  BY <1>1 DEF Remember
<1>4. QED
  BY <1>1, <1>2, <1>3 DEF Passed

Elsewhere == {"refreshing", "shifting", "issuing", "creating", "done", "failed", "reading"}
               \cup SalePoints

LEMMA LoginPasses ==
  ASSUME IInv, NEW r \in Request, LogIn(r) \/ Refresh(r) \/ CommitShift(r) \/ IssueToken(r)
  PROVE  Passed(r, Elsewhere) /\ manages' = manages
<1>0. {"refreshing", "shifting", "issuing", "done", "failed"} \subseteq Elsewhere
  BY DEF Elsewhere
<1>1. CASE LogIn(r)
  <2>1. /\ Remember(r, "store", manages) /\ torn' = torn /\ manages' = manages
        /\ \/ Goto(r, "refreshing", <<StoreRow(manages)>>)
           \/ Finish(r, "failed")
    BY <1>1 DEF LogIn, GotoIf, tables
  <2>2. QED
    BY <1>0, <2>1, PassedNoting
<1>2. CASE Refresh(r)
  <2>1. PICK s : s = memo[r].store
    OBVIOUS
  <2>2. /\ Remember(r, "days", Behind(s)) /\ torn' = torn /\ manages' = manages
        /\ \/ Finish(r, "failed")
           \/ ThenIssueToken(r)
           \/ \E rows : Goto(r, "shifting", rows)
    BY <1>2, <2>1 DEF Refresh, tables
  <2>3. QED
    BY <1>0, <2>2, PassedNoting
<1>3. CASE CommitShift(r)
  <2>1. UNCHANGED <<manages, memo, torn>> /\ ThenIssueToken(r)
    BY <1>3 DEF CommitShift
  <2>2. QED
    BY <1>0, <2>1, PassedNoting
<1>4. CASE IssueToken(r)
  <2>1. UNCHANGED <<manages, memo, torn>> /\ Finish(r, "done")
    BY <1>4 DEF IssueToken, tables
  <2>2. QED
    BY <1>0, <2>1, PassedNoting
<1>5. QED
  BY <1>1, <1>2, <1>3, <1>4

LEMMA SalePasses ==
  ASSUME IInv, NEW r \in Request,
         \/ Create(r) \/ CommitCreate(r) \/ AddItem(r) \/ CommitItem(r)
         \/ TakeSale(r) \/ Complete(r) \/ ValidateStock(r) \/ Cancel(r)
  PROVE  Passed(r, Elsewhere) /\ manages' = manages
<1>0. /\ {"creating", "adding", "checking", "numbering", "restocking", "done", "failed"}
           \subseteq Elsewhere
      /\ SaleTasks \subseteq Elsewhere
  BY DEF Elsewhere, SalePoints, SaleTasks
<1>1. UNCHANGED <<manages, memo, torn>>
  BY DEF Create, CommitCreate, AddItem, CommitItem,
         TakeSale, Complete, ValidateStock, Cancel, tables
<1>2. CASE Create(r) \/ CommitCreate(r)
  <2>1. \/ Goto(r, "creating", <<StoreRow(task[r].sale[1])>>)
        \/ Finish(r, "done") \/ Finish(r, "failed")
    BY <1>2 DEF Create, CommitCreate, GotoIf
  <2>2. QED
    BY <1>0, <1>1, <2>1, PassedNoting
<1>3. CASE TakeSale(r)
  <2>1. \/ /\ task[r].kind \in SaleTasks
           /\ Goto(r, task[r].kind, <<SaleRow(task[r].sale)>>)
        \/ Finish(r, "failed")
    BY <1>3 DEF TakeSale, GotoIf, SaleTasks
  <2>2. QED
    BY <1>0, <1>1, <2>1, PassedNoting
<1>4. CASE AddItem(r) \/ CommitItem(r) \/ Complete(r) \/ ValidateStock(r) \/ Cancel(r)
  <2>1. \/ \E rows : Goto(r, "adding", rows)
        \/ \E rows : Goto(r, "checking", rows)
        \/ \E rows : Goto(r, "numbering", rows)
        \/ \E rows : Goto(r, "restocking", rows)
        \/ Finish(r, "done") \/ Finish(r, "failed")
    BY <1>4 DEF AddItem, CommitItem, Complete, ValidateStock, Cancel, GotoIf
  <2>2. QED
    BY <1>0, <1>1, <2>1, PassedNoting
<1>5. QED
  BY <1>2, <1>3, <1>4

\* A step after which r is to build nothing makes no rebuild pending.
LEMMA NothingPending ==
  ASSUME NEW r \in Request, Passed(r, Elsewhere), manages' = NoStore => manages = NoStore
  PROVE  \A p \in Request : Pending(p)' => Pending(p)
<1>1. pc'[r] \notin RebuildPoints /\ pc'[r] # "idle"
  BY DEF Passed, Elsewhere, RebuildPoints, SalePoints, SaleTasks
<1>2. QED
  BY <1>1 DEF Passed, Pending

\* One that goes on with a rebuild makes none but it pending, and it was before.
LEMMA RebuildPasses ==
  ASSUME IInv, NEW r \in Request,
         Command(r) \/ FindUser(r) \/ Prepare(r) \/ DeleteSales(r) \/ DeleteStore(r)
  PROVE  /\ Passed(r, RebuildPoints \cup {"done", "failed"}) /\ manages' = manages
         /\ \A p \in Request : Pending(p)' => Pending(p)
<1> DEFINE S == RebuildPoints \cup {"done", "failed"}
<1>0. /\ {"rebuilding", "preparing", "emptying", "deleting", "building", "done", "failed"} = S
      /\ "idle" \notin S /\ "done" \notin RebuildPoints /\ "failed" \notin RebuildPoints
  BY DEF RebuildPoints
<1>1. UNCHANGED <<manages, torn>>
  BY DEF Command, FindUser, Prepare, DeleteSales, DeleteStore, tables
<1>2. Passed(r, S)
  <2>1. CASE FindUser(r)
    <3>1. Remember(r, "found", manages # NoStore) /\ Goto(r, "preparing", <<DemoUser>>)
      BY <2>1 DEF FindUser
    <3>2. QED
      BY <1>0, <1>1, <3>1, PassedNoting
  <2>2. CASE ~ FindUser(r)
    <3>1. UNCHANGED memo
      BY <2>2 DEF Command, Prepare, DeleteSales, DeleteStore
    <3>2. \/ \E rows : Goto(r, "rebuilding", rows)
          \/ \E rows : Goto(r, "emptying", rows)
          \/ \E rows : Goto(r, "deleting", rows)
          \/ \E rows : Goto(r, "building", rows)
          \/ Finish(r, "done") \/ Finish(r, "failed")
      BY <2>2 DEF Command, Prepare, DeleteSales, DeleteStore, GotoIf
    <3>3. QED
      BY <1>0, <1>1, <3>1, <3>2, PassedNoting
  <2>3. QED
    BY <2>1, <2>2
<1>3. pc'[r] \in RebuildPoints => Pending(r)
  <2>1. CASE Command(r)
    <3>1. pc[r] = "idle" /\ task[r].kind = "seed"
      BY <2>1 DEF Command, At
    <3>2. manages # NoStore /\ ~ task[r].reset => pc'[r] = "done"
      BY <2>1, EndedBy DEF Command, IInv
    <3>3. QED
      BY <1>0, <3>1, <3>2 DEF Pending
  <2>2. CASE ~ Command(r)
    <3>1. pc[r] \in RebuildPoints
      BY <2>2 DEF FindUser, Prepare, DeleteSales, DeleteStore, At, RebuildPoints
    <3>2. QED
      BY <3>1 DEF Pending, IInv, ControlOf, PointOf
  <2>3. QED
    BY <2>1, <2>2
<1>4. ASSUME NEW p \in Request, Pending(p)'
      PROVE  Pending(p)
  <2>1. CASE p = r
    <3>1. pc'[r] \in S
      BY <1>2 DEF Passed
    <3>2. pc'[r] \in RebuildPoints
      BY <1>0, <1>4, <2>1, <3>1 DEF Pending
    <3>3. QED
      BY <1>3, <2>1, <3>2
  <2>2. CASE p # r
    BY <1>1, <1>2, <1>4, <2>2 DEF Passed, Pending
  <2>3. QED
    BY <2>1, <2>2
<1>5. QED
  BY <1>1, <1>2, <1>4
-----------------------------------------------------------------------------
(* What the commits leave to the reports *)

LEMMA TouchedOnly ==
  ASSUME IInv, RInv, NEW T, torn \subseteq torn', day' \in {day, day + 1},
         \A p \in Request : Pending(p)' => Pending(p),
         \A s : s \in T \/ Untouched(s),
         \A s \in T : \/ ReadersOf(s) \subseteq torn'
                      \/ \E p \in Request : Pending(p) /\ task[p].store = s,
         \A s \in DOMAIN stock' \ DOMAIN stock :
           \E p \in Request : Pending(p) /\ task[p].store = s,
         \A s \in T \cap DOMAIN stock' : Balance(s)',
         \A k \in DOMAIN sale' :
           k[1] \in T /\ sale'[k].status = "completed" => sale'[k].done \in 0..day
  PROVE  ReportFrame /\ DoneInv' /\ BalanceInv'
<1>1. day \in Nat /\ day <= day'
  BY Days DEF IInv, Types
<1>2. ReportFrame
  BY <1>1 DEF ReportFrame, LeftTo
<1>3. BalanceInv'
  <2>1. ASSUME NEW s \in DOMAIN stock', s \notin T
        PROVE  Balance(s)'
    <3>1. Untouched(s) /\ s \in DOMAIN stock
      BY <2>1 DEF Untouched
    <3>2. QED
      BY <3>1, BalanceStays DEF RInv, BalanceInv
  <2>2. QED
    BY <2>1 DEF BalanceInv
<1>4. DoneInv'
  <2>1. ASSUME NEW k \in DOMAIN sale', sale'[k].status = "completed"
        PROVE  sale'[k].done \in 0..day
    <3>1. CASE k[1] \in T
      BY <2>1, <3>1
    <3>2. CASE k[1] \notin T
      <4>1. k \in CompletedOf(k[1])'
        BY <2>1 DEF CompletedOf
      <4>2. k \in CompletedOf(k[1]) /\ Columns(sale'[k]) = Columns(sale[k])
        BY <3>2, <4>1 DEF Untouched
      <4>3. k \in DOMAIN sale /\ sale[k].status = "completed" /\ sale'[k].done = sale[k].done
        BY <4>2 DEF CompletedOf, Columns
      <4>4. QED
        BY <4>3 DEF RInv, DoneInv
    <3>3. QED
      BY <3>1, <3>2
  <2>2. QED
    BY <1>1, <2>1 DEF DoneInv
<1>5. QED
  BY <1>2, <1>3, <1>4

\* A step that writes no table but the dates of sales, movements, and drafts.
LEMMA UntouchedAll ==
  ASSUME IInv, RInv, torn \subseteq torn', day' \in {day, day + 1}, stock' = stock,
         \A p \in Request : Pending(p)' => Pending(p),
         \A k \in DOMAIN sale :
           /\ k \in DOMAIN sale' /\ sale'[k].status = sale[k].status
           /\ sale[k].status = "completed" => Columns(sale'[k]) = Columns(sale[k]),
         \A k \in DOMAIN sale' \ DOMAIN sale : sale'[k].status = "draft"
  PROVE  ReportFrame /\ DoneInv' /\ BalanceInv'
<1>1. \A s : Untouched(s)
  <2>1. ASSUME NEW s
        PROVE  Untouched(s)
    <3>1. CompletedOf(s)' = CompletedOf(s)
      BY DEF CompletedOf
    <3>2. \A k \in CompletedOf(s) : Columns(sale'[k]) = Columns(sale[k])
      BY DEF CompletedOf
    <3>3. QED
      BY <3>1, <3>2 DEF Untouched
  <2>2. QED
    BY <2>1
<1> DEFINE T == {}
<1>2. /\ \A s : s \in T \/ Untouched(s)
      /\ \A s \in T : \/ ReadersOf(s) \subseteq torn'
                      \/ \E p \in Request : Pending(p) /\ task[p].store = s
      /\ \A s \in DOMAIN stock' \ DOMAIN stock :
           \E p \in Request : Pending(p) /\ task[p].store = s
      /\ \A s \in T \cap DOMAIN stock' : Balance(s)'
      /\ \A k \in DOMAIN sale' :
           k[1] \in T /\ sale'[k].status = "completed" => sale'[k].done \in 0..day
  BY <1>1
<1> HIDE DEF T
<1>3. QED
  BY <1>2, TouchedOnly

LEMMA QuietReports ==
  ASSUME IInv, RInv, UNCHANGED <<sale, stock>>, torn \subseteq torn', day' \in {day, day + 1},
         \A p \in Request : Pending(p)' => Pending(p)
  PROVE  ReportFrame /\ DoneInv' /\ BalanceInv'
  BY UntouchedAll

LEMMA ShiftReports ==
  ASSUME IInv, RInv, NEW r \in Request, CommitShift(r)
  PROVE  ReportFrame /\ DoneInv' /\ BalanceInv'
<1>1. /\ UNCHANGED <<day, manages, stock, memo>> /\ DOMAIN sale' = DOMAIN sale
      /\ \A k \in DOMAIN sale :
           \/ sale'[k] = [sale[k] EXCEPT !.made = sale[k].made + memo[r].days]
           \/ sale'[k] = sale[k]
  BY ShiftEffect
<1>2. \A k \in DOMAIN sale : /\ sale'[k].status = sale[k].status
                             /\ Columns(sale'[k]) = Columns(sale[k])
  <2>1. ASSUME NEW row \in Sale, NEW n, NEW next, next = [row EXCEPT !.made = n]
        PROVE  next.status = row.status /\ Columns(next) = Columns(row)
    BY <2>1 DEF Sale, Columns
  <2>2. \A k \in DOMAIN sale : sale[k] \in Sale
    BY DEF IInv, Types, TypeOK
  <2>3. QED
    BY <1>1, <2>1, <2>2
<1>3. Passed(r, Elsewhere)
  BY LoginPasses
<1>4. \A p \in Request : Pending(p)' => Pending(p)
  BY <1>1, <1>3, NothingPending
<1>5. torn \subseteq torn'
  BY <1>3 DEF Passed
<1>6. QED
  BY <1>1, <1>2, <1>4, <1>5, UntouchedAll

LEMMA CreateReports ==
  ASSUME IInv, RInv, NEW r \in Request, CommitCreate(r)
  PROVE  ReportFrame /\ DoneInv' /\ BalanceInv'
<1>0. PICK k : k = task[r].sale
  OBVIOUS
<1> DEFINE row == [status |-> "draft", number |-> 0, channel |-> task[r].channel,
                   basket |-> Empty, made |-> day, done |-> Never]
<1>1. /\ At(r, "creating") /\ UNCHANGED <<day, manages, stock>>
      /\ sale' = Add(sale, k, row) \/ UNCHANGED sale
  BY <1>0 DEF CommitCreate
<1>2. k \notin DOMAIN sale
  BY <1>0, <1>1, AtHolds DEF IInv, ControlOf, PointOf, NewSaleOf, At
<1>3. row.status = "draft"
  OBVIOUS
<1> HIDE DEF row
<1>4. sale' = Add(sale, k, row) => Written(sale, sale', k, row)
  BY AddWrites
<1>5. /\ \A j \in DOMAIN sale : j \in DOMAIN sale' /\ sale'[j] = sale[j]
      /\ \A j \in DOMAIN sale' \ DOMAIN sale : sale'[j].status = "draft"
  BY <1>1, <1>2, <1>3, <1>4 DEF Written
<1>6. Passed(r, Elsewhere)
  BY SalePasses
<1>7. \A p \in Request : Pending(p)' => Pending(p)
  BY <1>1, <1>6, NothingPending
<1>8. torn \subseteq torn'
  BY <1>6 DEF Passed
<1>9. QED
  BY <1>1, <1>5, <1>7, <1>8, UntouchedAll

LEMMA ItemReports ==
  ASSUME IInv, RInv, NEW r \in Request, CommitItem(r)
  PROVE  ReportFrame /\ DoneInv' /\ BalanceInv'
<1>1. PICK k \in DOMAIN sale, row \in Sale :
        /\ sale[k].status = "draft" /\ row.status = "draft"
        /\ Written(sale, sale', k, row) /\ UNCHANGED <<day, manages, stock, torn>>
  BY ItemEffect
<1>2. /\ DOMAIN sale' = DOMAIN sale
      /\ \A j \in DOMAIN sale :
           /\ sale'[j].status = sale[j].status
           /\ sale[j].status = "completed" => sale'[j] = sale[j]
  BY <1>1 DEF Written
<1>3. \A p \in Request : Pending(p)' => Pending(p)
  BY <1>1, SalePasses, NothingPending
<1>4. QED
  BY <1>1, <1>2, <1>3, UntouchedAll

\* One sale of s is completed or cancelled, and the stock of s follows.
Settled(s, k) ==
  /\ s = k[1] /\ k \in DOMAIN sale /\ s \in DOMAIN stock
  /\ DOMAIN sale' = DOMAIN sale /\ \A j \in DOMAIN sale \ {k} : sale'[j] = sale[j]
  /\ DOMAIN stock' = DOMAIN stock /\ \A x \in DOMAIN stock \ {s} : stock'[x] = stock[x]
  /\ sale'[k].basket = sale[k].basket
  /\ \/ /\ sale[k].status = "draft" /\ sale'[k].status = "completed" /\ sale'[k].done = day
        /\ \A v \in Variant : stock'[s][v] = stock[s][v] - Units(sale[k], v)
     \/ /\ sale[k].status = "completed" /\ sale'[k].status = "cancelled"
        /\ \A v \in Variant : stock'[s][v] = stock[s][v] + Units(sale[k], v)

LEMMA SettledBalance ==
  ASSUME Types, NEW s, NEW k, Settled(s, k), Balance(s)
  PROVE  Balance(s)'
<1>1. PICK C : C = CompletedOf(s)
  OBVIOUS
<1>2. PICK D : D = CompletedOf(s)'
  OBVIOUS
<1>3. /\ C \subseteq DOMAIN sale /\ IsFiniteSet(C)
      /\ \A v \in Variant : /\ Taken(sale, C, v) \in Nat
                            /\ \A j \in C : Units(sale[j], v) \in Nat
  BY <1>1, TakenTypes
<1>4. \A j \in DOMAIN sale : sale'[j].basket = sale[j].basket
  BY DEF Settled
<1>5. \/ sale[k].status = "draft" /\ D = C \cup {k} /\ k \notin C
      \/ sale[k].status = "completed" /\ k \in C /\ D = C \ {k}
  BY <1>1, <1>2 DEF Settled, CompletedOf
<1>6. ASSUME NEW v \in Variant
      PROVE  stock'[s][v] + Taken(sale', D, v) = Opening[v]
  <2>1. /\ stock[s][v] \in Nat /\ stock[s][v] + Taken(sale, C, v) = Opening[v]
        /\ Units(sale[k], v) \in Nat /\ Taken(sale, C, v) \in Nat
    BY <1>1, <1>3, SaleUnits DEF Types, TypeOK, Balance, Settled
  <2>2. Taken(sale', D, v) = Taken(sale, D, v)
    <3>1. \A j \in D : sale'[j].basket = sale[j].basket
      BY <1>3, <1>4, <1>5 DEF Settled
    <3>2. QED
      BY <3>1, TakenSame
  <2>3. CASE sale[k].status = "draft"
    <3>1. D = C \cup {k} /\ k \notin C /\ D \ {k} = C /\ k \in D
      BY <1>5, <2>3
    <3>2. IsFiniteSet(D) /\ \A j \in D : Units(sale[j], v) \in Nat
      BY <1>3, <2>1, <3>1, FS_AddElement
    <3>3. Taken(sale, D, v) = Units(sale[k], v) + Taken(sale, C, v)
      BY <3>1, <3>2, TakenIs
    <3>4. stock'[s][v] = stock[s][v] - Units(sale[k], v)
      BY <2>3 DEF Settled
    <3>5. QED
      BY <2>1, <2>2, <3>3, <3>4
  <2>4. CASE sale[k].status = "completed"
    <3>1. k \in C /\ D = C \ {k}
      BY <1>5, <2>4
    <3>2. Taken(sale, C, v) = Units(sale[k], v) + Taken(sale, D, v)
      BY <1>3, <3>1, TakenIs
    <3>3. Taken(sale, D, v) \in Nat
      <4>1. IsFiniteSet(D) /\ \A j \in D : Units(sale[j], v) \in Nat
        BY <1>3, <3>1, FS_Subset
      <4>2. QED
        BY <4>1, TakenIs
    <3>4. stock'[s][v] = stock[s][v] + Units(sale[k], v)
      BY <2>4 DEF Settled
    <3>5. QED
      BY <2>1, <2>2, <3>2, <3>3, <3>4
  <2>5. QED
    BY <1>5, <2>3, <2>4
<1>7. QED
  BY <1>2, <1>6 DEF Balance, Taken, Units, CompletedOf

LEMMA SettledReports ==
  ASSUME IInv, RInv, NEW r \in Request, NEW s, NEW k, Settled(s, k), UNCHANGED <<day, manages>>,
         torn' = torn \cup ReadersOf(s), Passed(r, Elsewhere)
  PROVE  ReportFrame /\ DoneInv' /\ BalanceInv'
<1> DEFINE T == {s}
<1>1. \A p \in Request : Pending(p)' => Pending(p)
  BY NothingPending
<1>2. ASSUME NEW x, x # s
      PROVE  Untouched(x)
  <2>1. CompletedOf(x)' = CompletedOf(x)
    BY <1>2 DEF Settled, CompletedOf
  <2>2. \A j \in CompletedOf(x) : sale'[j] = sale[j]
    BY <1>2 DEF Settled, CompletedOf
  <2>3. x \in DOMAIN stock => stock'[x] = stock[x]
    BY <1>2 DEF Settled
  <2>4. QED
    BY <2>1, <2>2, <2>3 DEF Untouched, Settled
<1>3. s \in DOMAIN stock /\ Balance(s)'
  BY SettledBalance DEF Settled, IInv, RInv, BalanceInv
<1>4. day \in Nat /\ \A j \in DOMAIN sale' :
        j[1] = s /\ sale'[j].status = "completed" => sale'[j].done \in 0..day
  <2>1. day \in Nat
    BY Days DEF IInv, Types
  <2>2. ASSUME NEW j \in DOMAIN sale', sale'[j].status = "completed"
        PROVE  sale'[j].done \in 0..day
    <3>1. CASE j = k
      BY <2>1, <2>2, <3>1 DEF Settled
    <3>2. CASE j # k
      BY <2>2, <3>2 DEF Settled, RInv, DoneInv
    <3>3. QED
      BY <3>1, <3>2
  <2>3. QED
    BY <2>1, <2>2
<1>5. /\ \A x : x \in T \/ Untouched(x)
      /\ \A x \in T : ReadersOf(x) \subseteq torn'
      /\ DOMAIN stock' \ DOMAIN stock = {}
      /\ \A x \in T \cap DOMAIN stock' : Balance(x)'
  BY <1>2, <1>3 DEF Settled
<1>6. torn \subseteq torn' /\ day' \in {day, day + 1}
  OBVIOUS
<1>7. \A j \in DOMAIN sale' :
        j[1] \in T /\ sale'[j].status = "completed" => sale'[j].done \in 0..day
  BY <1>4
<1> HIDE DEF T
<1>8. QED
  BY <1>1, <1>5, <1>6, <1>7, TouchedOnly

LEMMA CompleteReports ==
  ASSUME IInv, RInv, NEW r \in Request, CommitComplete(r)
  PROVE  ReportFrame /\ DoneInv' /\ BalanceInv' /\ Passed(r, Elsewhere)
<1>0. PICK k, s : k = task[r].sale /\ s = k[1]
  OBVIOUS
<1>1. PICK n : n = 1 + Max({0} \cup {sale[j].number : j \in SalesOf(s)})
  OBVIOUS
<1>2. PICK row, left :
        /\ row = [sale[k] EXCEPT !.status = "completed", !.number = n, !.done = day]
        /\ left = [v \in Variant |-> stock[s][v] - Units(sale[k], v)]
  OBVIOUS
<1>3. /\ At(r, "numbering") /\ Finish(r, "done") /\ UNCHANGED <<day, manages, memo>>
      /\ torn' = torn \cup ReadersOf(s)
  <2>1. /\ At(r, "numbering") /\ Finish(r, "done") /\ UNCHANGED <<day, manages, memo>>
        /\ torn' = torn \cup ReadersOf(task[r].sale[1])
    BY Zenon DEF CommitComplete
  <2>2. QED
    BY <1>0, <2>1
<1>4. pc[r] = "numbering" /\ k \in DOMAIN sale /\ sale[k].status = "draft"
  BY <1>0, <1>3, AtHolds DEF IInv, ControlOf, SaleOf
<1>5. TypeOK /\ s \in DOMAIN stock /\ sale[k] \in Sale
  BY <1>0, <1>4 DEF IInv, Types, NothingDangles, TypeOK
<1>6. sale' = [sale EXCEPT ![k] = row] /\ stock' = [stock EXCEPT ![s] = left]
  BY <1>0, <1>1, <1>2, <1>4, <1>5 DEF CommitComplete
<1>7. row.status = "completed" /\ row.done = day /\ row.basket = sale[k].basket
  BY <1>2, <1>5 DEF Sale
<1>8. Settled(s, k)
  BY <1>0, <1>2, <1>4, <1>5, <1>6, <1>7 DEF Settled
<1>9. Passed(r, Elsewhere)
  <2>1. OthersRest(r) /\ pc'[r] = "done"
    BY <1>3, EndedBy DEF IInv
  <2>2. QED
    BY <1>3, <2>1 DEF Passed, Elsewhere, OthersRest
<1>10. QED
  BY <1>3, <1>8, <1>9, SettledReports

LEMMA CancelReports ==
  ASSUME IInv, RInv, NEW r \in Request, CommitCancel(r)
  PROVE  ReportFrame /\ DoneInv' /\ BalanceInv' /\ Passed(r, Elsewhere)
<1>0. PICK k, s : k = task[r].sale /\ s = k[1]
  OBVIOUS
<1>2. PICK row, left :
        /\ row = [sale[k] EXCEPT !.status = "cancelled"]
        /\ left = [v \in Variant |-> stock[s][v] + Units(sale[k], v)]
  OBVIOUS
<1>3. /\ At(r, "restocking") /\ Finish(r, "done") /\ UNCHANGED <<day, manages, memo>>
      /\ torn' = torn \cup ReadersOf(s)
  BY <1>0 DEF CommitCancel
<1>4. pc[r] = "restocking" /\ k \in DOMAIN sale /\ sale[k].status = "completed"
  BY <1>0, <1>3, AtHolds DEF IInv, ControlOf, SaleOf
<1>5. TypeOK /\ s \in DOMAIN stock /\ sale[k] \in Sale
  BY <1>0, <1>4 DEF IInv, Types, NothingDangles, TypeOK
<1>6. sale' = [sale EXCEPT ![k] = row] /\ stock' = [stock EXCEPT ![s] = left]
  BY <1>0, <1>2, <1>4, <1>5 DEF CommitCancel
<1>7. row.status = "cancelled" /\ row.basket = sale[k].basket
  BY <1>2, <1>5 DEF Sale
<1>8. Settled(s, k)
  BY <1>0, <1>2, <1>4, <1>5, <1>6, <1>7 DEF Settled
<1>9. Passed(r, Elsewhere)
  <2>1. OthersRest(r) /\ pc'[r] = "done"
    BY <1>3, EndedBy DEF IInv
  <2>2. QED
    BY <1>3, <2>1 DEF Passed, Elsewhere, OthersRest
<1>10. QED
  BY <1>3, <1>8, <1>9, SettledReports

\* The stock of a store that begins with the sales f.
LEMMA FirstBalance ==
  ASSUME NEW f, IsFiniteSet(DOMAIN f), \A k \in DOMAIN f : f[k] \in Sale, NEW v \in Variant
  PROVE  StockAfter(f)[v]
           + Taken(f, {k \in DOMAIN f : f[k].status = "completed"}, v) = Opening[v]
<1>1. PICK C : C = {k \in DOMAIN f : f[k].status = "completed"}
  OBVIOUS
<1>2. IsFiniteSet(C) /\ \A k \in C : f[k] \in Sale
  BY <1>1, FS_Subset
<1>3. StockAfter(f)[v] + Taken(f, C, v) = Opening[v]
  BY <1>1, <1>2, StockAfterIs
<1>4. QED
  BY <1>1, <1>3

LEMMA SeedReports ==
  ASSUME IInv, RInv, NEW r \in Request, CommitSeed(r)
  PROVE  ReportFrame /\ DoneInv' /\ BalanceInv' /\ Passed(r, Elsewhere)
<1>0. PICK s, fresh : /\ s = task[r].store /\ fresh = SeedSales(s, day)
                      /\ Rebuilt(r, s, fresh)
  BY SeedEffect
<1>1. /\ s \in Store \ {Shop} /\ s \notin DOMAIN stock
      /\ manages' = s /\ UNCHANGED <<day, memo>> /\ Finish(r, "done")
      /\ DOMAIN sale' = DOMAIN fresh \cup {k \in DOMAIN sale : k[1] # manages}
      /\ \A k \in DOMAIN fresh : k \notin DOMAIN sale /\ sale'[k] = fresh[k]
      /\ \A k \in DOMAIN sale : k[1] # manages => sale'[k] = sale[k]
      /\ DOMAIN stock' = (DOMAIN stock \ {manages}) \cup {s}
      /\ \A x \in DOMAIN stock \ {manages} : stock'[x] = stock[x]
  BY <1>0 DEF Rebuilt
<1>2. torn' = torn \cup ReadersOf(manages) /\ stock'[s] = StockAfter(fresh) /\ pc[r] = "building"
  BY <1>0 DEF CommitSeed, Add, At
<1>3. Types /\ day \in FirstDay..LastDay /\ day \in Nat /\ NoStore \notin Store
      /\ NothingDangles
  BY Days, DemoAssumption DEF IInv, Types, TypeOK
<1>4. /\ IsFiniteSet(DOMAIN fresh)
      /\ \A k \in DOMAIN fresh : k[1] = s /\ fresh[k] \in Sale
  BY <1>0, <1>1, <1>3, SeedSalesAre
<1>5. task[r].kind = "seed" /\ Pending(r)
  <2>1. task[r].kind = "seed"
    BY <1>2 DEF IInv, ControlOf, PointOf, RebuildPoints
  <2>2. QED
    BY <1>2, <2>1 DEF Pending, RebuildPoints
<1>6. Passed(r, Elsewhere)
  <2>1. OthersRest(r) /\ pc'[r] = "done"
    BY <1>1, EndedBy DEF IInv
  <2>2. QED
    BY <1>1, <1>2, <2>1 DEF Passed, Elsewhere, OthersRest
<1>7. \A p \in Request : Pending(p)' => Pending(p)
  BY <1>1, <1>3, <1>6, NothingPending
<1> DEFINE T == {manages, s}
<1>8. ASSUME NEW x, x \notin T
      PROVE  Untouched(x)
  <2>1. CompletedOf(x)' = CompletedOf(x)
    BY <1>1, <1>4, <1>8 DEF CompletedOf
  <2>2. \A j \in CompletedOf(x) : sale'[j] = sale[j]
    BY <1>1, <1>8 DEF CompletedOf
  <2>3. QED
    BY <1>1, <1>8, <2>1, <2>2 DEF Untouched
<1>9. \A k \in DOMAIN sale' : k[1] = s => k \in DOMAIN fresh
  BY <1>1, <1>3 DEF NothingDangles
<1>10. Balance(s)'
  <2>1. PICK C : C = {k \in DOMAIN fresh : fresh[k].status = "completed"}
    OBVIOUS
  <2>2. CompletedOf(s)' = C
    BY <1>1, <1>4, <1>9, <2>1 DEF CompletedOf
  <2>3. ASSUME NEW v \in Variant
        PROVE  stock'[s][v] + Taken(sale', C, v) = Opening[v]
    <3>1. Taken(sale', C, v) = Taken(fresh, C, v)
      BY <1>1, <2>1, TakenSame
    <3>2. StockAfter(fresh)[v] + Taken(fresh, C, v) = Opening[v]
      BY <1>4, <2>1, FirstBalance
    <3>3. QED
      BY <1>2, <3>1, <3>2
  <2>4. QED
    BY <2>2, <2>3 DEF Balance, Taken, Units, CompletedOf
<1>11. /\ \A k \in DOMAIN sale' :
            k[1] \in T /\ sale'[k].status = "completed" => sale'[k].done \in 0..day
       /\ \A x \in T \cap DOMAIN stock' : Balance(x)'
  <2>1. manages \notin DOMAIN stock'
    BY <1>1, <1>3 DEF NothingDangles
  <2>2. \A k \in DOMAIN sale' : k[1] # manages
    BY <1>1, <1>3, <1>4 DEF NothingDangles
  <2>3. ASSUME NEW k \in DOMAIN fresh, fresh[k].status = "completed"
        PROVE  fresh[k].done = day
    <3>1. k[2] \in DOMAIN SaleSpecs /\ fresh[k] = SeedSale(k[2], day)
      BY <1>0 DEF SeedSales
    <3>2. QED
      BY <2>3, <3>1 DEF SeedSale
  <2>4. QED
    BY <1>1, <1>3, <1>9, <1>10, <2>1, <2>2, <2>3
<1>12. /\ \A x : x \in T \/ Untouched(x)
       /\ \A x \in T : \/ ReadersOf(x) \subseteq torn'
                       \/ \E p \in Request : Pending(p) /\ task[p].store = x
       /\ \A x \in DOMAIN stock' \ DOMAIN stock :
            \E p \in Request : Pending(p) /\ task[p].store = x
       /\ torn \subseteq torn' /\ day' \in {day, day + 1}
  BY <1>0, <1>1, <1>2, <1>5, <1>8
<1> HIDE DEF T
<1>13. ReportFrame /\ DoneInv' /\ BalanceInv'
  BY <1>7, <1>11, <1>12, TouchedOnly
<1>14. QED
  BY <1>6, <1>13
-----------------------------------------------------------------------------
(* The steps of a report *)

LEMMA NowIs ==
  ASSUME Types, DoneInv, BalanceInv, NEW s \in Store, NEW from \in Int, NEW to \in Int,
         NEW F, F = Snapshot(s, from, to)
  PROVE  /\ Found(F, from, to)
         /\ from = 0 /\ day <= to /\ s \in DOMAIN stock => Balanced(F)
<1>1. PICK K : K = {j \in CompletedOf(s) : sale[j].done \in from..to}
  OBVIOUS
<1>2. /\ F.sales = [k \in K |-> Columns(sale[k])]
      /\ F.stock = IF s \in DOMAIN stock THEN stock[s] ELSE << >>
  BY <1>1, SnapshotIs
<1>3. K \subseteq CompletedOf(s) /\ K \subseteq DOMAIN sale /\ IsFiniteSet(K)
  BY <1>1, TakenTypes, FS_Subset
<1>4. DOMAIN F.sales = K
      /\ \A k \in K : /\ F.sales[k].channel = sale[k].channel
                      /\ F.sales[k].basket = sale[k].basket
                      /\ F.sales[k].done = sale[k].done
  BY <1>2 DEF Columns
<1>5. Found(F, from, to)
  BY <1>1, <1>3, <1>4, SaleFields DEF Found, Types
<1>6. ASSUME from = 0, day <= to, s \in DOMAIN stock
      PROVE  Balanced(F)
  <2>1. K = CompletedOf(s)
    <3>1. day \in Nat
      BY Days DEF Types
    <3>2. \A j \in CompletedOf(s) : sale[j].done \in 0..day
      BY DEF DoneInv, CompletedOf
    <3>3. \A j \in CompletedOf(s) : sale[j].done \in from..to
      BY <1>6, <3>1, <3>2
    <3>4. QED
      BY <1>1, <3>3
  <2>2. F.stock = stock[s] /\ stock[s] \in [Variant -> Nat]
    BY <1>2, <1>6 DEF Types, TypeOK
  <2>3. \A v \in Variant : Taken(F.sales, K, v) = Taken(sale, K, v)
    BY <1>4, TakenSame
  <2>4. \A v \in Variant : stock[s][v] + Taken(sale, K, v) = Opening[v]
    BY <1>6, <2>1 DEF BalanceInv, Balance
  <2>5. QED
    BY <1>4, <2>2, <2>3, <2>4 DEF Balanced
<1>7. QED
  BY <1>5, <1>6

LEMMA QueryFields ==
  ASSUME task \in Traffic, NEW r \in Request, IsReport(r)
  PROVE  /\ task[r].store \in Store
         /\ task[r].from \in Nat \cup {Today} /\ task[r].to \in Nat \cup {Today}
<1>1. task[r] \in Operation
  BY DemoAssumption
<1>2. QED
  BY <1>1 DEF Operation, Query, IsReport

LEMMA HeadAndTail ==
  ASSUME NEW S, NEW l \in Seq(S), l # << >>
  PROVE  /\ Head(l) \in S /\ Tail(l) \in Seq(S)
         /\ {l[i] : i \in DOMAIN l} = {Head(l)} \cup {Tail(l)[i] : i \in DOMAIN Tail(l)}
<1>1. /\ Len(l) \in Nat \ {0} /\ DOMAIN l = 1..Len(l) /\ Head(l) = l[1] /\ l[1] \in S
      /\ Tail(l) \in Seq(S) /\ Len(Tail(l)) = Len(l) - 1
      /\ DOMAIN Tail(l) = 1..(Len(l) - 1)
      /\ \A i \in 1..(Len(l) - 1) : Tail(l)[i] = l[i + 1]
  OBVIOUS
<1>2. \A i \in 1..Len(l) : i = 1 \/ (i - 1 \in 1..(Len(l) - 1) /\ (i - 1) + 1 = i)
  BY <1>1
<1>3. \A i \in 1..(Len(l) - 1) : i + 1 \in 1..Len(l)
  BY <1>1
<1>4. ASSUME NEW i \in DOMAIN l
      PROVE  l[i] = Head(l) \/ \E j \in DOMAIN Tail(l) : l[i] = Tail(l)[j]
  <2>1. i = 1 \/ (i - 1 \in DOMAIN Tail(l) /\ l[i] = Tail(l)[i - 1])
    BY <1>1, <1>2
  <2>2. QED
    BY <1>1, <2>1
<1>5. QED
  BY <1>1, <1>3, <1>4

LEMMA QueryPasses ==
  ASSUME IInv, NEW r \in Request, Ask(r) \/ ReadSection(r)
  PROVE  Passed(r, Elsewhere)
<1>1. DOMAIN pc = Request /\ DOMAIN memo = Request
  BY DEF IInv, Locks, LocksInv, Types, MemoOK
<1>2. {"reading", "done", "failed"} \subseteq Elsewhere
  BY DEF Elsewhere
<1>3. /\ task' = task /\ torn' = torn
      /\ \/ \E where \in {"reading", "done", "failed"} : pc' = [pc EXCEPT ![r] = where]
         \/ pc' = pc /\ pc[r] = "reading"
      /\ \A q \in Request \ {r} : memo'[q] = memo[q]
  <2>1. CASE Ask(r)
    BY <1>1, <2>1 DEF Ask, GotoIf, Goto, Finish
  <2>2. CASE ReadSection(r)
    BY <1>1, <2>2 DEF ReadSection, Finish, transaction, At
  <2>3. QED
    BY <2>1, <2>2
<1>4. QED
  BY <1>1, <1>2, <1>3 DEF Passed

LEMMA AskReads ==
  ASSUME IInv, RInv, NEW r \in Request, IsReport(r), Ask(r)
  PROVE  ReaderOf(r)'
<1>1. DOMAIN pc = Request /\ DOMAIN memo = Request /\ DOMAIN memo[r] = Fields
      /\ task \in Traffic /\ Types
  BY DEF IInv, Locks, LocksInv, Types, MemoOK
<1>2. /\ pc[r] = "idle" /\ memo[r].answer = << >>
  BY DEF RInv, ReaderOf, Ask, At
<1>3. PICK t, from, to : /\ t = task[r] /\ from = DateFrom(t, day) /\ to = DateTo(t, day)
  OBVIOUS
<1>4. /\ task' = task /\ UNCHANGED <<day, tables, torn>>
      /\ \/ pc' = [pc EXCEPT ![r] = "failed"]
         \/ pc' = [pc EXCEPT ![r] = "reading"] /\ t.store \in DOMAIN stock
  BY <1>3 DEF Ask, GotoIf, Goto, Finish
<1>5. memo' = [memo EXCEPT ![r].store = t.store, ![r].left = Sections(t.kind),
                           ![r].from = from, ![r].to = to]
  BY <1>3 DEF Ask
<1>6. /\ \A q \in Request \ {r} : memo'[q] = memo[q]
      /\ memo'[r].store = t.store /\ memo'[r].left = Sections(t.kind)
      /\ memo'[r].from = from /\ memo'[r].to = to /\ memo'[r].answer = << >>
  BY <1>1, <1>2, <1>5 DEF Fields
<1>8. ASSUME pc'[r] = "failed"
      PROVE  ReaderOf(r)'
  BY <1>8 DEF ReaderOf
<1>9. ASSUME pc'[r] = "reading", t.store \in DOMAIN stock
      PROVE  ReaderOf(r)'
  <2>1. from \in Int /\ to \in Int /\ t.store \in Store
    <3>1. day \in Nat /\ ReportSpan \in Nat
      BY <1>1, Days, ReportAssumption DEF Types
    <3>2. /\ t.store \in Store
          /\ t.from \in Nat \cup {Today} /\ t.to \in Nat \cup {Today}
      BY <1>1, <1>3, QueryFields
    <3>3. to \in Nat
      BY <1>3, <3>1, <3>2 DEF DateTo
    <3>4. QED
      BY <1>3, <3>1, <3>2, <3>3 DEF DateFrom
  <2>2. ASSUME NEW p \in Request, Pending(p)'
        PROVE  task'[p].store # t.store
    <3>1. Pending(p)
      <4>1. manages' = manages /\ (p # r => pc'[p] = pc[p])
        BY <1>1, <1>4 DEF tables
      <4>2. p # r
        BY <1>9, <2>2 DEF Pending, RebuildPoints
      <4>3. QED
        BY <1>4, <2>2, <4>1, <4>2 DEF Pending
    <3>2. NewStoreOf(p)
      BY DEF IInv, ControlOf
    <3>3. task[p].store \notin DOMAIN stock
      BY <3>1, <3>2 DEF Pending, NewStoreOf
    <3>4. QED
      BY <1>4, <1>9, <3>3
  <2>3. StoreOf(r)'
    BY <1>6, <2>1, <2>2 DEF StoreOf
  <2>4. /\ memo'[r].left \in Seq(ReportNames) /\ memo'[r].left # << >>
        /\ {memo'[r].left[i] : i \in DOMAIN memo'[r].left} = ReportNames
    <3> DEFINE l == <<"totals", "items", "daily", "channels", "products",
                      "inventory", "low", "out">>
    <3>1. memo'[r].left = l
      BY <1>3, <1>6 DEF Sections, IsReport
    <3>2. l \in Seq(ReportNames) /\ l # << >> /\ DOMAIN l = 1..8
      BY DEF ReportNames
    <3>3. {l[i] : i \in 1..8} = ReportNames
      <4>1. /\ l[1] = "totals" /\ l[2] = "items" /\ l[3] = "daily" /\ l[4] = "channels"
            /\ l[5] = "products" /\ l[6] = "inventory" /\ l[7] = "low" /\ l[8] = "out"
        OBVIOUS
      <4>2. \A i \in 1..8 : i \in {1, 2, 3, 4, 5, 6, 7, 8}
        OBVIOUS
      <4> HIDE DEF l
      <4>3. \A i \in 1..8 : l[i] \in ReportNames
        BY <4>1, <4>2 DEF ReportNames
      <4>4. \A n \in ReportNames : \E i \in 1..8 : n = l[i]
        BY <4>1 DEF ReportNames
      <4>5. QED
        BY <4>3, <4>4
    <3> HIDE DEF l
    <3>4. QED
      BY <3>1, <3>2, <3>3
  <2>5. DOMAIN memo'[r].answer = {}
    BY <1>6
  <2>6. QED
    BY <1>9, <2>3, <2>4, <2>5 DEF ReaderOf
<1>10. QED
  BY <1>1, <1>4, <1>8, <1>9

LEMMA ReadSectionReads ==
  ASSUME IInv, RInv, NEW r \in Request, IsReport(r), ReadSection(r)
  PROVE  ReaderOf(r)'
<1>1. DOMAIN pc = Request /\ DOMAIN memo = Request /\ DOMAIN memo[r] = Fields /\ Types
      /\ DoneInv /\ BalanceInv
  BY DEF IInv, RInv, Locks, LocksInv, Types, MemoOK
<1>2. PICK m, l, name, F : m = memo[r] /\ l = m.left /\ name = Head(l) /\ F = Now(r)
  OBVIOUS
<1>3. /\ pc[r] = "reading" /\ UNCHANGED <<day, tables, torn>> /\ task' = task
      /\ memo' = [memo EXCEPT ![r].left = Tail(l), ![r].answer = Add(m.answer, name, F)]
      /\ IF Tail(l) = << >> THEN pc' = [pc EXCEPT ![r] = "done"] ELSE pc' = pc
  BY <1>2 DEF ReadSection, Finish, transaction, At, Now
<1>4. /\ \A q \in Request \ {r} : memo'[q] = memo[q]
      /\ memo'[r].left = Tail(l) /\ memo'[r].answer = Add(m.answer, name, F)
      /\ memo'[r].store = m.store /\ memo'[r].from = m.from /\ memo'[r].to = m.to
  BY <1>1, <1>2, <1>3 DEF Fields
<1>5. /\ StoreOf(r) /\ l \in Seq(ReportNames) /\ l # << >>
      /\ DOMAIN m.answer \cup {l[i] : i \in DOMAIN l} = ReportNames
      /\ r \notin torn => \A n \in DOMAIN m.answer : m.answer[n] = F
  BY <1>2, <1>3 DEF RInv, ReaderOf
<1>7. /\ DOMAIN memo'[r].answer = DOMAIN m.answer \cup {name}
      /\ memo'[r].answer[name] = F
      /\ \A n \in DOMAIN m.answer \ {name} : memo'[r].answer[n] = m.answer[n]
  BY <1>4 DEF Add
<1>8. StoreOf(r)'
  <2>1. \A p \in Request : Pending(p)' => Pending(p)
    <3>1. manages' = manages /\ \A p \in Request : p # r => pc'[p] = pc[p]
      BY <1>1, <1>3 DEF tables
    <3>2. ~ Pending(r)'
      BY <1>1, <1>3 DEF Pending, RebuildPoints
    <3>3. QED
      BY <1>3, <3>1, <3>2 DEF Pending
  <2>2. QED
    BY <1>2, <1>3, <1>4, <1>5, <2>1 DEF StoreOf
<1>9. /\ Tail(l) \in Seq(ReportNames) /\ name \in ReportNames
      /\ {l[i] : i \in DOMAIN l} = {name} \cup {Tail(l)[i] : i \in DOMAIN Tail(l)}
  <2>1. l \in Seq(ReportNames) /\ l # << >> /\ name = Head(l)
    BY <1>2, <1>5
  <2>2. /\ Head(l) \in ReportNames /\ Tail(l) \in Seq(ReportNames)
        /\ {l[i] : i \in DOMAIN l} = {Head(l)} \cup {Tail(l)[i] : i \in DOMAIN Tail(l)}
    BY <2>1, HeadAndTail
  <2>3. QED
    BY <2>1, <2>2
<1>10. DOMAIN memo'[r].answer \cup {memo'[r].left[i] : i \in DOMAIN memo'[r].left}
         = ReportNames
  <2>1. PICK R : R = {Tail(l)[i] : i \in DOMAIN Tail(l)}
    OBVIOUS
  <2>2. {memo'[r].left[i] : i \in DOMAIN memo'[r].left} = R
    BY <1>4, <2>1
  <2>3. QED
    BY <1>5, <1>7, <1>9, <2>1, <2>2
<1>11. r \notin torn' => \A n \in DOMAIN memo'[r].answer : memo'[r].answer[n] = F
  BY <1>3, <1>5, <1>7
<1>12. F = Snapshot(m.store, m.from, m.to) /\ UNCHANGED <<sale, stock>>
  BY <1>2, <1>3 DEF Now, tables
<1>13. ASSUME Tail(l) # << >>
       PROVE  ReaderOf(r)'
  <2>1. Now(r)' = F
    <3>1. Snapshot(m.store, m.from, m.to)' = Snapshot(m.store, m.from, m.to)
      BY <1>12 DEF Snapshot, Completed, SalesOf, Columns
    <3>2. QED
      BY <1>4, <1>12, <3>1 DEF Now, Snapshot, SalesOf
  <2>2. pc'[r] = "reading"
    BY <1>3, <1>13
  <2>3. QED
    BY <1>4, <1>8, <1>9, <1>10, <1>11, <1>13, <2>1, <2>2 DEF ReaderOf
<1>14. ASSUME Tail(l) = << >>
       PROVE  ReaderOf(r)'
  <2>1. pc'[r] = "done"
    BY <1>1, <1>3, <1>14
  <2>2. DOMAIN memo'[r].answer = ReportNames
    <3>1. {memo'[r].left[i] : i \in DOMAIN memo'[r].left} = {}
      BY <1>4, <1>14
    <3>2. QED
      BY <1>10, <3>1
  <2>3. /\ Found(F, m.from, m.to)
        /\ m.from = 0 /\ day <= m.to /\ m.store \in DOMAIN stock => Balanced(F)
    <3>1. m.from \in Int /\ m.to \in Int /\ m.store \in Store
      BY <1>2, <1>5 DEF StoreOf
    <3>2. QED
      BY <1>1, <1>12, <3>1, NowIs
  <2>4. ASSUME r \notin torn'
        PROVE  AnswerOf(r)'
    <3>1. \A n \in ReportNames : memo'[r].answer[n] = F
      BY <1>11, <2>2, <2>4
    <3>2. memo'[r].answer["totals"] = F
      BY <3>1 DEF ReportNames
    <3>3. /\ Found(F, memo'[r].from, memo'[r].to)
          /\ memo'[r].from = 0 /\ day' <= memo'[r].to /\ memo'[r].store \in DOMAIN stock'
               => Balanced(F)
      BY <1>3, <1>4, <1>12, <2>3
    <3>4. QED
      BY <3>1, <3>2, <3>3 DEF AnswerOf, Found, Balanced
  <2>5. QED
    BY <1>8, <2>1, <2>2, <2>4 DEF ReaderOf
<1>15. QED
  BY <1>13, <1>14

-----------------------------------------------------------------------------
(* What reports have found, always *)

LEMMA NotReport ==
  ASSUME RInv, NEW r \in Request,
         \/ LogIn(r) \/ Refresh(r) \/ CommitShift(r) \/ IssueToken(r)
         \/ Command(r) \/ FindUser(r) \/ Prepare(r)
         \/ DeleteSales(r) \/ DeleteStore(r) \/ CommitSeed(r)
         \/ Create(r) \/ CommitCreate(r) \/ AddItem(r) \/ CommitItem(r)
         \/ TakeSale(r) \/ Complete(r) \/ ValidateStock(r) \/ CommitComplete(r)
         \/ Cancel(r) \/ CommitCancel(r)
  PROVE  ~ IsReport(r)
<1>1. \/ /\ pc[r] = "idle"
         /\ task[r].kind \in {"login", "seed", "create", "add", "complete", "cancel"}
      \/ pc[r] \notin {"idle", "reading", "done", "failed"}
  <2>1. CASE LogIn(r) \/ Refresh(r) \/ CommitShift(r) \/ IssueToken(r)
    BY <2>1 DEF LogIn, Refresh, CommitShift, IssueToken, At
  <2>2. CASE Command(r) \/ FindUser(r) \/ Prepare(r)
    BY <2>2 DEF Command, FindUser, Prepare, At
  <2>3. CASE DeleteSales(r) \/ DeleteStore(r) \/ CommitSeed(r)
    BY <2>3 DEF DeleteSales, DeleteStore, CommitSeed, At
  <2>4. CASE Create(r) \/ CommitCreate(r) \/ AddItem(r) \/ CommitItem(r) \/ TakeSale(r)
    BY <2>4 DEF Create, CommitCreate, AddItem, CommitItem, TakeSale, At
  <2>5. CASE Complete(r) \/ ValidateStock(r) \/ CommitComplete(r)
    <3>1. Complete(r) => pc[r] = "complete"
      BY DEF Complete, At
    <3>2. ValidateStock(r) => pc[r] = "checking"
      BY DEF ValidateStock, At
    <3>3. CommitComplete(r) => pc[r] = "numbering"
      BY Zenon DEF CommitComplete, At
    <3>4. QED
      BY <2>5, <3>1, <3>2, <3>3
  <2>6. CASE Cancel(r) \/ CommitCancel(r)
    BY <2>6 DEF Cancel, CommitCancel, At
  <2>7. QED
    BY <2>1, <2>2, <2>3, <2>4, <2>5, <2>6
<1>2. IsReport(r) => task[r].kind = "report" /\ pc[r] \in {"idle", "reading", "done", "failed"}
  BY DEF RInv, IsReport, ReaderOf
<1>3. QED
  BY <1>1, <1>2

LEMMA ReportsStay ==
  ASSUME IInv, RInv, NEW r \in Request, NEW S, Passed(r, S),
         ReportFrame, DoneInv', BalanceInv', IsReport(r) => ReaderOf(r)'
  PROVE  RInv'
<1>1. task' = task /\ \A q \in Request \ {r} : pc'[q] = pc[q] /\ memo'[q] = memo[q]
  BY DEF Passed
<1>2. Types
  BY DEF IInv
<1>3. ASSUME NEW q \in Request, IsReport(q)
      PROVE  ReaderOf(q)'
  <2>1. CASE q = r
    BY <1>3, <2>1
  <2>2. CASE q # r
    BY <1>1, <1>2, <1>3, <2>2, ReaderStays
  <2>3. QED
    BY <2>1, <2>2
<1>4. QED
  BY <1>1, <1>3 DEF RInv, IsReport

\* A step that moves no request and leaves the tables.
LEMMA NothingRead ==
  ASSUME IInv, RInv, UNCHANGED <<task, pc, memo, torn, tables>>, day' \in {day, day + 1}
  PROVE  RInv'
<1>1. \A p \in Request : Pending(p)' => Pending(p)
  BY DEF Pending, tables
<1>2. ReportFrame /\ DoneInv' /\ BalanceInv'
  <2>1. UNCHANGED <<sale, stock>> /\ torn \subseteq torn'
    BY DEF tables
  <2>2. QED
    BY <1>1, <2>1, QuietReports
<1>3. Types
  BY DEF IInv
<1>4. ASSUME NEW q \in Request, IsReport(q)
      PROVE  ReaderOf(q)'
  BY <1>2, <1>3, <1>4, ReaderStays
<1>5. QED
  BY <1>2, <1>4 DEF RInv, IsReport

\* One of a request that reads no report and leaves the tables.
LEMMA QuietPass ==
  ASSUME IInv, RInv, NEW r \in Request, NEW S, Passed(r, S), UNCHANGED <<day, sale, stock>>,
         \A p \in Request : Pending(p)' => Pending(p), IsReport(r) => ReaderOf(r)'
  PROVE  RInv'
<1>1. torn \subseteq torn' /\ day' \in {day, day + 1}
  BY DEF Passed
<1>2. ReportFrame /\ DoneInv' /\ BalanceInv'
  BY <1>1, QuietReports
<1>3. QED
  BY <1>2, ReportsStay

LEMMA HandleReports ==
  ASSUME IInv, RInv, NEW r \in Request, Handle(r)
  PROVE  RInv'
<1>1. CASE Acquire(r) /\ UNCHANGED <<day, tables, memo, torn>>
  BY <1>1, NothingRead DEF Acquire
<1>2. CASE LogIn(r) \/ Refresh(r) \/ IssueToken(r)
  <2>1. UNCHANGED <<day, sale, stock>>
    BY <1>2 DEF LogIn, Refresh, IssueToken, tables
  <2>2. Passed(r, Elsewhere) /\ manages' = manages
    BY <1>2, LoginPasses
  <2>3. QED
    BY <1>2, <2>1, <2>2, NothingPending, NotReport, QuietPass
<1>3. CASE CommitShift(r)
  BY <1>3, LoginPasses, ShiftReports, NotReport, ReportsStay
<1>4. CASE Command(r) \/ FindUser(r) \/ Prepare(r) \/ DeleteSales(r) \/ DeleteStore(r)
  <2>1. UNCHANGED <<day, sale, stock>>
    BY <1>4 DEF Command, FindUser, Prepare, DeleteSales, DeleteStore, tables
  <2>2. QED
    BY <1>4, <2>1, RebuildPasses, NotReport, QuietPass
<1>5. CASE CommitSeed(r)
  BY <1>5, SeedReports, NotReport, ReportsStay
<1>6. CASE Create(r) \/ TakeSale(r) \/ AddItem(r) \/ Complete(r) \/ ValidateStock(r) \/ Cancel(r)
  <2>1. UNCHANGED <<day, sale, stock>>
    BY <1>6 DEF Create, TakeSale, AddItem, Complete, ValidateStock, Cancel, tables
  <2>2. Passed(r, Elsewhere) /\ manages' = manages
    BY <1>6, SalePasses
  <2>3. QED
    BY <1>6, <2>1, <2>2, NothingPending, NotReport, QuietPass
<1>7. CASE CommitCreate(r) \/ CommitItem(r)
  BY <1>7, SalePasses, CreateReports, ItemReports, NotReport, ReportsStay
<1>8. CASE CommitComplete(r)
  BY <1>8, CompleteReports, NotReport, ReportsStay
<1>9. CASE CommitCancel(r)
  BY <1>9, CancelReports, NotReport, ReportsStay
<1>10. CASE Ask(r) \/ ReadSection(r)
  <2>1. UNCHANGED <<day, sale, stock, manages>>
    BY <1>10 DEF Ask, ReadSection, tables
  <2>2. IsReport(r) => ReaderOf(r)'
    BY <1>10, AskReads, ReadSectionReads
  <2>3. Passed(r, Elsewhere)
    BY <1>10, QueryPasses
  <2>4. QED
    BY <2>1, <2>2, <2>3, NothingPending, QuietPass
<1>11. QED
  BY <1>1, <1>2, <1>3, <1>4, <1>5, <1>6, <1>7, <1>8, <1>9, <1>10 DEF Handle

LEMMA RollbackReports ==
  ASSUME IInv, RInv, NEW r \in Request, Rollback(r)
  PROVE  RInv'
<1>1. Finish(r, "failed") /\ UNCHANGED <<day, sale, stock, manages, memo, torn>>
  BY DEF Rollback, Crash, ResolveDeadlock, tables
<1>2. Passed(r, Elsewhere)
  <2>1. "failed" \in Elsewhere
    BY DEF Elsewhere
  <2>2. QED
    BY <1>1, <2>1, PassedNoting
<1>3. ReaderOf(r)'
  <2>1. pc'[r] = "failed"
    BY <1>1 DEF Finish, IInv, Locks, LocksInv
  <2>2. QED
    BY <2>1 DEF ReaderOf
<1>4. QED
  BY <1>1, <1>2, <1>3, NothingPending, QuietPass

LEMMA NextReports == IInv /\ RInv /\ [Next]_vars => RInv'
<1> SUFFICES ASSUME IInv, RInv, [Next]_vars
             PROVE  RInv'
  OBVIOUS
<1>1. CASE NewDay
  BY <1>1, NothingRead DEF NewDay, transaction
<1>2. CASE UNCHANGED vars
  BY <1>2, NothingRead DEF vars, transaction
<1>3. QED
  BY <1>1, <1>2, HandleReports, RollbackReports DEF Next, Over

LEMMA InitReports == Init => RInv
<1> SUFFICES ASSUME Init
             PROVE  RInv
  OBVIOUS
<1>1. IInv
  BY InitHolds
<1>2. ASSUME NEW r \in Request
      PROVE  ReaderOf(r)
  <2>1. pc[r] = "idle" /\ memo[r].answer = << >>
    BY DEF Init, AtRest, Nothing
  <2>2. QED
    BY <2>1 DEF ReaderOf
<1>3. BalanceInv
  <2>1. ASSUME NEW s \in DOMAIN stock
        PROVE  Balance(s)
    <3>1. PICK f : f = Keep(sale, {s} \X Nat)
      OBVIOUS
    <3>2. /\ DOMAIN f = DOMAIN sale \cap ({s} \X Nat)
          /\ \A k \in DOMAIN f : f[k] = sale[k]
      BY <3>1 DEF Keep
    <3>3. stock[s] = StockAfter(f)
      BY <3>1 DEF Init
    <3>4. IsFiniteSet(DOMAIN f) /\ \A k \in DOMAIN f : f[k] \in Sale
      BY <1>1, <3>2, FS_Subset DEF IInv, Types, TypeOK
    <3>5. {k \in DOMAIN f : f[k].status = "completed"} = CompletedOf(s)
      <4>1. \A k \in DOMAIN sale : k \in {s} \X Nat <=> k[1] = s
        BY <1>1 DEF IInv, Types, TypeOK, SaleKey
      <4>2. QED
        BY <3>2, <4>1 DEF CompletedOf
    <3>6. ASSUME NEW v \in Variant
          PROVE  stock[s][v] + Taken(sale, CompletedOf(s), v) = Opening[v]
      <4>1. StockAfter(f)[v] + Taken(f, CompletedOf(s), v) = Opening[v]
        BY <3>4, <3>5, FirstBalance
      <4>2. \A k \in CompletedOf(s) : f[k].basket = sale[k].basket
        BY <3>2, <3>5
      <4>3. Taken(f, CompletedOf(s), v) = Taken(sale, CompletedOf(s), v)
        BY <4>2, TakenSame
      <4>4. QED
        BY <3>3, <4>1, <4>3
    <3>7. QED
      BY <3>6 DEF Balance
  <2>2. QED
    BY <2>1 DEF BalanceInv
<1>4. DoneInv
  <2>1. /\ day = FirstDay /\ FirstDay \in Nat /\ FirstDay \in FirstDay..LastDay
        /\ Demo \in Store /\ Shop \in Store /\ Demo # Shop
    BY DemoAssumption DEF Init
  <2>2. ASSUME NEW k \in DOMAIN sale, sale[k].status = "completed"
        PROVE  sale[k].done \in 0..day
    <3>1. CASE manages = Demo /\ k \in {Demo} \X DOMAIN SaleSpecs
      <4>1. sale[k] = SeedSale(k[2], FirstDay)
        BY <3>1 DEF Init, Join, SeedSales
      <4>2. SeedSale(k[2], FirstDay).done = FirstDay
        BY <2>2, <4>1 DEF SeedSale
      <4>3. QED
        BY <2>1, <4>1, <4>2
    <3>2. CASE ~ (manages = Demo /\ k \in {Demo} \X DOMAIN SaleSpecs)
      <4>1. k \in DOMAIN ShopSales /\ sale[k] = ShopSales[k]
        BY <3>2 DEF Init, Join, SeedSales
      <4>2. ShopSales[k].done <= FirstDay /\ ShopSales[k].done \in Nat
        <5>1. ShopSales[k].done # Never /\ ShopSales[k] \in Sale
              /\ ShopSales[k].done <= FirstDay
          BY <2>2, <4>1, FirstSales
        <5>2. QED
          BY <5>1 DEF Sale
      <4>3. QED
        BY <2>1, <4>1, <4>2
    <3>3. QED
      BY <3>1, <3>2
  <2>3. QED
    BY <2>2 DEF DoneInv
<1>5. QED
  BY <1>2, <1>3, <1>4 DEF RInv

LEMMA ReportInvariance == Spec => [](IInv /\ RInv)
  BY InitHolds, NextHolds, InitReports, NextReports, PTL DEF Spec

-----------------------------------------------------------------------------
(* What the sections of a report add up to *)

\* The lines that the queries on rows of SaleItem find.
LEMMA LinesFound ==
  ASSUME NEW S, NEW K, IsFiniteSet(K), \A k \in K : S[k].basket \in DOMAIN Lines,
         NEW L, L = LinesOf(S, K)
  PROVE  /\ IsFiniteSet(L)
         /\ \A x \in L : /\ x[1] \in K /\ x = <<x[1], x[2]>>
                         /\ x[2] \in DOMAIN Lines[S[x[1]].basket]
                         /\ LineAt(S, x) \in Line
         /\ \A k \in K : \A i \in DOMAIN Lines[S[k].basket] : <<k, i>> \in L
<1> DEFINE Part(k) == {k} \X DOMAIN Lines[S[k].basket]
           Parts == {Part(k) : k \in K}
<1>1. L = UNION Parts
  BY DEF LinesOf
<1>2. ASSUME NEW k \in K
      PROVE  IsFiniteSet(Part(k))
  <2>1. IsFiniteSet(DOMAIN Lines[S[k].basket]) /\ IsFiniteSet({k})
    BY LinesAre, FS_Singleton
  <2>2. QED
    BY <2>1, FS_Product
<1>3. IsFiniteSet(Parts)
  <2>1. [k \in K |-> Part(k)] \in Surjection(K, Parts)
    BY DEF Surjection
  <2>2. QED
    BY <2>1, FS_Surjection
<1>4. IsFiniteSet(L)
  <2>1. \A P \in Parts : IsFiniteSet(P)
    BY <1>2
  <2> HIDE DEF Parts
  <2>2. QED
    BY <1>1, <1>3, <2>1, FS_UNION
<1>5. ASSUME NEW x \in L
      PROVE  /\ x[1] \in K /\ x = <<x[1], x[2]>>
             /\ x[2] \in DOMAIN Lines[S[x[1]].basket]
             /\ LineAt(S, x) \in Line
  <2>1. PICK k \in K : x \in Part(k)
    BY <1>1
  <2>2. x[1] = k /\ x = <<x[1], x[2]>> /\ x[2] \in DOMAIN Lines[S[k].basket]
    BY <2>1
  <2>3. S[k].basket \in DOMAIN Lines
    OBVIOUS
  <2>4. Lines[S[k].basket][x[2]] \in Line
    <3>1. PICK l : l = Lines[S[k].basket] /\ l \in Seq(Line)
      BY <2>3, DemoAssumption
    <3>2. l[x[2]] \in Line
      BY <2>2, <3>1
    <3>3. QED
      BY <3>1, <3>2
  <2>5. QED
    BY <2>2, <2>4 DEF LineAt
<1>6. ASSUME NEW k \in K, NEW i \in DOMAIN Lines[S[k].basket]
      PROVE  <<k, i>> \in L
  <2>1. <<k, i>> \in Part(k)
    OBVIOUS
  <2>2. QED
    BY <1>1, <2>1
<1>7. QED
  BY <1>4, <1>5, <1>6

\* The sum over all lines is that over the sales of the sums over their lines.
LEMMA SumOfLines ==
  ASSUME NEW S, NEW K, IsFiniteSet(K), \A k \in K : S[k].basket \in DOMAIN Lines,
         NEW L, L = LinesOf(S, K), NEW f, \A x \in L : f[x] \in Int,
         NEW inner, \A k \in K : \A i \in DOMAIN Lines[S[k].basket] : inner[k][i] = f[<<k, i>>],
         NEW sums, \A k \in K : sums[k] = SumOver(inner[k], DOMAIN Lines[S[k].basket])
  PROVE  SumOver(sums, K) = SumOver(f, L)
<1>1. /\ IsFiniteSet(L)
      /\ \A x \in L : /\ x[1] \in K /\ x = <<x[1], x[2]>>
                      /\ x[2] \in DOMAIN Lines[S[x[1]].basket]
      /\ \A k \in K : \A i \in DOMAIN Lines[S[k].basket] : <<k, i>> \in L
  BY LinesFound
<1> DEFINE mark == [x \in L |-> x[1]]
<1>2. \A x \in L : mark[x] = x[1] /\ mark[x] \in K
  BY <1>1
<1> HIDE DEF mark
<1>3. ASSUME NEW k \in K
      PROVE  sums[k] = SumOver(f, {x \in L : mark[x] = k})
  <2>1. PICK D, E : D = DOMAIN Lines[S[k].basket] /\ E = {x \in L : mark[x] = k}
    OBVIOUS
  <2> DEFINE b == [i \in D |-> <<k, i>>]
  <2>2. b \in Bijection(D, E)
    <3>1. b \in [D -> E]
      BY <1>1, <1>2, <2>1
    <3>2. \A i, j \in D : b[i] = b[j] => i = j
      OBVIOUS
    <3>3. \A x \in E : \E i \in D : x = b[i]
      BY <1>1, <1>2, <2>1
    <3>4. QED
      BY <3>1, <3>2, <3>3 DEF Bijection, Injection, IsInjective, Surjection
  <2>3. IsFiniteSet(D)
    BY <2>1, LinesAre
  <2>4. \A i \in D : b[i] = <<k, i>> /\ inner[k][i] = f[b[i]] /\ inner[k][i] \in Int
    BY <1>1, <2>1
  <2> HIDE DEF b
  <2>5. PICK h : h = inner[k]
    OBVIOUS
  <2>6. SumOver(h, D) = SumOver(f, E)
    BY <2>2, <2>3, <2>4, <2>5, SumReindex
  <2>7. QED
    BY <2>1, <2>5, <2>6
<1>4. IsFiniteSet(L) /\ \A x \in L : f[x] \in Int /\ mark[x] \in K
  BY <1>1, <1>2
<1>5. \A k \in K : sums[k] = SumOver(f, {x \in L : mark[x] = k})
  BY <1>3
<1>6. Grouped(f, L, mark, K, sums)
  BY <1>4, <1>5 DEF Grouped
<1>7. QED
  BY <1>6, SumByMark

\* A line is sold for its price and has its cost.
LEMMA LineSums ==
  ASSUME NEW line \in Line, line.discount <= line.price * line.units
  PROVE  FinalPrice(line) \in Nat /\ line.cost * line.units \in Nat /\ line.units \in Nat
         /\ line.variant \in Variant
<1>1. /\ line.price \in Nat /\ line.units \in Nat /\ line.discount \in Nat
      /\ line.cost \in Nat /\ line.variant \in Variant
  BY DEF Line
<1>2. line.price * line.units \in Nat /\ line.cost * line.units \in Nat
  BY <1>1
<1>3. FinalPrice(line) \in Nat
  BY <1>1, <1>2 DEF FinalPrice
<1>4. QED
  BY <1>1, <1>2, <1>3

LEMMA BasketSums ==
  ASSUME NEW b \in DOMAIN Lines, NEW i \in DOMAIN Lines[b]
  PROVE  /\ Lines[b][i] \in Line
         /\ FinalPrice(Lines[b][i]) \in Nat /\ Lines[b][i].cost * Lines[b][i].units \in Nat
         /\ Lines[b][i].units \in Nat /\ Lines[b][i].variant \in Variant
<1>1. PICK l : l = Lines[b] /\ l \in Seq(Line)
  BY DemoAssumption
<1>2. l[i] \in Line
  BY <1>1
<1>3. Lines[b][i].discount <= Lines[b][i].price * Lines[b][i].units
  BY DemoAssumption
<1>4. QED
  BY <1>1, <1>2, <1>3, LineSums

\* What the queries know of a sale.
Readable(S, K) == IsFiniteSet(K) /\ \A k \in K : S[k].basket \in DOMAIN Lines

LEMMA TotalIs ==
  ASSUME NEW row, row.basket \in DOMAIN Lines
  PROVE  /\ Total(row) = SumOver([i \in DOMAIN Lines[row.basket] |->
                                    FinalPrice(Lines[row.basket][i])],
                                 DOMAIN Lines[row.basket])
         /\ Total(row) \in Nat
<1> DEFINE D == DOMAIN Lines[row.basket]
           f == [i \in D |-> FinalPrice(Lines[row.basket][i])]
<1>1. f = [i \in D |-> f[i]] /\ \A i \in D : f[i] \in Nat
  BY BasketSums
<1>2. Total(row) = SumFunction(f)
  BY DEF Total
<1>3. IsFiniteSet(D)
  BY LinesAre
<1> HIDE DEF f
<1>4. Total(row) = SumOver(f, D)
  BY <1>1, <1>2, SumWhole
<1>5. SumOver(f, D) \in Nat
  BY <1>1, <1>3, SumNat
<1>6. QED
  BY <1>4, <1>5 DEF f

LEMMA TotalsFields ==
  ASSUME NEW S, NEW E
  PROVE  /\ SalesTotals(S, E) =
              [orders |-> SalesTotals(S, E).orders, revenue |-> SalesTotals(S, E).revenue]
         /\ SalesTotals(S, E).orders = Cardinality(E)
         /\ SalesTotals(S, E).revenue = SumFunction([k \in E |-> Total(S[k])])
<1>1. PICK n, m : n = Cardinality(E) /\ m = SumFunction([k \in E |-> Total(S[k])])
  OBVIOUS
<1>2. SalesTotals(S, E) = [orders |-> n, revenue |-> m]
  BY <1>1 DEF SalesTotals
<1>3. QED
  BY <1>1, <1>2

\* The sums of some totals.
Parts(f) == [orders  |-> SumFunction([x \in DOMAIN f |-> f[x].orders]),
             revenue |-> SumFunction([x \in DOMAIN f |-> f[x].revenue])]

\* The totals of sales that have marks are those of the marks together.
LEMMA TotalsByMark ==
  ASSUME NEW S, NEW K, Readable(S, K), NEW M, IsFiniteSet(M),
         NEW mark, \A k \in K : mark[k] \in M,
         NEW parts, DOMAIN parts = M,
         \A m \in M : parts[m] = SalesTotals(S, {k \in K : mark[k] = m})
  PROVE  SalesTotals(S, K) = Parts(parts)
<1>1. IsFiniteSet(K) /\ \A k \in K : Total(S[k]) \in Nat
  BY TotalIs DEF Readable
<1>2. Cardinality(K) = SumFunction([m \in M |-> parts[m].orders])
  <2> DEFINE ones == [k \in K |-> 1]
             sums == [m \in M |-> parts[m].orders]
  <2>1. \A k \in K : ones[k] = 1
    OBVIOUS
  <2>2. ASSUME NEW m \in M
        PROVE  sums[m] = Cardinality({k \in K : mark[k] = m})
    <3>1. PICK E : E = {k \in K : mark[k] = m}
      OBVIOUS
    <3>2. parts[m] = SalesTotals(S, E)
      BY <3>1
    <3>3. SalesTotals(S, E).orders = Cardinality(E)
      BY TotalsFields
    <3>4. QED
      BY <3>1, <3>2, <3>3
  <2>3. sums = [m \in M |-> sums[m]]
    OBVIOUS
  <2> HIDE DEF ones, sums
  <2>4. ASSUME NEW m \in M
        PROVE  sums[m] = SumOver(ones, {k \in K : mark[k] = m})
    <3>1. PICK E : E = {k \in K : mark[k] = m}
      OBVIOUS
    <3>2. IsFiniteSet(E) /\ \A k \in E : ones[k] = 1
      BY <1>1, <2>1, <3>1, FS_Subset
    <3>3. SumOver(ones, E) = Cardinality(E)
      BY <3>2, SumOfOnes
    <3>4. QED
      BY <2>2, <3>1, <3>3
  <2>5. Grouped(ones, K, mark, M, sums)
    <3>1. \A k \in K : ones[k] \in Int /\ mark[k] \in M
      BY <2>1
    <3>2. \A m \in M : sums[m] = SumOver(ones, {k \in K : mark[k] = m})
      BY <2>4
    <3>3. QED
      BY <1>1, <3>1, <3>2 DEF Grouped
  <2>6. SumOver(sums, M) = SumOver(ones, K)
    BY <2>5, SumByMark
  <2>7. SumOver(ones, K) = Cardinality(K)
    BY <1>1, <2>1, SumOfOnes
  <2>8. SumFunction(sums) = Cardinality(K)
    BY <2>3, <2>6, <2>7, SumWhole
  <2>9. QED
    BY <2>8 DEF sums
<1>3. SumFunction([k \in K |-> Total(S[k])]) = SumFunction([m \in M |-> parts[m].revenue])
  <2> DEFINE f == [k \in K |-> Total(S[k])]
             sums == [m \in M |-> parts[m].revenue]
  <2>1. f = [k \in K |-> f[k]] /\ \A k \in K : f[k] = Total(S[k]) /\ f[k] \in Int
    BY <1>1
  <2>2. ASSUME NEW m \in M
        PROVE  sums[m] = SumFunction([k \in {j \in K : mark[j] = m} |-> Total(S[k])])
    <3>1. parts[m].revenue = SumFunction([k \in {j \in K : mark[j] = m} |-> Total(S[k])])
      BY TotalsFields
    <3>2. QED
      BY <3>1
  <2>3. sums = [m \in M |-> sums[m]]
    OBVIOUS
  <2> HIDE DEF f, sums
  <2>4. ASSUME NEW m \in M
        PROVE  sums[m] = SumOver(f, {k \in K : mark[k] = m})
    <3>1. PICK E : E = {k \in K : mark[k] = m}
      OBVIOUS
    <3>2. [k \in E |-> Total(S[k])] = [k \in E |-> f[k]]
      BY <2>1, <3>1
    <3>3. sums[m] = SumFunction([k \in E |-> Total(S[k])])
      BY <2>2, <3>1
    <3>4. QED
      BY <3>1, <3>2, <3>3 DEF SumOver
  <2>5. Grouped(f, K, mark, M, sums)
    <3>1. \A k \in K : f[k] \in Int /\ mark[k] \in M
      BY <2>1
    <3>2. \A m \in M : sums[m] = SumOver(f, {k \in K : mark[k] = m})
      BY <2>4
    <3>3. QED
      BY <1>1, <3>1, <3>2 DEF Grouped
  <2>6. SumOver(sums, M) = SumOver(f, K)
    BY <2>5, SumByMark
  <2>7. SumFunction(sums) = SumOver(sums, M) /\ SumFunction(f) = SumOver(f, K)
    BY <2>1, <2>3, SumWhole
  <2>8. SumFunction(f) = SumFunction(sums)
    BY <2>6, <2>7
  <2>9. QED
    BY <2>8 DEF f, sums
<1>4. SalesTotals(S, K) = [orders  |-> Cardinality(K),
                          revenue |-> SumFunction([k \in K |-> Total(S[k])])]
  BY TotalsFields
<1>5. QED
  BY <1>2, <1>3, <1>4 DEF Parts

\* Products are listed in this order.
Ahead(weight, q, p) == weight[q] > weight[p] \/ (weight[q] = weight[p] /\ q < p)

\* Those of N that come first are listed.
Ranked(N, weight, n, listed) ==
  /\ N \subseteq Nat /\ IsFiniteSet(N) /\ n \in Nat
  /\ \A p \in N : weight[p] \in Nat
  /\ listed = {p \in N : Cardinality({q \in N : Ahead(weight, q, p)}) < n}

\* When fewer are listed than the list has room for, all are.
LEMMA AllAreListed ==
  ASSUME NEW N, NEW weight, NEW n, NEW listed, Ranked(N, weight, n, listed),
         Cardinality(listed) < n
  PROVE  listed = N
<1>0. PICK ahead :
        /\ \A p \in N : ahead[p] = {q \in N : Ahead(weight, q, p)}
        /\ N \in SUBSET Nat /\ IsFiniteSet(N) /\ n \in Nat
        /\ \A p \in N : weight[p] \in Nat
        /\ listed = {p \in N : Cardinality(ahead[p]) < n}
  <2> DEFINE ahead == [p \in N |-> {q \in N : Ahead(weight, q, p)}]
  <2>1. \A p \in N : ahead[p] = {q \in N : Ahead(weight, q, p)}
    OBVIOUS
  <2> HIDE DEF ahead
  <2>2. listed = {p \in N : Cardinality(ahead[p]) < n}
    BY <2>1 DEF Ranked
  <2>3. QED
    BY <2>1, <2>2 DEF Ranked
<1> USE <1>0 DEF Ahead
<1> USE <1>0 DEF Ahead
<1> SUFFICES ASSUME N \ listed # {}
             PROVE  FALSE
  OBVIOUS
<1> DEFINE U == N \ listed
           T == {Cardinality(ahead[p]) : p \in U}
<1>1. ASSUME NEW p \in N
      PROVE  IsFiniteSet(ahead[p]) /\ Cardinality(ahead[p]) \in Nat
  <2>1. ahead[p] \in SUBSET N
    OBVIOUS
  <2>2. QED
    BY <2>1, FS_Subset, FS_CardinalityType
<1>2. T \in SUBSET Nat /\ T # {}
  <2>1. \A p \in U : Cardinality(ahead[p]) \in Nat
    BY <1>1
  <2>2. \A t \in T : t \in Nat
    BY <2>1
  <2>3. PICK p \in U : TRUE
    OBVIOUS
  <2>4. Cardinality(ahead[p]) \in T
    OBVIOUS
  <2> HIDE DEF T
  <2>5. QED
    BY <2>2, <2>4
<1>3. PICK c \in T : \A d \in T : c <= d
  BY <1>2, LeastNumber
<1>4. PICK p \in U : c = Cardinality(ahead[p])
  OBVIOUS
<1>5. ahead[p] \in SUBSET listed
  <2> SUFFICES ASSUME NEW q \in ahead[p], q \notin listed
               PROVE  FALSE
    OBVIOUS
  <2>1. p \in N /\ q \in N /\ q \in U
    OBVIOUS
  <2>2. /\ weight[p] \in Nat /\ weight[q] \in Nat /\ p \in Nat /\ q \in Nat
        /\ weight[q] > weight[p] \/ (weight[q] = weight[p] /\ q < p)
    BY <2>1
  <2>3. ahead[q] \in SUBSET ahead[p] /\ q \notin ahead[q]
    <3>1. ASSUME NEW x \in ahead[q]
          PROVE  x \in ahead[p]
      <4>1. /\ x \in N /\ x \in Nat /\ weight[x] \in Nat
            /\ weight[x] > weight[q] \/ (weight[x] = weight[q] /\ x < q)
        BY <2>1
      <4>2. weight[x] > weight[p] \/ (weight[x] = weight[p] /\ x < p)
        BY <2>2, <4>1
      <4>3. QED
        BY <2>1, <4>1, <4>2
    <3>2. q \notin ahead[q]
      BY <2>1, <2>2
    <3>3. QED
      BY <3>1, <3>2
  <2>4. ahead[q] # ahead[p]
    BY <2>3
  <2>5. Cardinality(ahead[q]) <= Cardinality(ahead[p])
        /\ Cardinality(ahead[q]) # Cardinality(ahead[p])
    BY <1>1, <2>1, <2>3, <2>4, FS_Subset
  <2>6. c <= Cardinality(ahead[q])
    <3>1. Cardinality(ahead[q]) \in T
      BY <2>1
    <3> HIDE DEF T
    <3>2. QED
      BY <1>3, <3>1
  <2>7. QED
    BY <1>1, <1>4, <2>1, <2>5, <2>6
<1>6. IsFiniteSet(listed)
  BY FS_Subset
<1>7. Cardinality(ahead[p]) <= Cardinality(listed) /\ Cardinality(listed) \in Nat
  BY <1>5, <1>6, FS_Subset, FS_CardinalityType
<1>8. Cardinality(ahead[p]) < n
  BY <1>1, <1>4, <1>7
<1>9. QED
  BY <1>4, <1>8

LEMMA LineFields ==
  ASSUME NEW S, NEW K, Readable(S, K), NEW L, L = LinesOf(S, K), NEW x \in L
  PROVE  /\ FinalPrice(LineAt(S, x)) \in Nat /\ LineAt(S, x).cost * LineAt(S, x).units \in Nat
         /\ LineAt(S, x).units \in Nat /\ LineAt(S, x).variant \in Variant
<1>1. /\ x[1] \in K /\ x[2] \in DOMAIN Lines[S[x[1]].basket]
      /\ S[x[1]].basket \in DOMAIN Lines
  BY LinesFound DEF Readable
<1>2. PICK b, i : b = S[x[1]].basket /\ i = x[2]
  OBVIOUS
<1>3. LineAt(S, x) = Lines[b][i]
  BY <1>2 DEF LineAt
<1>4. b \in DOMAIN Lines /\ i \in DOMAIN Lines[b]
  BY <1>1, <1>2
<1>5. QED
  BY <1>3, <1>4, BasketSums

\* The revenue is the sum of the prices of the lines.
LEMMA RevenueOfLines ==
  ASSUME NEW S, NEW K, Readable(S, K), NEW L, L = LinesOf(S, K),
         NEW f, \A x \in L : f[x] = FinalPrice(LineAt(S, x))
  PROVE  SalesTotals(S, K).revenue = SumOver(f, L)
<1> DEFINE sums == [k \in K |-> Total(S[k])]
           inner == [k \in K |-> [i \in DOMAIN Lines[S[k].basket] |->
                                    FinalPrice(Lines[S[k].basket][i])]]
<1>1. IsFiniteSet(K) /\ \A k \in K : S[k].basket \in DOMAIN Lines
  BY DEF Readable
<1>2. \A x \in L : f[x] \in Int
  BY LineFields
<1>3. \A k \in K : \A i \in DOMAIN Lines[S[k].basket] : inner[k][i] = f[<<k, i>>]
  <2>1. \A k \in K : \A i \in DOMAIN Lines[S[k].basket] : <<k, i>> \in L
    BY <1>1, LinesFound, Zenon
  <2>2. \A k \in K : \A i \in DOMAIN Lines[S[k].basket] :
          LineAt(S, <<k, i>>) = Lines[S[k].basket][i]
    BY DEF LineAt
  <2>3. \A k \in K : \A i \in DOMAIN Lines[S[k].basket] :
          inner[k][i] = FinalPrice(Lines[S[k].basket][i])
    OBVIOUS
  <2> HIDE DEF inner
  <2>4. ASSUME NEW k \in K, NEW i \in DOMAIN Lines[S[k].basket]
        PROVE  inner[k][i] = f[<<k, i>>]
    <3>1. PICK x : x = <<k, i>>
      OBVIOUS
    <3>2. x \in L /\ LineAt(S, x) = Lines[S[k].basket][i]
      BY <2>1, <2>2, <3>1
    <3>3. QED
      BY <2>3, <3>1, <3>2
  <2>5. QED
    BY <2>4, Zenon
<1>4. \A k \in K : sums[k] = SumOver(inner[k], DOMAIN Lines[S[k].basket])
  BY <1>1, TotalIs
<1>5. SalesTotals(S, K).revenue = SumFunction(sums) /\ sums = [k \in K |-> sums[k]]
  BY TotalsFields
<1> HIDE DEF sums, inner
<1>6. SumOver(sums, K) = SumOver(f, L)
  BY <1>1, <1>2, <1>3, <1>4, SumOfLines
<1>7. QED
  BY <1>5, <1>6, SumWhole

LEMMA CostIs ==
  ASSUME NEW S, NEW K, Readable(S, K)
  PROVE  ItemTotals(S, K).cost \in Nat
<1> DEFINE L == LinesOf(S, K)
           f == [x \in L |-> LineAt(S, x).cost * LineAt(S, x).units]
<1>1. f = [x \in L |-> f[x]] /\ \A x \in L : f[x] \in Nat
  BY LineFields
<1>2. ItemTotals(S, K).cost = SumFunction(f)
  BY DEF ItemTotals
<1>3. IsFiniteSet(L)
  BY LinesFound DEF Readable
<1> HIDE DEF f, L
<1>4. QED
  BY <1>1, <1>2, <1>3, SumWhole, SumNat

\* P lists products of those that sold knows, and all of them if it has room.
ListOf(P, sold, N, name, L, u, f) ==
  /\ \A p \in N : /\ sold[p].sold = SumOver(u, {x \in L : name[x] = p})
                  /\ sold[p].revenue = SumOver(f, {x \in L : name[x] = p})
  /\ DOMAIN P \subseteq N /\ \A p \in DOMAIN P : P[p] = sold[p]
  /\ Cardinality(DOMAIN P) < TopSize => DOMAIN P = N

LEMMA ProductsAre ==
  ASSUME NEW S, NEW K, Readable(S, K), NEW L, L = LinesOf(S, K),
         NEW u, \A x \in L : u[x] = LineAt(S, x).units,
         NEW f, \A x \in L : f[x] = FinalPrice(LineAt(S, x)),
         NEW name, \A x \in L : name[x] = ProductOf[LineAt(S, x).variant],
         NEW N, N = {name[x] : x \in L},
         NEW P, P = Products(S, K, ProductOf)
  PROVE  \E sold : ListOf(P, sold, N, name, L, u, f)
<1> DEFINE Of(p) == {x \in LinesOf(S, K) : ProductOf[LineAt(S, x).variant] = p}
           sold == [p \in {ProductOf[LineAt(S, x).variant] : x \in LinesOf(S, K)} |->
                      [sold    |-> SumFunction([x \in Of(p) |-> LineAt(S, x).units]),
                       revenue |-> SumFunction([x \in Of(p) |-> FinalPrice(LineAt(S, x))])]]
           Before(p) == {b \in DOMAIN sold : \/ sold[b].sold > sold[p].sold
                                             \/ sold[b].sold = sold[p].sold /\ b < p}
           listed == {q \in DOMAIN sold : Cardinality(Before(q)) < TopSize}
<1>1. P = [p \in listed |-> sold[p]]
  BY DEF Products
<1>2. DOMAIN sold = N
  OBVIOUS
<1>3. ASSUME NEW p \in N
      PROVE  /\ sold[p].sold = SumOver(u, {x \in L : name[x] = p})
             /\ sold[p].revenue = SumOver(f, {x \in L : name[x] = p})
  <2>1. PICK E : E = {x \in L : name[x] = p}
    OBVIOUS
  <2>2. Of(p) = E
    BY <2>1
  <2>3. sold[p] = [sold    |-> SumFunction([x \in Of(p) |-> LineAt(S, x).units]),
                   revenue |-> SumFunction([x \in Of(p) |-> FinalPrice(LineAt(S, x))])]
    BY <1>2
  <2> HIDE DEF sold, Of
  <2>4. /\ [x \in E |-> LineAt(S, x).units] = [x \in E |-> u[x]]
        /\ [x \in E |-> FinalPrice(LineAt(S, x))] = [x \in E |-> f[x]]
    BY <2>1
  <2>5. /\ sold[p].sold = SumFunction([x \in E |-> u[x]])
        /\ sold[p].revenue = SumFunction([x \in E |-> f[x]])
    BY <2>2, <2>3, <2>4
  <2>6. QED
    BY <2>1, <2>5 DEF SumOver
<1> HIDE DEF sold
<1>4. DOMAIN P = listed /\ listed \subseteq N /\ \A p \in DOMAIN P : P[p] = sold[p]
  BY <1>1, <1>2
<1>5. ASSUME Cardinality(DOMAIN P) < TopSize
      PROVE  DOMAIN P = N
  <2>1. IsFiniteSet(L)
    BY LinesFound DEF Readable
  <2>2. N \in SUBSET Nat /\ IsFiniteSet(N)
    <3>1. \A x \in L : name[x] \in Nat
      BY LineFields, DemoAssumption
    <3>2. [x \in L |-> name[x]] \in Surjection(L, N)
      BY DEF Surjection
    <3>3. QED
      BY <2>1, <3>1, <3>2, FS_Surjection
  <2> DEFINE weight == [p \in N |-> sold[p].sold]
  <2>3. ASSUME NEW p \in N
        PROVE  weight[p] \in Nat
    <3>1. PICK E : E = {x \in L : name[x] = p}
      OBVIOUS
    <3>2. IsFiniteSet(E) /\ \A x \in E : u[x] \in Nat
      BY <2>1, <3>1, FS_Subset, LineFields
    <3>3. SumOver(u, E) \in Nat
      BY <3>2, SumNat
    <3>4. QED
      BY <1>3, <3>1, <3>3
  <2>4. \A p \in N : Before(p) = {q \in N : Ahead(weight, q, p)}
    <3>1. \A p \in N : weight[p] = sold[p].sold
      OBVIOUS
    <3> HIDE DEF weight
    <3>2. QED
      BY <1>2, <3>1 DEF Ahead
  <2>5. TopSize \in Nat /\ Cardinality(listed) < TopSize
    BY <1>4, <1>5, ReportAssumption
  <2>6. \A p \in listed : p \in N /\ Cardinality(Before(p)) < TopSize
    BY <1>2
  <2>7. \A p \in N : Cardinality(Before(p)) < TopSize => p \in listed
    BY <1>2
  <2> HIDE DEF listed, weight, Before
  <2>8. listed = {p \in N : Cardinality({q \in N : Ahead(weight, q, p)}) < TopSize}
    BY <2>4, <2>6, <2>7
  <2>9. Ranked(N, weight, TopSize, listed)
    BY <2>2, <2>3, <2>5, <2>8 DEF Ranked
  <2>10. QED
    BY <1>4, <2>5, <2>9, AllAreListed
<1> HIDE DEF listed, Before
<1>6. ListOf(P, sold, N, name, L, u, f)
  BY <1>3, <1>4, <1>5 DEF ListOf
<1>7. QED
  BY <1>6

\* The listed products have no more than the revenue, and have all that was
\* sold if the list has room.
LEMMA ProductSums ==
  ASSUME NEW S, NEW K, Readable(S, K), NEW L, L = LinesOf(S, K),
         NEW u, \A x \in L : u[x] = LineAt(S, x).units,
         NEW P, P = Products(S, K, ProductOf),
         NEW revenue, revenue = SumFunction([p \in DOMAIN P |-> P[p].revenue]),
         NEW units, units = SumFunction([p \in DOMAIN P |-> P[p].sold])
  PROVE  /\ revenue <= SalesTotals(S, K).revenue
         /\ Cardinality(DOMAIN P) < TopSize =>
              revenue = SalesTotals(S, K).revenue /\ units = SumOver(u, L)
<1> DEFINE f == [x \in L |-> FinalPrice(LineAt(S, x))]
           name == [x \in L |-> ProductOf[LineAt(S, x).variant]]
<1>1. IsFiniteSet(L)
  BY LinesFound DEF Readable
<1>2. \A x \in L : f[x] = FinalPrice(LineAt(S, x)) /\ f[x] \in Nat /\ u[x] \in Nat
  BY LineFields
<1>3. \A x \in L : name[x] = ProductOf[LineAt(S, x).variant]
  OBVIOUS
<1> HIDE DEF f, name
<1>4. PICK N : N = {name[x] : x \in L}
  OBVIOUS
<1>5. PICK sold : ListOf(P, sold, N, name, L, u, f)
  BY <1>2, <1>3, <1>4, ProductsAre
<1>6. IsFiniteSet(N) /\ \A x \in L : name[x] \in N
  <2>1. [x \in L |-> name[x]] \in Surjection(L, N)
    BY <1>4 DEF Surjection
  <2>2. QED
    BY <1>1, <1>4, <2>1, FS_Surjection
<1>7. SumOver(f, L) = SalesTotals(S, K).revenue
  BY <1>2, RevenueOfLines
<1> DEFINE rs == [p \in N |-> sold[p].revenue]
           us == [p \in N |-> sold[p].sold]
<1>8. /\ \A p \in N : rs[p] = SumOver(f, {x \in L : name[x] = p})
      /\ \A p \in N : us[p] = SumOver(u, {x \in L : name[x] = p})
  BY <1>5 DEF ListOf
<1>9. \A p \in DOMAIN P : P[p].revenue = rs[p] /\ P[p].sold = us[p]
  BY <1>5 DEF ListOf
<1> HIDE DEF rs, us
<1>10. revenue = SumOver(rs, DOMAIN P) /\ units = SumOver(us, DOMAIN P)
  <2>1. /\ [p \in DOMAIN P |-> P[p].revenue] = [p \in DOMAIN P |-> rs[p]]
        /\ [p \in DOMAIN P |-> P[p].sold] = [p \in DOMAIN P |-> us[p]]
    BY <1>9
  <2>2. QED
    BY <2>1 DEF SumOver
<1>11. SumOver(rs, N) = SumOver(f, L)
  <2>1. \A x \in L : f[x] \in Int /\ name[x] \in N
    BY <1>2, <1>6
  <2>2. Grouped(f, L, name, N, rs)
    BY <1>1, <1>6, <1>8, <2>1, Zenon DEF Grouped
  <2>3. QED
    BY <2>2, SumByMark
<1>12. SumOver(us, N) = SumOver(u, L)
  <2>1. \A x \in L : u[x] \in Int /\ name[x] \in N
    BY <1>2, <1>6
  <2>2. Grouped(u, L, name, N, us)
    BY <1>1, <1>6, <1>8, <2>1, Zenon DEF Grouped
  <2>3. QED
    BY <2>2, SumByMark
<1>13. \A p \in N : rs[p] \in Nat
  <2>1. ASSUME NEW p \in N
        PROVE  rs[p] \in Nat
    <3>1. PICK E : E = {x \in L : name[x] = p}
      OBVIOUS
    <3>2. IsFiniteSet(E) /\ \A x \in E : f[x] \in Nat
      BY <1>1, <1>2, <3>1, FS_Subset
    <3>3. SumOver(f, E) \in Nat
      BY <3>2, SumNat
    <3>4. QED
      BY <1>8, <3>1, <3>3
  <2>2. QED
    BY <2>1
<1>14. DOMAIN P \in SUBSET N /\ (Cardinality(DOMAIN P) < TopSize => DOMAIN P = N)
  BY <1>5 DEF ListOf
<1>15. SumOver(rs, DOMAIN P) <= SumOver(rs, N)
  BY <1>6, <1>13, <1>14, SumOfSome
<1>16. QED
  BY <1>7, <1>10, <1>11, <1>12, <1>14, <1>15

\* What was taken of v is the units of its lines.
LEMMA TakenOfLines ==
  ASSUME NEW S, NEW K, Readable(S, K), NEW L, L = LinesOf(S, K),
         NEW u, \A x \in L : u[x] = LineAt(S, x).units,
         NEW variant, \A x \in L : variant[x] = LineAt(S, x).variant, NEW v
  PROVE  Taken(S, K, v) = SumOver(u, {x \in L : variant[x] = v})
<1> DEFINE g == [x \in L |-> IF variant[x] = v THEN u[x] ELSE 0]
           sums == [k \in K |-> Units(S[k], v)]
           inner == [k \in K |-> [i \in DOMAIN Lines[S[k].basket] |->
                                    IF Lines[S[k].basket][i].variant = v
                                    THEN Lines[S[k].basket][i].units ELSE 0]]
<1>1. IsFiniteSet(K) /\ \A k \in K : S[k].basket \in DOMAIN Lines
  BY DEF Readable
<1>2. IsFiniteSet(L)
  BY <1>1, LinesFound
<1>3. \A x \in L : u[x] \in Int
  BY LineFields
<1>4. \A x \in L : g[x] = (IF variant[x] = v THEN u[x] ELSE 0) /\ g[x] \in Int
  BY <1>3
<1>5. \A k \in K : \A i \in DOMAIN Lines[S[k].basket] : inner[k][i] = g[<<k, i>>]
  <2>1. \A k \in K : \A i \in DOMAIN Lines[S[k].basket] : <<k, i>> \in L
    BY <1>1, LinesFound, Zenon
  <2>2. \A k \in K : \A i \in DOMAIN Lines[S[k].basket] :
          LineAt(S, <<k, i>>) = Lines[S[k].basket][i]
    BY DEF LineAt
  <2>3. \A k \in K : \A i \in DOMAIN Lines[S[k].basket] :
          inner[k][i] = IF Lines[S[k].basket][i].variant = v
                        THEN Lines[S[k].basket][i].units ELSE 0
    OBVIOUS
  <2> HIDE DEF inner, g
  <2>4. ASSUME NEW k \in K, NEW i \in DOMAIN Lines[S[k].basket]
        PROVE  inner[k][i] = g[<<k, i>>]
    <3>1. PICK x : x = <<k, i>>
      OBVIOUS
    <3>2. x \in L /\ LineAt(S, x) = Lines[S[k].basket][i]
      BY <2>1, <2>2, <3>1
    <3>3. g[x] = IF Lines[S[k].basket][i].variant = v
                 THEN Lines[S[k].basket][i].units ELSE 0
      BY <1>4, <3>2
    <3>4. QED
      BY <2>3, <3>1, <3>3
  <2>5. QED
    BY <2>4, Zenon
<1>6. \A k \in K : sums[k] = SumOver(inner[k], DOMAIN Lines[S[k].basket])
  BY DEF Units, SumOver
<1>7. Taken(S, K, v) = SumFunction(sums) /\ sums = [k \in K |-> sums[k]]
  BY DEF Taken
<1> HIDE DEF g, sums, inner
<1>8. \A x \in L : g[x] \in Int
  BY <1>4
<1>9. SumOver(sums, K) = SumOver(g, L)
  BY <1>1, <1>5, <1>6, <1>8, SumOfLines
<1>10. SumOver(g, L) = SumOver(u, {x \in L : variant[x] = v})
  <2>1. Masked(g, u, L, variant, v)
    BY <1>2, <1>3, <1>4 DEF Masked
  <2>2. QED
    BY <2>1, SumOfMarked
<1>11. QED
  BY <1>7, <1>9, <1>10, SumWhole

\* What is in stock and what was sold of all variants is what was bought.
LEMMA StockSums ==
  ASSUME NEW F, NEW K, K = DOMAIN F.sales, Readable(F.sales, K), Balanced(F),
         NEW L, L = LinesOf(F.sales, K), NEW u, \A x \in L : u[x] = LineAt(F.sales, x).units
  PROVE  SumFunction(F.stock) + SumOver(u, L) = SumFunction(Opening)
<1> DEFINE variant == [x \in L |-> LineAt(F.sales, x).variant]
           taken == [v \in Variant |-> Taken(F.sales, K, v)]
<1>1. \A x \in L : variant[x] = LineAt(F.sales, x).variant /\ variant[x] \in Variant
                     /\ u[x] \in Nat
  BY LineFields
<1>2. \A v \in Variant : taken[v] = Taken(F.sales, K, v)
  OBVIOUS
<1> HIDE DEF variant, taken
<1>3. IsFiniteSet(L) /\ IsFiniteSet(Variant)
  BY LinesFound, DemoAssumption DEF Readable
<1>4. PICK S, stored : S = F.sales /\ stored = F.stock
  OBVIOUS
<1>5. \A v \in Variant : taken[v] = SumOver(u, {x \in L : variant[x] = v})
  BY <1>1, <1>2, <1>4, TakenOfLines
<1>6. Grouped(u, L, variant, Variant, taken)
  BY <1>1, <1>3, <1>5 DEF Grouped
<1>7. SumOver(taken, Variant) = SumOver(u, L)
  BY <1>6, SumByMark
<1>8. stored \in [Variant -> Nat] /\ Opening \in [Variant -> Nat]
  BY <1>4, DemoAssumption DEF Balanced
<1>9. \A v \in Variant : stored[v] + taken[v] = Opening[v]
  BY <1>2, <1>4 DEF Balanced
<1>10. \A v \in Variant : stored[v] \in Int /\ taken[v] \in Int
  <2>1. ASSUME NEW v \in Variant
        PROVE  taken[v] \in Nat
    <3>1. PICK E : E = {x \in L : variant[x] = v}
      OBVIOUS
    <3>2. IsFiniteSet(E) /\ \A x \in E : u[x] \in Nat
      BY <1>1, <1>3, <3>1, FS_Subset
    <3>3. SumOver(u, E) \in Nat
      BY <3>2, SumNat
    <3>4. QED
      BY <1>5, <3>1, <3>3
  <2>2. QED
    BY <1>8, <2>1
<1>11. SumOver(Opening, Variant) = SumOver(stored, Variant) + SumOver(taken, Variant)
  BY <1>3, <1>9, <1>10, SumAdd
<1>12. /\ SumFunction(stored) = SumOver(stored, Variant)
       /\ SumFunction(Opening) = SumOver(Opening, Variant)
  BY <1>8, SumWhole
<1>13. QED
  BY <1>4, <1>7, <1>11, <1>12

\* What a report answers whose sections have all found F.
LEMMA AnswerIs ==
  ASSUME NEW r, NEW F, DOMAIN memo[r].answer = ReportNames,
         \A n \in ReportNames : memo[r].answer[n] = F,
         NEW from, from = memo[r].from, NEW to, to = memo[r].to,
         NEW S, S = F.sales, NEW K, K = DOMAIN S, NEW a, a = Answer(r)
  PROVE  /\ a.totals = SalesTotals(S, K) /\ a.items = ItemTotals(S, K)
         /\ a.daily = Daily(S, K, from, to) /\ a.channels = Channels(S, K)
         /\ a.products = Products(S, K, ProductOf)
         /\ a.inventory = Inventory(F.stock, PurchasePrice, SalePrice)
         /\ a.low = LowStock(F.stock) /\ a.out = OutOfStock(F.stock)
<1>1. \A n \in ReportNames : a[n] = Section(n, F, from, to)
  BY DEF Answer
<1>2. /\ Section("totals", F, from, to) = SalesTotals(S, K)
      /\ Section("items", F, from, to) = ItemTotals(S, K)
      /\ Section("daily", F, from, to) = Daily(S, K, from, to)
      /\ Section("channels", F, from, to) = Channels(S, K)
  BY DEF Section
<1>3. /\ Section("products", F, from, to) = Products(S, K, ProductOf)
      /\ Section("inventory", F, from, to) = Inventory(F.stock, PurchasePrice, SalePrice)
      /\ Section("low", F, from, to) = LowStock(F.stock)
      /\ Section("out", F, from, to) = OutOfStock(F.stock)
  BY DEF Section
<1>4. /\ "totals" \in ReportNames /\ "items" \in ReportNames /\ "daily" \in ReportNames
      /\ "channels" \in ReportNames /\ "products" \in ReportNames
      /\ "inventory" \in ReportNames /\ "low" \in ReportNames /\ "out" \in ReportNames
  BY DEF ReportNames
<1>5. QED
  BY <1>1, <1>2, <1>3, <1>4

LEMMA DaysAddUp ==
  ASSUME NEW S, NEW K, Readable(S, K), NEW from \in Int, NEW to \in Int,
         \A k \in K : S[k].done \in from..to
  PROVE  SalesTotals(S, K) = Parts(Daily(S, K, from, to))
<1> DEFINE mark == [k \in K |-> S[k].done]
<1>1. PICK M, parts : M = from..to /\ parts = Daily(S, K, from, to)
  OBVIOUS
<1>2. DOMAIN parts = M
      /\ \A d \in M : parts[d] = SalesTotals(S, {k \in K : S[k].done = d})
  BY <1>1 DEF Daily
<1>3. IsFiniteSet(M)
  BY <1>1, FS_Interval
<1>4. \A k \in K : mark[k] = S[k].done /\ mark[k] \in M
  BY <1>1
<1> HIDE DEF mark
<1>5. \A d \in M : parts[d] = SalesTotals(S, {k \in K : mark[k] = d})
  <2>1. ASSUME NEW d \in M
        PROVE  {k \in K : S[k].done = d} = {k \in K : mark[k] = d}
    BY <1>4
  <2>2. QED
    BY <1>2, <2>1
<1>6. QED
  BY <1>1, <1>2, <1>3, <1>4, <1>5, TotalsByMark

LEMMA ChannelsAddUp ==
  ASSUME NEW S, NEW K, Readable(S, K), \A k \in K : S[k].channel \in Channel
  PROVE  SalesTotals(S, K) = Parts(Channels(S, K))
<1> DEFINE mark == [k \in K |-> S[k].channel]
<1>1. PICK parts : parts = Channels(S, K)
  OBVIOUS
<1>2. DOMAIN parts = Channel
      /\ \A c \in Channel : parts[c] = SalesTotals(S, {k \in K : S[k].channel = c})
  BY <1>1 DEF Channels
<1>3. \A k \in K : mark[k] = S[k].channel /\ mark[k] \in Channel
  OBVIOUS
<1> HIDE DEF mark
<1>4. \A c \in Channel : parts[c] = SalesTotals(S, {k \in K : mark[k] = c})
  <2>1. ASSUME NEW c \in Channel
        PROVE  {k \in K : S[k].channel = c} = {k \in K : mark[k] = c}
    BY <1>3
  <2>2. QED
    BY <1>2, <2>1
<1>5. QED
  BY <1>1, <1>2, <1>3, <1>4, TotalsByMark, ReportAssumption

AddsUp(F, S, K, from, to, P, revenue, units) ==
  /\ SalesTotals(S, K) = Parts(Daily(S, K, from, to))
  /\ SalesTotals(S, K) = Parts(Channels(S, K))
  /\ revenue <= SalesTotals(S, K).revenue
  /\ Cardinality(DOMAIN P) < TopSize => revenue = SalesTotals(S, K).revenue
  /\ GrossProfit(SalesTotals(S, K), ItemTotals(S, K)) <= SalesTotals(S, K).revenue
  /\ LowStock(F.stock) \cap OutOfStock(F.stock) = {}
  /\ Balanced(F) /\ Cardinality(DOMAIN P) < TopSize =>
       SumFunction(F.stock) + units = SumFunction(Opening)

\* The report of one snapshot adds up.
LEMMA SnapshotAddsUp ==
  ASSUME NEW F, NEW from \in Int, NEW to \in Int, Found(F, from, to),
         NEW S, S = F.sales, NEW K, K = DOMAIN S, NEW P, P = Products(S, K, ProductOf),
         NEW revenue, revenue = SumFunction([p \in DOMAIN P |-> P[p].revenue]),
         NEW units, units = SumFunction([p \in DOMAIN P |-> P[p].sold])
  PROVE  AddsUp(F, S, K, from, to, P, revenue, units)
<1>1. /\ Readable(S, K) /\ \A k \in K : S[k].done \in from..to
      /\ \A k \in K : S[k].channel \in Channel
  BY DEF Found, Readable
<1>2. /\ SalesTotals(S, K) = Parts(Daily(S, K, from, to))
      /\ SalesTotals(S, K) = Parts(Channels(S, K))
  BY <1>1, DaysAddUp, ChannelsAddUp
<1> DEFINE L == LinesOf(S, K)
           u == [x \in L |-> LineAt(S, x).units]
           f == [x \in L |-> FinalPrice(LineAt(S, x))]
<1>3. /\ \A x \in L : u[x] = LineAt(S, x).units
      /\ \A x \in L : f[x] = FinalPrice(LineAt(S, x))
  OBVIOUS
<1> HIDE DEF u, f
<1>4. /\ revenue <= SalesTotals(S, K).revenue
      /\ Cardinality(DOMAIN P) < TopSize =>
           revenue = SalesTotals(S, K).revenue /\ units = SumOver(u, L)
  BY <1>1, <1>3, ProductSums
<1>5. GrossProfit(SalesTotals(S, K), ItemTotals(S, K)) <= SalesTotals(S, K).revenue
  <2>1. ItemTotals(S, K).cost \in Nat
    BY <1>1, CostIs
  <2>2. SalesTotals(S, K).revenue \in Nat
    <3>1. SalesTotals(S, K).revenue = SumOver(f, L)
      BY <1>1, <1>3, RevenueOfLines
    <3>2. IsFiniteSet(L) /\ \A x \in L : f[x] \in Nat
      BY <1>1, <1>3, LinesFound, LineFields DEF Readable
    <3>3. QED
      BY <3>1, <3>2, SumNat
  <2>3. QED
    BY <2>1, <2>2 DEF GrossProfit
<1>6. LowStock(F.stock) \cap OutOfStock(F.stock) = {}
  BY DEF LowStock, OutOfStock
<1>7. ASSUME Balanced(F), Cardinality(DOMAIN P) < TopSize
      PROVE  SumFunction(F.stock) + units = SumFunction(Opening)
  <2>1. SumFunction(F.stock) + SumOver(u, L) = SumFunction(Opening)
    BY <1>1, <1>3, <1>7, StockSums
  <2>2. QED
    BY <1>4, <1>7, <2>1
<1>8. QED
  BY <1>2, <1>4, <1>5, <1>6, <1>7 DEF AddsUp

\* In every report that was not read across a change of the store's completed
\* sales, the days, the channels and the products add up to the totals, and the
\* stock and what was sold to what was bought (dashboard/services/reports.py:15-118).
THEOREM ReportAddsUpAlways == Spec => []ReportAddsUp
<1>1. IInv /\ RInv => ReportAddsUp
  <2> SUFFICES ASSUME IInv, RInv, NEW r \in Request,
                      task[r].kind = "report", pc[r] = "done", r \notin torn,
                      NEW a, a = Answer(r),
                      NEW revenue,
                      revenue = SumFunction([p \in DOMAIN a.products |-> a.products[p].revenue]),
                      NEW units,
                      units = SumFunction([p \in DOMAIN a.products |-> a.products[p].sold])
               PROVE  /\ a.totals = Parts(a.daily) /\ a.totals = Parts(a.channels)
                      /\ revenue <= a.totals.revenue
                      /\ Cardinality(DOMAIN a.products) < TopSize => revenue = a.totals.revenue
                      /\ GrossProfit(a.totals, a.items) <= a.totals.revenue
                      /\ a.low \cap a.out = {}
                      /\ memo[r].from = 0 /\ day <= memo[r].to
                           /\ Cardinality(DOMAIN a.products) < TopSize
                           /\ memo[r].store \in DOMAIN stock
                           => a.inventory.stock + units = SumFunction(Opening)
    BY DEF ReportAddsUp, Parts
  <2>1. DOMAIN memo[r].answer = ReportNames /\ AnswerOf(r) /\ StoreOf(r)
    BY DEF RInv, IsReport, ReaderOf
  <2>2. PICK F, S, K, from, to :
          /\ F = memo[r].answer["totals"] /\ S = F.sales /\ K = DOMAIN S
          /\ from = memo[r].from /\ to = memo[r].to
    OBVIOUS
  <2>3. /\ from \in Int /\ to \in Int
        /\ \A n \in ReportNames : memo[r].answer[n] = F
        /\ Found(F, from, to)
        /\ from = 0 /\ day <= to /\ memo[r].store \in DOMAIN stock => Balanced(F)
    BY <2>1, <2>2 DEF AnswerOf, StoreOf
  <2>4. /\ a.totals = SalesTotals(S, K) /\ a.items = ItemTotals(S, K)
        /\ a.daily = Daily(S, K, from, to) /\ a.channels = Channels(S, K)
        /\ a.products = Products(S, K, ProductOf)
        /\ a.inventory = Inventory(F.stock, PurchasePrice, SalePrice)
        /\ a.low = LowStock(F.stock) /\ a.out = OutOfStock(F.stock)
    BY <2>1, <2>2, <2>3, AnswerIs
  <2>5. a.inventory.stock = SumFunction(F.stock)
    BY <2>4 DEF Inventory
  <2>6. PICK P : P = a.products
    OBVIOUS
  <2>7. AddsUp(F, S, K, from, to, P, revenue, units)
    <3>1. /\ P = Products(S, K, ProductOf)
          /\ revenue = SumFunction([p \in DOMAIN P |-> P[p].revenue])
          /\ units = SumFunction([p \in DOMAIN P |-> P[p].sold])
      BY <2>4, <2>6
    <3>2. from \in Int /\ to \in Int /\ Found(F, from, to) /\ S = F.sales /\ K = DOMAIN S
      BY <2>2, <2>3
    <3>3. QED
      BY <3>1, <3>2, SnapshotAddsUp, Zenon
  <2>8. /\ a.totals = Parts(a.daily) /\ a.totals = Parts(a.channels)
        /\ revenue <= a.totals.revenue
        /\ Cardinality(DOMAIN a.products) < TopSize => revenue = a.totals.revenue
    BY <2>4, <2>6, <2>7 DEF AddsUp
  <2>9. /\ GrossProfit(a.totals, a.items) <= a.totals.revenue
        /\ a.low \cap a.out = {}
    BY <2>4, <2>7 DEF AddsUp
  <2>10. Balanced(F) /\ Cardinality(DOMAIN a.products) < TopSize
           => a.inventory.stock + units = SumFunction(Opening)
    BY <2>5, <2>6, <2>7 DEF AddsUp
  <2>11. QED
    BY <2>2, <2>3, <2>8, <2>9, <2>10
<1>2. QED
  BY <1>1, ReportInvariance, PTL

\* What a store has in stock, and what its completed sales took, is what was
\* bought for it: cancelling gives back exactly what completing took, and a
\* rebuild gives the new store no stock of the old (sales/services.py:221-334,
\* stores/demo.py:145-206).
THEOREM StockBalances == Spec => []BalanceInv
<1>1. IInv /\ RInv => BalanceInv
  BY DEF RInv
<1>2. QED
  BY <1>1, ReportInvariance, PTL
=============================================================================
