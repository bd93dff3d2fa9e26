--------------------------- MODULE RowLocksProofs ---------------------------
(***************************************************************************)
(* What the transactions of RowLocks may rely on, whatever they are used   *)
(* for: a lock that a request has, or is about to take in its current      *)
(* statement, is not lost before the transaction ends, and no lock has two *)
(* holders.                                                                *)
(***************************************************************************)
EXTENDS RowLocks, TLAPS

\* The rows that r has locked or comes to lock in its current statement.
Reserved(r) == held[r] \cup {plan[r][i] : i \in DOMAIN plan[r]}

\* Rows: those that statements lock.
LocksInv(Rows) ==
  /\ DOMAIN pc = Request /\ DOMAIN held = Request /\ DOMAIN plan = Request
  /\ \A r \in Request : plan[r] \in Seq(Rows)
  /\ \A q, r \in Request : q # r => held[q] \cap held[r] = {}

\* Everybody but r stays where he is.
OthersRest(r) ==
  /\ task' = task
  /\ \A q \in Request \ {r} : /\ pc'[q] = pc[q] /\ held'[q] = held[q]
                              /\ plan'[q] = plan[q]

LEMMA AllHeld ==
  ASSUME NEW r \in Request, plan[r] = << >>
  PROVE  Reserved(r) = held[r]
  BY DEF Reserved

LEMMA AtHolds ==
  ASSUME NEW r \in Request, NEW where, At(r, where)
  PROVE  pc[r] = where /\ Reserved(r) = held[r]
  BY AllHeld DEF At

LEMMA LocksInit ==
  ASSUME NEW Rows, AtRest
  PROVE  /\ LocksInv(Rows) /\ task \in Traffic
         /\ \A r \in Request : pc[r] = "idle" /\ held[r] = {} /\ plan[r] = << >>
  BY DEF AtRest, LocksInv

LEMMA GotoEffect ==
  ASSUME NEW Rows, LocksInv(Rows), NEW r \in Request, NEW where,
         NEW rows \in Seq(Rows), Goto(r, where, rows)
  PROVE  /\ LocksInv(Rows)' /\ OthersRest(r)
         /\ pc'[r] = where /\ plan'[r] = rows /\ held'[r] = held[r]
<1>1. /\ DOMAIN pc' = Request /\ DOMAIN plan' = Request /\ held' = held
      /\ OthersRest(r)
      /\ pc'[r] = where /\ plan'[r] = rows
  BY DEF Goto, LocksInv, OthersRest
<1>2. \A q \in Request : plan'[q] \in Seq(Rows)
  <2>1. rows \in Seq(Rows)
    OBVIOUS
  <2>2. \A q \in Request : plan[q] \in Seq(Rows)
    BY DEF LocksInv
  <2>3. \A q \in Request : plan'[q] \in {plan[q], rows}
    BY <1>1 DEF OthersRest
  <2>4. QED
    BY <2>1, <2>2, <2>3
<1>3. QED
  BY <1>1, <1>2 DEF LocksInv

LEMMA FinishEffect ==
  ASSUME NEW Rows, LocksInv(Rows), NEW r \in Request, NEW outcome,
         Finish(r, outcome)
  PROVE  /\ LocksInv(Rows)' /\ OthersRest(r)
         /\ pc'[r] = outcome /\ plan'[r] = << >> /\ held'[r] = {}
<1>1. /\ DOMAIN pc' = Request /\ DOMAIN plan' = Request /\ DOMAIN held' = Request
      /\ OthersRest(r)
      /\ pc'[r] = outcome /\ plan'[r] = << >> /\ held'[r] = {}
  BY DEF Finish, LocksInv, OthersRest
<1>2. \A q \in Request : plan'[q] \in Seq(Rows)
  <2>1. << >> \in Seq(Rows)
    OBVIOUS
  <2>2. \A q \in Request : plan[q] \in Seq(Rows)
    BY DEF LocksInv
  <2>3. \A q \in Request : plan'[q] \in {plan[q], << >>}
    BY <1>1 DEF OthersRest
  <2>4. QED
    BY <2>1, <2>2, <2>3
<1>3. \A p, q \in Request : p # q => held'[p] \cap held'[q] = {}
  <2>1. \A q \in Request : held'[q] \subseteq held[q]
    BY <1>1 DEF OthersRest
  <2>2. \A p, q \in Request : p # q => held[p] \cap held[q] = {}
    BY DEF LocksInv
  <2>3. QED
    BY <2>1, <2>2
<1>4. QED
  BY <1>1, <1>2, <1>3 DEF LocksInv

LEMMA AcquireEffect ==
  ASSUME NEW Rows, LocksInv(Rows), NEW r \in Request, Acquire(r)
  PROVE  /\ LocksInv(Rows)' /\ OthersRest(r)
         /\ pc'[r] = pc[r] /\ held[r] \subseteq held'[r]
         /\ Reserved(r)' = Reserved(r)
<1>1. /\ DOMAIN pc' = Request /\ DOMAIN plan' = Request /\ DOMAIN held' = Request
      /\ OthersRest(r) /\ pc' = pc
      /\ plan'[r] = Tail(plan[r]) /\ held'[r] = held[r] \cup {Head(plan[r])}
      /\ plan[r] # << >> /\ plan[r] \in Seq(Rows)
  BY DEF Acquire, LocksInv, OthersRest
<1>2. \A q \in Request : plan'[q] \in Seq(Rows)
  <2>1. Tail(plan[r]) \in Seq(Rows)
    BY <1>1
  <2>2. \A q \in Request : plan[q] \in Seq(Rows)
    BY DEF LocksInv
  <2>3. \A q \in Request : plan'[q] \in {plan[q], Tail(plan[r])}
    BY <1>1 DEF OthersRest
  <2>4. QED
    BY <2>1, <2>2, <2>3
<1>3. \A q \in Request \ {r} : Head(plan[r]) \notin held[q]
  BY DEF Acquire, Free
<1>4. \A p, q \in Request : p # q => held'[p] \cap held'[q] = {}
  <2>1. \A p, q \in Request : p # q => held[p] \cap held[q] = {}
    BY DEF LocksInv
  <2>2. \A q \in Request \ {r} : held'[q] = held[q]
    BY <1>1 DEF OthersRest
  <2>3. \A q \in Request \ {r} : held'[q] \cap held'[r] = {}
    BY <1>1, <1>3, <2>1, <2>2
  <2>4. QED
    BY <2>1, <2>2, <2>3
<1>5. Reserved(r)' = Reserved(r)
  <2>1. ASSUME NEW s \in Seq(Rows), s # << >>
        PROVE  {s[i] : i \in DOMAIN s}
                 = {Head(s)} \cup {Tail(s)[i] : i \in DOMAIN Tail(s)}
    <3>1. /\ Len(s) \in Nat \ {0} /\ DOMAIN s = 1..Len(s) /\ Head(s) = s[1]
          /\ DOMAIN Tail(s) = 1..(Len(s) - 1)
          /\ \A i \in 1..(Len(s) - 1) : Tail(s)[i] = s[i + 1]
      BY <2>1
    <3>2. ASSUME NEW i \in 1..Len(s), i # 1
          PROVE  i - 1 \in 1..(Len(s) - 1) /\ s[i] = Tail(s)[i - 1]
      BY <3>1, <3>2
    <3>3. \A i \in 1..(Len(s) - 1) : i + 1 \in 1..Len(s)
      BY <3>1
    <3>4. ASSUME NEW x \in {s[i] : i \in DOMAIN s}
          PROVE  x \in {Head(s)} \cup {Tail(s)[i] : i \in DOMAIN Tail(s)}
      <4>1. PICK i \in 1..Len(s) : x = s[i]
        BY <3>1
      <4>2. CASE i = 1
        BY <3>1, <4>1, <4>2
      <4>3. CASE i # 1
        BY <3>1, <3>2, <4>1, <4>3
      <4>4. QED
        BY <4>2, <4>3
    <3>5. ASSUME NEW x \in {Tail(s)[i] : i \in DOMAIN Tail(s)}
          PROVE  x \in {s[i] : i \in DOMAIN s}
      BY <3>1, <3>3
    <3>6. Head(s) \in {s[i] : i \in DOMAIN s}
      BY <3>1
    <3>7. QED
      BY <3>4, <3>5, <3>6
  <2>2. {plan[r][i] : i \in DOMAIN plan[r]}
          = {Head(plan[r])} \cup {Tail(plan[r])[i] : i \in DOMAIN Tail(plan[r])}
    BY <1>1, <2>1
  <2>3. QED
    BY <1>1, <2>2 DEF Reserved
<1>6. QED
  BY <1>1, <1>2, <1>4, <1>5 DEF LocksInv

\* The orders in which a statement takes a finite set of locks.
LEMMA OrdersAreSequences ==
  ASSUME NEW Rows, NEW S \in SUBSET Rows, Cardinality(S) \in Nat,
         NEW rows \in Orders(S)
  PROVE  rows \in Seq(Rows) /\ {rows[i] : i \in DOMAIN rows} = S
<1>1. /\ rows \in [1..Cardinality(S) -> S]
      /\ \A x \in S : \E i \in DOMAIN rows : rows[i] = x
  BY DEF Orders
<1>2. rows \in Seq(Rows)
  BY <1>1
<1>3. QED
  BY <1>1, <1>2
=============================================================================
