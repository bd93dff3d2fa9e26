------------------------- MODULE WantedDemandProofs -------------------------
(***************************************************************************)
(* Why the counter of a wanted product agrees with its customers' requests *)
(* for any number of demands, saves and deletions.  A transaction that has *)
(* locked a wanted product finds it as it was when it commits; one that    *)
(* has inserted a wanted product is alone with its name and its key.  Only *)
(* save() writes a counter that it has read earlier.                       *)
(***************************************************************************)
EXTENDS WantedDemand, FiniteSetTheorems, TLAPS

Types ==
  /\ name \in [Row -> Name \cup {NoName}]
  /\ count \in [Row -> Nat]
  /\ asked \in [Row -> SUBSET Request]
  /\ pc \in [Request -> {"idle", "inserting", "inserted", "again", "locked",
                         "loaded", "swept", "deleting", "done", "failed"}]
  /\ lock \in [Row -> Request \cup {Nobody}]
  /\ target \in [Request -> Row]
  /\ memo \in [Request -> Fields]
  /\ dropped \subseteq Request

\* Each kind of request has its own points.
KindInv ==
  \A r \in Request :
    /\ pc[r] \in {"inserting", "inserted", "again", "locked"}
         => Task[r].kind = "demand"
    /\ pc[r] = "loaded" => Task[r].kind = "save" /\ memo[r].name \in Name
    /\ pc[r] \in {"swept", "deleting"} => Task[r].kind = "delete"

\* The unique key of the table.
UniqueInv == \A v, w \in Row : Exists(v) /\ name[v] = name[w] => v = w

\* A locked wanted product waits for its transaction unchanged.
LockedInv ==
  \A r \in Request :
    /\ pc[r] = "locked" =>
         lock[target[r]] = r /\ name[target[r]] = Task[r].name
    /\ pc[r] = "deleting" => lock[Task[r].row] = r

\* An uncommitted row is the only one of its name.
InsertedInv ==
  \A r \in Request : pc[r] = "inserted" =>
    /\ target[r] = Task[r].row /\ Named(Task[r].name) = {}
    /\ Uncommitted(Task[r].name) = {r}

\* The primary keys whose demand has been committed.
Created ==
  {w \in Row : \E q \in Request : /\ Task[q].kind = "demand" /\ Task[q].row = w
                                  /\ pc[q] = "done"}

\* What exists, or could be saved again, was inserted by a demand.
CreatedInv ==
  /\ \A w \in Row : Exists(w) => w \in Created
  /\ \A r \in Request : pc[r] = "loaded" => Task[r].row \in Created

\* Requests on record are committed demands for one existing product.
AskedInv ==
  \A w \in Row :
    /\ IsFiniteSet(asked[w])
    /\ \A r \in asked[w] :
         /\ Task[r].kind = "demand" /\ pc[r] = "done" /\ Exists(w)
         /\ \A v \in Row \ {w} : r \notin asked[v]

IInv == /\ Types /\ KindInv /\ UniqueInv /\ LockedInv /\ InsertedInv
        /\ CreatedInv /\ AskedInv
        /\ CountIsDemandUnlessSaved /\ DemandIsRecorded
-----------------------------------------------------------------------------
(* Steps *)

\* The steps that change no table, by the point their request comes to.
ReadOnly(r) ==
  \/ LockExisting(r) \/ FindNothing(r) \/ Insert(r) \/ InsertConflicts(r)
  \/ LostAgain(r) \/ LoadForSave(r) \/ SaveConflicts(r) \/ SweepRequests(r)
  \/ DeleteRow(r) \/ DeleteConflicts(r) \/ NotFound(r) \/ Crash(r)

LEMMA Steps ==
  ASSUME [Next]_vars
  PROVE  \/ \E r \in Request :
              ReadOnly(r) \/ CommitDemand(r) \/ Save(r) \/ CommitDelete(r)
         \/ UNCHANGED vars
  BY DEF Next, Begin, Advance, Rest, ReadOnly

LEMMA Absent == NoName \notin Name /\ Nobody \notin Request
  BY WantedAssumption

LEMMA TaskFields ==
  \A r \in Request :
    /\ Task[r].kind \in {"demand", "save", "delete"}
    /\ Task[r].row \in Row
    /\ Task[r].kind = "demand" => Task[r].name \in Name
    /\ Task[r].kind = "save" => Task[r].name \in Name \cup {NoName}
  BY WantedAssumption DEF Operation

\* One request goes on and the others stay where they are; nobody leaves
\* "done".
LEMMA OneMoves ==
  ASSUME Types, NEW r \in Request,
         ReadOnly(r) \/ CommitDemand(r) \/ Save(r) \/ CommitDelete(r)
  PROVE  /\ pc[r] # "done"
         /\ \A q \in Request \ {r} : /\ pc'[q] = pc[q] /\ target'[q] = target[q]
                                    /\ memo'[q] = memo[q]
  BY DEF Types, ReadOnly, LockExisting, FindNothing, Insert, InsertConflicts,
    LostAgain, LoadForSave, SaveConflicts, SweepRequests, DeleteRow,
    DeleteConflicts, NotFound, Crash, CommitDemand, Save, CommitDelete,
    Begun, Fail, End, Goto

\* A transaction that ends or goes on does not touch the locks of others.
LEMMA OthersLocks ==
  ASSUME Types, NEW r \in Request,
         ReadOnly(r) \/ CommitDemand(r) \/ Save(r) \/ CommitDelete(r)
  PROVE  \A w \in Row : \A q \in Request \ {r} : lock[w] = q => lock'[w] = q
  BY Absent
  DEF Types, ReadOnly, LockExisting, FindNothing, Insert, InsertConflicts,
    LostAgain, LoadForSave, SaveConflicts, SweepRequests, DeleteRow,
    DeleteConflicts, NotFound, Crash, CommitDemand, Save, CommitDelete,
    Fail, End, Goto, Free

LEMMA ReadOnlyTables ==
  ASSUME Types, NEW r \in Request, ReadOnly(r)
  PROVE  UNCHANGED <<name, count, asked, dropped>> /\ pc'[r] # "done"
  BY DEF Types, tables, ReadOnly, LockExisting, FindNothing, Insert, InsertConflicts,
    LostAgain, LoadForSave, SaveConflicts, SweepRequests, DeleteRow,
    DeleteConflicts, NotFound, Crash, Fail, End, Goto
LEMMA TypesStep ==
  ASSUME Types, KindInv, [Next]_vars
  PROVE  Types'
<1> USE TaskFields
<1>1. ASSUME NEW r \in Request
      PROVE  Free(r) \in [Row -> Request \cup {Nobody}]
  BY DEF Types, Free
<1>2. ASSUME NEW w \in Row
      PROVE  Copy(w) \in Fields
  BY DEF Types, Copy, Fields
<1>3. ASSUME NEW r \in Request, Fail(r)
      PROVE  Types'
  BY <1>1, <1>3 DEF Types, Fail, End, Goto, tables
<1>4. ASSUME NEW r \in Request, LockExisting(r) \/ FindNothing(r) \/ Insert(r)
                                  \/ InsertConflicts(r) \/ DeleteRow(r)
      PROVE  Types'
  BY <1>4 DEF Types, LockExisting, FindNothing, Insert, InsertConflicts,
    DeleteRow, Named, Goto, tables
<1>5. ASSUME NEW r \in Request, LoadForSave(r) \/ SweepRequests(r)
      PROVE  Types'
  BY <1>2, <1>5 DEF Types, LoadForSave, SweepRequests, Goto, tables
<1>6. ASSUME NEW r \in Request, LostAgain(r) \/ SaveConflicts(r)
                     \/ DeleteConflicts(r) \/ NotFound(r) \/ Crash(r)
      PROVE  Types'
  BY <1>3, <1>6 DEF LostAgain, SaveConflicts, DeleteConflicts, NotFound, Crash
<1>7. ASSUME NEW r \in Request, CommitDemand(r)
      PROVE  Types'
  <2>1. Task[r].name \in Name /\ target[r] \in Row
    BY <1>7 DEF CommitDemand, KindInv, Types
  <2>2. /\ name' \in [Row -> Name \cup {NoName}]
        /\ count' \in [Row -> Nat]
        /\ asked' \in [Row -> SUBSET Request]
    BY <1>7, <2>1 DEF CommitDemand, Types
  <2>3. QED
    BY <1>1, <1>7, <2>2 DEF CommitDemand, End, Goto, Types
<1>8. ASSUME NEW r \in Request, Save(r)
      PROVE  Types'
  <2>1. NewName(r) \in Name
    BY <1>8 DEF Save, NewName, KindInv
  <2>2. memo[r].count \in Nat
    BY DEF Types, Fields
  <2>3. QED
    BY <1>1, <1>8, <2>1, <2>2 DEF Save, End, Goto, Types
<1>9. ASSUME NEW r \in Request, CommitDelete(r)
      PROVE  Types'
  <2>1. asked[Task[r].row] \subseteq Request
    BY DEF Types
  <2>2. QED
    BY <1>1, <1>9, <2>1 DEF CommitDelete, End, Goto, Types
<1>10. CASE UNCHANGED vars
  BY <1>10 DEF vars, tables, Types
<1>11. QED
  BY <1>4, <1>5, <1>6, <1>7, <1>8, <1>9, <1>10, Steps DEF ReadOnly

LEMMA KindStep ==
  ASSUME Types, KindInv, [Next]_vars
  PROVE  KindInv'
<1>1. ASSUME NEW r \in Request,
             ReadOnly(r) \/ CommitDemand(r) \/ Save(r) \/ CommitDelete(r)
      PROVE  KindInv'
  <2>1. ASSUME NEW q \in Request, q # r
        PROVE  pc'[q] = pc[q] /\ memo'[q] = memo[q]
    BY <1>1, <2>1, OneMoves
  <2>2. /\ pc'[r] \in {"inserting", "inserted", "again", "locked"}
             => Task[r].kind = "demand"
        /\ pc'[r] = "loaded" => Task[r].kind = "save" /\ memo'[r].name \in Name
        /\ pc'[r] \in {"swept", "deleting"} => Task[r].kind = "delete"
    <3>1. CASE LoadForSave(r)
      BY <3>1, TaskFields DEF LoadForSave, Goto, Copy, Exists, Types
    <3>2. CASE ~ LoadForSave(r)
      BY <1>1, <3>2 DEF Types, KindInv, ReadOnly, LockExisting, FindNothing,
        Insert, InsertConflicts, LostAgain, SaveConflicts, SweepRequests,
        DeleteRow, DeleteConflicts, NotFound, Crash, CommitDemand, Save,
        CommitDelete, Fail, End, Goto
    <3>3. QED
      BY <3>1, <3>2
  <2>3. QED
    BY <2>1, <2>2 DEF KindInv
<1>2. CASE UNCHANGED vars
  BY <1>2 DEF vars, KindInv
<1>3. QED
  BY <1>1, <1>2, Steps

\* What the three kinds of commits do to the rows.
LEMMA DemandEffect ==
  ASSUME Types, KindInv, NEW r \in Request, CommitDemand(r)
  PROVE  /\ target[r] \in Row /\ Task[r].kind = "demand" /\ Task[r].name \in Name
         /\ \A w \in Row : name'[w] =
              IF w = target[r] THEN Task[r].name ELSE name[w]
         /\ \A w \in Row : count'[w] =
              IF w # target[r] THEN count[w]
              ELSE IF pc[r] = "inserted" THEN 1 ELSE count[w] + 1
         /\ \A w \in Row : asked'[w] =
              IF w = target[r] THEN asked[w] \cup {r} ELSE asked[w]
         /\ pc'[r] = "done" /\ pc[r] \in {"locked", "inserted"}
         /\ UNCHANGED dropped
<1>1. target[r] \in Row /\ Task[r].kind = "demand" /\ Task[r].name \in Name
  BY TaskFields DEF CommitDemand, KindInv, Types
<1>2. QED
  BY <1>1 DEF CommitDemand, End, Goto, Types

LEMMA SaveEffect ==
  ASSUME Types, KindInv, NEW r \in Request, Save(r)
  PROVE  /\ Task[r].row \in Row /\ Task[r].kind = "save" /\ NewName(r) \in Name
         /\ \A w \in Row :
              name'[w] = IF w = Task[r].row THEN NewName(r) ELSE name[w]
         /\ \A w \in Row : w # Task[r].row => count'[w] = count[w]
         /\ pc'[r] = "done" /\ pc[r] = "loaded" /\ lock[Task[r].row] = Nobody
         /\ Admitted(r) /\ UNCHANGED <<asked, dropped>>
<1>1. Task[r].row \in Row /\ NewName(r) \in Name
  BY TaskFields DEF Save, KindInv, NewName
<1>2. QED
  BY <1>1 DEF Save, End, Goto, Types

LEMMA DeleteEffect ==
  ASSUME Types, KindInv, NEW r \in Request, CommitDelete(r)
  PROVE  /\ Task[r].row \in Row /\ Task[r].kind = "delete"
         /\ \A w \in Row : name'[w] =
              IF w = Task[r].row THEN NoName ELSE name[w]
         /\ \A w \in Row : asked'[w] =
              IF w = Task[r].row THEN {} ELSE asked[w]
         /\ pc'[r] = "done" /\ pc[r] = "deleting"
         /\ dropped' = dropped \cup asked[Task[r].row] /\ UNCHANGED count
<1>1. Task[r].row \in Row /\ Task[r].kind = "delete"
  BY TaskFields DEF CommitDelete, KindInv
<1>2. QED
  BY <1>1 DEF CommitDelete, End, Goto, Types

LEMMA LoadedStep ==
  ASSUME Types, NEW r \in Request, ReadOnly(r), pc'[r] = "loaded"
  PROVE  LoadForSave(r)
  BY DEF Types, ReadOnly, LockExisting, FindNothing, Insert,
    InsertConflicts, LostAgain, LoadForSave, SaveConflicts, SweepRequests,
    DeleteRow, DeleteConflicts, NotFound, Crash, Fail, End, Goto

\* A demand is identified by the key that it may insert.
LEMMA OwnKey ==
  \A q, r \in Request : /\ Task[q].kind = "demand" /\ Task[r].kind = "demand"
                        /\ Task[q].row = Task[r].row
                        => q = r
  BY WantedAssumption

\* A name and a key are found unused at the insertion and stay so.
LEMMA NewKey ==
  ASSUME KindInv, CreatedInv, NEW q \in Request, pc[q] = "inserted"
  PROVE  /\ ~ Exists(Task[q].row)
         /\ \A r \in Request : pc[r] = "loaded" => Task[r].row # Task[q].row
<1>1. Task[q].kind = "demand" /\ Task[q].row \in Row
  BY TaskFields DEF KindInv
<1>2. Task[q].row \notin Created
  BY <1>1, OwnKey DEF Created
<1>3. QED
  BY <1>1, <1>2 DEF CreatedInv

LEMMA CreatedStep ==
  ASSUME Types, KindInv, LockedInv, InsertedInv, CreatedInv, [Next]_vars
  PROVE  CreatedInv'
<1> USE TaskFields
<1>1. ASSUME NEW r \in Request,
             ReadOnly(r) \/ CommitDemand(r) \/ Save(r) \/ CommitDelete(r),
             NEW w \in Created
      PROVE  w \in Created'
  BY <1>1, OneMoves DEF Created
<1>2. ASSUME NEW r \in Request, ReadOnly(r)
      PROVE  CreatedInv'
  <2>1. \A q \in Request : pc'[q] = "loaded" =>
          pc[q] = "loaded" \/ Exists(Task[q].row)
    BY <1>2, OneMoves, LoadedStep DEF LoadForSave
  <2>2. name' = name
    BY <1>2, ReadOnlyTables
  <2>3. Created \subseteq Created'
    BY <1>1, <1>2
  <2>4. QED
    BY <2>1, <2>2, <2>3 DEF CreatedInv, Exists
<1>3. ASSUME NEW r \in Request, CommitDemand(r)
      PROVE  CreatedInv'
  <2>1. target[r] \in Created'
    <3>1. CASE pc[r] = "locked"
      <4>1. Exists(target[r]) /\ target[r] \in Row
        BY <1>3, <3>1, DemandEffect, Absent DEF LockedInv, Exists
      <4>2. QED
        BY <1>1, <1>3, <4>1 DEF CreatedInv
    <3>2. CASE pc[r] = "inserted"
      BY <1>3, <3>2, DemandEffect DEF InsertedInv, Created
    <3>3. QED
      BY <1>3, <3>1, <3>2, DemandEffect
  <2>2. \A w \in Row : Exists(w)' => Exists(w) \/ w = target[r]
    BY <1>3, DemandEffect DEF Exists
  <2>3. \A q \in Request : pc'[q] = "loaded" => pc[q] = "loaded"
    BY <1>3, DemandEffect, OneMoves
  <2>4. QED
    BY <1>1, <1>3, <2>1, <2>2, <2>3 DEF CreatedInv
<1>4. ASSUME NEW r \in Request, Save(r) \/ CommitDelete(r)
      PROVE  CreatedInv'
  <2>1. ASSUME NEW w \in Row, Exists(w)'
        PROVE  Exists(w) \/ (Save(r) /\ w = Task[r].row)
    <3>1. CASE Save(r)
      BY <2>1, <3>1, SaveEffect DEF Exists
    <3>2. CASE CommitDelete(r)
      BY <2>1, <3>2, DeleteEffect DEF Exists
    <3>3. QED
      BY <1>4, <3>1, <3>2
  <2>2. \A q \in Request : pc'[q] = "loaded" => pc[q] = "loaded"
    BY <1>4, SaveEffect, DeleteEffect, OneMoves
  <2>3. Save(r) => Task[r].row \in Created
    BY SaveEffect DEF CreatedInv
  <2>4. QED
    BY <1>1, <1>4, <2>1, <2>2, <2>3 DEF CreatedInv
<1>5. CASE UNCHANGED vars
  BY <1>5 DEF vars, tables, CreatedInv, Created, Exists
<1>6. QED
  BY <1>2, <1>3, <1>4, <1>5, Steps
\* Which point a step of a transaction comes from.
LEMMA PointsStep ==
  ASSUME Types, NEW r \in Request, ReadOnly(r)
  PROVE  /\ pc'[r] = "locked" => LockExisting(r)
         /\ pc'[r] = "inserted" => Insert(r)
         /\ pc'[r] = "deleting" => DeleteRow(r)
         /\ pc'[r] \notin {"locked", "inserted"} => target'[r] = target[r]
<1> USE DEF Types, Goto, Fail, End
<1>1. CASE LockExisting(r)
  BY <1>1 DEF LockExisting
<1>2. CASE Insert(r)
  BY <1>2 DEF Insert
<1>3. CASE DeleteRow(r)
  BY <1>3 DEF DeleteRow
<1>4. CASE LoadForSave(r) \/ SweepRequests(r) \/ FindNothing(r) \/ InsertConflicts(r)
  BY <1>4 DEF LoadForSave, SweepRequests, FindNothing, InsertConflicts
<1>5. CASE LostAgain(r) \/ SaveConflicts(r) \/ DeleteConflicts(r)
             \/ NotFound(r) \/ Crash(r)
  BY <1>5 DEF LostAgain, SaveConflicts, DeleteConflicts, NotFound, Crash
<1>6. QED
  BY <1>1, <1>2, <1>3, <1>4, <1>5 DEF ReadOnly

LEMMA LockedStep ==
  ASSUME Types, KindInv, CreatedInv, LockedInv, InsertedInv, [Next]_vars
  PROVE  LockedInv'
<1> USE TaskFields
<1>1. ASSUME NEW r \in Request,
             ReadOnly(r) \/ CommitDemand(r) \/ Save(r) \/ CommitDelete(r)
      PROVE  LockedInv'
  <2>1. ASSUME NEW q \in Request \ {r}, pc'[q] = "locked"
        PROVE  lock'[target'[q]] = q /\ name'[target'[q]] = Task[q].name
    <3>1. /\ pc[q] = "locked" /\ target'[q] = target[q] /\ target[q] \in Row
          /\ lock[target[q]] = q /\ name[target[q]] = Task[q].name
          /\ Exists(target[q])
      BY <1>1, <2>1, OneMoves, Absent
      DEF LockedInv, KindInv, Types, Exists
    <3>2. lock'[target[q]] = q
      BY <1>1, <2>1, <3>1, OthersLocks
    <3>3. name'[target[q]] = name[target[q]]
      <4>1. CASE ReadOnly(r)
        BY <4>1, ReadOnlyTables
      <4>2. CASE CommitDemand(r)
        <5>1. CASE pc[r] = "locked"
          <6>1. target[q] # target[r]
            BY <2>1, <3>1, <5>1 DEF LockedInv
          <6>2. QED
            BY <3>1, <4>2, <6>1, DemandEffect
        <5>2. CASE pc[r] = "inserted"
          <6>1. target[q] # target[r]
            BY <3>1, <5>2, NewKey DEF InsertedInv
          <6>2. QED
            BY <3>1, <4>2, <6>1, DemandEffect
        <5>3. QED
          BY <4>2, <5>1, <5>2, DemandEffect
      <4>3. CASE Save(r)
        BY <3>1, <4>3, SaveEffect, Absent
      <4>4. CASE CommitDelete(r)
        BY <2>1, <3>1, <4>4, DeleteEffect DEF LockedInv
      <4>5. QED
        BY <1>1, <4>1, <4>2, <4>3, <4>4
    <3>4. QED
      BY <3>1, <3>2, <3>3
  <2>2. ASSUME NEW q \in Request \ {r}, pc'[q] = "deleting"
        PROVE  lock'[Task[q].row] = q
    BY <1>1, <2>2, OneMoves, OthersLocks DEF LockedInv
  <2>3. ASSUME pc'[r] = "locked"
        PROVE  lock'[target'[r]] = r /\ name'[target'[r]] = Task[r].name
    <3>1. LockExisting(r)
      BY <1>1, <2>3, PointsStep, DemandEffect, SaveEffect, DeleteEffect
    <3>2. QED
      BY <3>1 DEF LockExisting, Named, Types, tables
  <2>4. ASSUME pc'[r] = "deleting"
        PROVE  lock'[Task[r].row] = r
    <3>1. DeleteRow(r)
      BY <1>1, <2>4, PointsStep, DemandEffect, SaveEffect, DeleteEffect
    <3>2. QED
      BY <3>1 DEF DeleteRow, Types
  <2>5. QED
    BY <2>1, <2>2, <2>3, <2>4 DEF LockedInv
<1>2. CASE UNCHANGED vars
  BY <1>2 DEF vars, tables, LockedInv
<1>3. QED
  BY <1>1, <1>2, Steps

LEMMA InsertedStep ==
  ASSUME Types, KindInv, LockedInv, InsertedInv, [Next]_vars
  PROVE  InsertedInv'
<1> USE TaskFields
<1>1. ASSUME NEW r \in Request,
             ReadOnly(r) \/ CommitDemand(r) \/ Save(r) \/ CommitDelete(r),
             NEW q \in Request, pc'[q] = "inserted"
      PROVE  /\ target'[q] = Task[q].row
             /\ \A w \in Row : name'[w] # Task[q].name
             /\ \A p \in Request : /\ pc'[p] = "inserted"
                                   /\ Task[p].name = Task[q].name
                                   => p = q
  <2>1. CASE Insert(r)
    <3>1. /\ \A w \in Row : name[w] # Task[r].name
          /\ \A p \in Request : pc[p] = "inserted" => Task[p].name # Task[r].name
          /\ target'[r] = Task[r].row /\ name' = name
      BY <2>1 DEF Insert, Named, Uncommitted, Types, tables
    <3>2. CASE q = r
      BY <1>1, <3>1, <3>2, OneMoves
    <3>3. CASE q # r
      <4>1. pc[q] = "inserted" /\ target'[q] = target[q]
        BY <1>1, <3>3, OneMoves
      <4>2. QED
        BY <1>1, <3>1, <3>3, <4>1, OneMoves DEF InsertedInv, Named, Uncommitted
    <3>4. QED
      BY <3>2, <3>3
  <2>2. CASE ~ Insert(r)
    <3>1. pc'[r] # "inserted"
      BY <1>1, <2>2, PointsStep, DemandEffect, SaveEffect, DeleteEffect
    <3>2. /\ q # r /\ pc[q] = "inserted" /\ target'[q] = target[q]
          /\ target[q] = Task[q].row /\ Task[q].kind = "demand"
          /\ \A w \in Row : name[w] # Task[q].name
          /\ \A p \in Request : /\ pc[p] = "inserted"
                                /\ Task[p].name = Task[q].name
                                => p = q
      BY <1>1, <3>1, OneMoves DEF InsertedInv, Named, Uncommitted, KindInv
    <3>3. \A w \in Row : name'[w] # Task[q].name
      <4>1. CASE ReadOnly(r)
        BY <3>2, <4>1, ReadOnlyTables
      <4>2. CASE CommitDemand(r)
        <5>1. Task[r].name # Task[q].name
          BY <3>2, <4>2, DemandEffect DEF LockedInv
        <5>2. \A w \in Row : name'[w] \in {Task[r].name, name[w]}
          BY <4>2, DemandEffect
        <5>3. QED
          BY <3>2, <5>1, <5>2
      <4>3. CASE Save(r)
        <5>1. NewName(r) # Task[q].name
          BY <3>2, <4>3, SaveEffect DEF Admitted, Uncommitted
        <5>2. QED
          BY <3>2, <4>3, <5>1, SaveEffect
      <4>4. CASE CommitDelete(r)
        BY <3>2, <4>4, DeleteEffect, Absent
      <4>5. QED
        BY <1>1, <4>1, <4>2, <4>3, <4>4
    <3>4. QED
      BY <1>1, <3>1, <3>2, <3>3, OneMoves
  <2>3. QED
    BY <2>1, <2>2
<1>2. ASSUME NEW r \in Request,
             ReadOnly(r) \/ CommitDemand(r) \/ Save(r) \/ CommitDelete(r)
      PROVE  InsertedInv'
  BY <1>1, <1>2 DEF InsertedInv, Named, Uncommitted
<1>3. CASE UNCHANGED vars
  BY <1>3 DEF vars, tables, InsertedInv, Named, Uncommitted
<1>4. QED
  BY <1>2, <1>3, Steps
LEMMA UniqueStep ==
  ASSUME Types, KindInv, LockedInv, InsertedInv, UniqueInv, [Next]_vars
  PROVE  UniqueInv'
<1>1. ASSUME NEW r \in Request, CommitDemand(r)
      PROVE  UniqueInv'
  <2>1. ASSUME NEW w \in Row, w # target[r]
        PROVE  name[w] # Task[r].name
    <3>1. CASE pc[r] = "locked"
      BY <1>1, <2>1, <3>1, DemandEffect, Absent
      DEF LockedInv, UniqueInv, Exists
    <3>2. CASE pc[r] = "inserted"
      BY <2>1, <3>2 DEF InsertedInv, Named
    <3>3. QED
      BY <1>1, <3>1, <3>2, DemandEffect
  <2>2. \A w \in Row : name'[w] = IF w = target[r] THEN Task[r].name ELSE name[w]
    BY <1>1, DemandEffect, Zenon
  <2>3. QED
    BY <2>1, <2>2 DEF UniqueInv, Exists
<1>2. ASSUME NEW r \in Request, Save(r)
      PROVE  UniqueInv'
  <2>1. \A w \in Row : w # Task[r].row => name[w] # NewName(r)
    BY <1>2, SaveEffect DEF Admitted, Named
  <2>2. QED
    BY <1>2, <2>1, SaveEffect DEF UniqueInv, Exists
<1>3. ASSUME NEW r \in Request, CommitDelete(r)
      PROVE  UniqueInv'
  BY <1>3, DeleteEffect DEF UniqueInv, Exists
<1>4. ASSUME NEW r \in Request, ReadOnly(r)
      PROVE  UniqueInv'
  BY <1>4, ReadOnlyTables DEF UniqueInv, Exists
<1>5. CASE UNCHANGED vars
  BY <1>5 DEF vars, tables, UniqueInv, Exists
<1>6. QED
  BY <1>1, <1>2, <1>3, <1>4, <1>5, Steps

-----------------------------------------------------------------------------
(* Demands and counters *)

LEMMA AskedStep ==
  ASSUME Types, KindInv, LockedInv, InsertedInv, AskedInv, [Next]_vars
  PROVE  AskedInv'
<1>1. ASSUME NEW r \in Request, CommitDemand(r)
      PROVE  AskedInv'
  <2>1. \A w \in Row : r \notin asked[w]
    BY <1>1, DemandEffect DEF AskedInv
  <2>2. \A q \in Request : pc[q] = "done" => pc'[q] = "done"
    BY <1>1, OneMoves
  <2>3. Task[r].name # NoName /\ Task[r].kind = "demand" /\ pc'[r] = "done"
        /\ target[r] \in Row
    BY <1>1, DemandEffect, Absent
  <2>4. \A w \in Row : name'[w] = IF w = target[r] THEN Task[r].name ELSE name[w]
    BY <1>1, DemandEffect, Zenon
  <2>5. \A w \in Row :
          asked'[w] = IF w = target[r] THEN asked[w] \cup {r} ELSE asked[w]
    BY <1>1, DemandEffect
  <2>6. \A w \in Row : IsFiniteSet(asked'[w])
    <3>1. \A w \in Row : IsFiniteSet(asked[w]) /\ IsFiniteSet(asked[w] \cup {r})
      BY FS_AddElement DEF AskedInv
    <3>2. QED
      BY <2>5, <3>1
  <2>7. ASSUME NEW w \in Row, NEW q \in asked'[w]
        PROVE  /\ Task[q].kind = "demand" /\ pc'[q] = "done" /\ name'[w] # NoName
               /\ \A v \in Row \ {w} : q \notin asked'[v]
    <3>1. q \in Request
      BY <1>1, <2>5, <2>7 DEF Types
    <3>2. CASE q = r
      BY <2>1, <2>3, <2>4, <2>5, <2>7, <3>2
    <3>3. CASE q # r
      <4>1. q \in asked[w]
        BY <2>5, <2>7, <3>3
      <4>2. /\ Task[q].kind = "demand" /\ pc[q] = "done" /\ name[w] # NoName
            /\ \A v \in Row \ {w} : q \notin asked[v]
        BY <4>1 DEF AskedInv, Exists
      <4>3. name'[w] # NoName
        BY <2>3, <2>4, <4>2
      <4>4. \A v \in Row \ {w} : q \notin asked'[v]
        BY <2>5, <3>3, <4>2
      <4>5. QED
        BY <2>2, <3>1, <4>2, <4>3, <4>4
    <3>4. QED
      BY <3>2, <3>3
  <2>8. QED
    BY <2>6, <2>7 DEF AskedInv, Exists
<1>2. ASSUME NEW r \in Request, Save(r)
      PROVE  AskedInv'
  <2>1. \A q \in Request : pc[q] = "done" => pc'[q] = "done"
    BY <1>2, OneMoves
  <2>2. \A w \in Row : name[w] # NoName => name'[w] # NoName
    BY <1>2, SaveEffect, Absent
  <2>3. asked' = asked /\ asked \in [Row -> SUBSET Request]
    BY <1>2, SaveEffect DEF Types
  <2>4. QED
    BY <2>1, <2>2, <2>3 DEF AskedInv, Exists
<1>3. ASSUME NEW r \in Request, CommitDelete(r)
      PROVE  AskedInv'
  <2>1. \A q \in Request : pc[q] = "done" => pc'[q] = "done"
    BY <1>3, OneMoves
  <2>2. \A w \in Row : /\ asked'[w] \in {{}, asked[w]}
                       /\ w = Task[r].row => asked'[w] = {}
                       /\ w # Task[r].row => name'[w] = name[w]
    BY <1>3, DeleteEffect
  <2>3. \A w \in Row : asked[w] \subseteq Request
    BY DEF Types
  <2>4. \A w \in Row : IsFiniteSet(asked'[w])
    BY <2>2, FS_EmptySet DEF AskedInv
  <2>5. ASSUME NEW w \in Row, NEW q \in asked'[w]
        PROVE  /\ Task[q].kind = "demand" /\ pc'[q] = "done" /\ name'[w] # NoName
               /\ \A v \in Row \ {w} : q \notin asked'[v]
    BY <2>1, <2>2, <2>3, <2>5 DEF AskedInv, Exists
  <2>6. QED
    BY <2>4, <2>5 DEF AskedInv, Exists
<1>4. ASSUME NEW r \in Request, ReadOnly(r)
      PROVE  AskedInv'
  <2>1. \A q \in Request : pc[q] = "done" => pc'[q] = "done"
    BY <1>4, OneMoves
  <2>2. asked' = asked /\ name' = name /\ asked \in [Row -> SUBSET Request]
    BY <1>4, ReadOnlyTables DEF Types
  <2>3. QED
    BY <2>1, <2>2 DEF AskedInv, Exists
<1>5. CASE UNCHANGED vars
  BY <1>5 DEF vars, tables, AskedInv, Exists
<1>6. QED
  BY <1>1, <1>2, <1>3, <1>4, <1>5, Steps

\* Nobody leaves "done", so a saved product stays a saved one.
LEMMA SavedStays ==
  ASSUME Types, NEW r \in Request,
         ReadOnly(r) \/ CommitDemand(r) \/ Save(r) \/ CommitDelete(r),
         NEW w \in Row, Saved(w)
  PROVE  \E q \in Request : /\ Task[q].kind = "save" /\ Task[q].row = w
                            /\ pc'[q] = "done"
<1>1. \A q \in Request : pc[q] = "done" => pc'[q] = "done"
  BY OneMoves
<1>2. QED
  BY <1>1 DEF Saved

\* A demand adds one to the set and to the counter of its product.
LEMMA DemandCounts ==
  ASSUME Types, KindInv, CreatedInv, InsertedInv, LockedInv, AskedInv,
         NEW r \in Request, CommitDemand(r), Saved(target[r]) \/ Counted(target[r])
  PROVE  Saved(target[r]) \/ count'[target[r]] = Cardinality(asked'[target[r]])
<1>1. /\ target[r] \in Row /\ asked'[target[r]] = asked[target[r]] \cup {r}
      /\ count'[target[r]] = IF pc[r] = "inserted" THEN 1 ELSE count[target[r]] + 1
      /\ pc[r] \in {"locked", "inserted"}
  <2>1. target[r] \in Row /\ pc[r] \in {"locked", "inserted"}
    BY DemandEffect
  <2>2. \A w \in Row : asked'[w] = IF w = target[r] THEN asked[w] \cup {r} ELSE asked[w]
    BY DemandEffect, Zenon
  <2>3. \A w \in Row : count'[w] =
          IF w # target[r] THEN count[w]
          ELSE IF pc[r] = "inserted" THEN 1 ELSE count[w] + 1
    BY DemandEffect, Zenon
  <2>4. QED
    BY <2>1, <2>2, <2>3
<1>2. CASE pc[r] = "inserted"
  <2>1. ~ Exists(target[r])
    BY <1>2, NewKey DEF InsertedInv
  <2>2. asked[target[r]] = {}
    BY <1>1, <2>1 DEF AskedInv
  <2>3. QED
    BY <1>1, <1>2, <2>2, FS_Singleton
<1>3. CASE pc[r] = "locked"
  <2>1. Exists(target[r])
    BY <1>3, TaskFields, Absent DEF LockedInv, KindInv, Exists
  <2>2. r \notin asked[target[r]] /\ IsFiniteSet(asked[target[r]])
    BY <1>1, <1>3 DEF AskedInv
  <2>3. Cardinality(asked[target[r]] \cup {r}) = Cardinality(asked[target[r]]) + 1
    BY <2>2, FS_AddElement
  <2>4. QED
    BY <1>1, <1>3, <2>1, <2>3 DEF Counted
<1>4. QED
  BY <1>1, <1>2, <1>3

LEMMA CountStep ==
  ASSUME Types, KindInv, CreatedInv, InsertedInv, LockedInv, AskedInv,
         CountIsDemandUnlessSaved, [Next]_vars
  PROVE  CountIsDemandUnlessSaved'
<1>1. ASSUME NEW r \in Request,
             ReadOnly(r) \/ CommitDemand(r) \/ Save(r) \/ CommitDelete(r),
             NEW w \in Row
      PROVE  \/ \E q \in Request : /\ Task[q].kind = "save" /\ Task[q].row = w
                                   /\ pc'[q] = "done"
             \/ name'[w] # NoName => count'[w] = Cardinality(asked'[w])
  <2>1. CASE Saved(w)
    BY <1>1, <2>1, SavedStays
  <2>2. CASE ~ Saved(w)
    <3>1. Counted(w)
      BY <2>2 DEF CountIsDemandUnlessSaved
    <3>2. CASE ReadOnly(r)
      BY <3>1, <3>2, ReadOnlyTables DEF Counted, Exists
    <3>3. CASE CommitDemand(r)
      <4>1. CASE w = target[r]
        BY <2>2, <3>1, <3>3, <4>1, DemandCounts
      <4>2. CASE w # target[r]
        <5>1. name'[w] = name[w] /\ count'[w] = count[w] /\ asked'[w] = asked[w]
          <6>1. \A v \in Row : name'[v] = IF v = target[r] THEN Task[r].name ELSE name[v]
            BY <3>3, DemandEffect, Zenon
          <6>2. \A v \in Row : count'[v] =
                  IF v # target[r] THEN count[v]
                  ELSE IF pc[r] = "inserted" THEN 1 ELSE count[v] + 1
            BY <3>3, DemandEffect, Zenon
          <6>3. \A v \in Row : asked'[v] =
                  IF v = target[r] THEN asked[v] \cup {r} ELSE asked[v]
            BY <3>3, DemandEffect, Zenon
          <6>4. QED
            BY <4>2, <6>1, <6>2, <6>3
        <5>2. QED
          BY <3>1, <5>1 DEF Counted, Exists
      <4>3. QED
        BY <4>1, <4>2
    <3>4. CASE Save(r)
      <4>1. CASE w = Task[r].row
        BY <3>4, <4>1, SaveEffect
      <4>2. CASE w # Task[r].row
        <5>1. name'[w] = name[w] /\ count'[w] = count[w] /\ asked'[w] = asked[w]
          BY <3>4, <4>2, SaveEffect
        <5>2. QED
          BY <3>1, <5>1 DEF Counted, Exists
      <4>3. QED
        BY <4>1, <4>2
    <3>5. CASE CommitDelete(r)
      <4>1. CASE w = Task[r].row
        BY <3>5, <4>1, DeleteEffect
      <4>2. CASE w # Task[r].row
        <5>1. name'[w] = name[w] /\ count'[w] = count[w] /\ asked'[w] = asked[w]
          BY <3>5, <4>2, DeleteEffect
        <5>2. QED
          BY <3>1, <5>1 DEF Counted, Exists
      <4>3. QED
        BY <4>1, <4>2
    <3>6. QED
      BY <1>1, <3>2, <3>3, <3>4, <3>5
  <2>3. QED
    BY <2>1, <2>2
<1>2. ASSUME NEW r \in Request,
             ReadOnly(r) \/ CommitDemand(r) \/ Save(r) \/ CommitDelete(r)
      PROVE  CountIsDemandUnlessSaved'
  BY <1>1, <1>2 DEF CountIsDemandUnlessSaved, Saved, Counted, Exists
<1>3. CASE UNCHANGED vars
  BY <1>3 DEF vars, tables, CountIsDemandUnlessSaved, Saved, Counted, Exists
<1>4. QED
  BY <1>2, <1>3, Steps

\* A demand is on record with one existing product.
OnRecord(r) ==
  \E w \in Row : /\ name[w] # NoName /\ r \in asked[w]
                 /\ \A v \in Row \ {w} : r \notin asked[v]

LEMMA RecordedStep ==
  ASSUME Types, KindInv, AskedInv, DemandIsRecorded, [Next]_vars
  PROVE  DemandIsRecorded'
<1>1. ASSUME NEW r \in Request,
             ReadOnly(r) \/ CommitDemand(r) \/ Save(r) \/ CommitDelete(r),
             NEW q \in Request, Task[q].kind = "demand", pc'[q] = "done"
      PROVE  q \in dropped' \/ OnRecord(q)'
  <2>1. CASE q = r
    <3>1. CommitDemand(r)
      BY <1>1, <2>1, ReadOnlyTables, SaveEffect, DeleteEffect
    <3>2. \A w \in Row : q \notin asked[w]
      BY <2>1, <3>1, DemandEffect DEF AskedInv
    <3>3. /\ target[r] \in Row /\ name'[target[r]] # NoName
          /\ asked'[target[r]] = asked[target[r]] \cup {r}
          /\ \A v \in Row \ {target[r]} : asked'[v] = asked[v]
      <4>1. target[r] \in Row /\ Task[r].name # NoName
        BY <3>1, DemandEffect, Absent
      <4>2. name'[target[r]] = Task[r].name
        BY <3>1, <4>1, DemandEffect
      <4>3. \A v \in Row : asked'[v] =
              IF v = target[r] THEN asked[v] \cup {r} ELSE asked[v]
        BY <3>1, DemandEffect, Zenon
      <4>4. QED
        BY <4>1, <4>2, <4>3
    <3>4. QED
      BY <2>1, <3>2, <3>3 DEF OnRecord
  <2>2. CASE q # r
    <3>1. pc[q] = "done"
      BY <1>1, <2>2, OneMoves
    <3>2. q \in dropped \/ OnRecord(q)
      BY <1>1, <3>1 DEF DemandIsRecorded, OnRecord, Exists
    <3>3. dropped \subseteq dropped'
      BY <1>1, ReadOnlyTables, DemandEffect, SaveEffect, DeleteEffect
    <3>4. ASSUME NEW w \in Row, name[w] # NoName, q \in asked[w],
                 \A v \in Row \ {w} : q \notin asked[v]
          PROVE  q \in dropped' \/ OnRecord(q)'
      <4>1. CASE ReadOnly(r)
        <5>1. name' = name /\ asked' = asked
          BY <4>1, ReadOnlyTables
        <5>2. QED
          BY <3>4, <5>1 DEF OnRecord
      <4>2. CASE CommitDemand(r)
        <5>1. name'[w] # NoName
          <6>1. Task[r].name # NoName
            BY <4>2, DemandEffect, Absent
          <6>2. QED
            BY <3>4, <4>2, <6>1, DemandEffect
        <5>2. \A v \in Row : asked'[v] \in {asked[v], asked[v] \cup {r}}
          <6>1. \A v \in Row : asked'[v] =
                  IF v = target[r] THEN asked[v] \cup {r} ELSE asked[v]
            BY <4>2, DemandEffect, Zenon
          <6>2. QED
            BY <6>1
        <5>3. QED
          BY <2>2, <3>4, <5>1, <5>2 DEF OnRecord
      <4>3. CASE Save(r)
        <5>1. name'[w] # NoName /\ asked' = asked
          BY <3>4, <4>3, SaveEffect, Absent
        <5>2. QED
          BY <3>4, <5>1 DEF OnRecord
      <4>4. CASE CommitDelete(r)
        <5>1. CASE w = Task[r].row
          BY <3>4, <4>4, <5>1, DeleteEffect
        <5>2. CASE w # Task[r].row
          <6>1. /\ name'[w] = name[w] /\ asked'[w] = asked[w]
                /\ \A v \in Row : asked'[v] \in {asked[v], {}}
            BY <4>4, <5>2, DeleteEffect
          <6>2. QED
            BY <3>4, <6>1 DEF OnRecord
        <5>3. QED
          BY <5>1, <5>2
      <4>5. QED
        BY <1>1, <4>1, <4>2, <4>3, <4>4
    <3>5. QED
      BY <3>2, <3>3, <3>4 DEF OnRecord
  <2>3. QED
    BY <2>1, <2>2
<1>2. ASSUME NEW r \in Request,
             ReadOnly(r) \/ CommitDemand(r) \/ Save(r) \/ CommitDelete(r)
      PROVE  DemandIsRecorded'
  BY <1>1, <1>2 DEF DemandIsRecorded, OnRecord, Exists
<1>3. CASE UNCHANGED vars
  BY <1>3 DEF vars, tables, DemandIsRecorded, Exists
<1>4. QED
  BY <1>2, <1>3, Steps

-----------------------------------------------------------------------------
(* The theorems *)

LEMMA InitIInv == Init => IInv
<1> SUFFICES ASSUME Init PROVE IInv
  OBVIOUS
<1> USE TaskFields, Absent
<1>1. \A w \in Row : name[w] = NoName /\ asked[w] = {} /\ count[w] = 0
  BY DEF Init
<1>2. \A r \in Request : pc[r] = "idle"
  BY DEF Init
<1>3. \A w \in Row : Copy(w) \in Fields
  BY <1>1 DEF Copy, Fields
<1>4. Types
  BY <1>3 DEF Init, Types
<1>5. KindInv /\ LockedInv /\ InsertedInv /\ UniqueInv /\ DemandIsRecorded
  BY <1>1, <1>2
  DEF KindInv, LockedInv, InsertedInv, UniqueInv, DemandIsRecorded, Exists
<1>6. CreatedInv /\ AskedInv /\ CountIsDemandUnlessSaved
  BY <1>1, <1>2, FS_EmptySet
  DEF CreatedInv, AskedInv, CountIsDemandUnlessSaved, Counted, Exists
<1>7. QED
  BY <1>4, <1>5, <1>6 DEF IInv

LEMMA InductiveStep == IInv /\ [Next]_vars => IInv'
  BY TypesStep, KindStep, UniqueStep, LockedStep, InsertedStep, CreatedStep,
    AskedStep, CountStep, RecordedStep DEF IInv

LEMMA Invariance == Spec => []IInv
  BY InitIInv, InductiveStep, PTL DEF Spec

\* At most one wanted product of a store has a given name and size, whatever
\* requests insert, rename and delete at the same time.
THEOREM NamesAreUnique == Spec => []TypeOK
<1>1. ASSUME Types, UniqueInv, NEW n \in Name
      PROVE  Cardinality(Named(n)) <= 1
  <2>1. CASE Named(n) = {}
    BY <2>1, FS_EmptySet
  <2>2. CASE Named(n) # {}
    <3>1. PICK w \in Row : name[w] = n
      BY <2>2 DEF Named
    <3>2. Named(n) = {w}
      BY <1>1, <3>1, Absent DEF UniqueInv, Named, Exists
    <3>3. Cardinality(Named(n)) = 1
      BY <3>2, FS_Singleton
    <3>4. QED
      BY <3>3
  <2>3. QED
    BY <2>1, <2>2
<1>2. IInv => TypeOK
  BY <1>1 DEF IInv, Types, TypeOK
<1>3. QED
  BY Invariance, <1>2, PTL

\* The counter of a wanted product that nobody has saved is the number of the
\* requests for it, for any number of demands that overlap, are retried on a
\* conflict, crash or lose the product to a deletion.
THEOREM CountIsDemandTheorem == Spec => []CountIsDemandUnlessSaved
<1>1. IInv => CountIsDemandUnlessSaved
  BY DEF IInv
<1>2. QED
  BY Invariance, <1>1, PTL

\* A demand answered with success is on record, once, until its product is
\* deleted by a request that has seen it.
THEOREM DemandsAreRecorded == Spec => []DemandIsRecorded
<1>1. IInv => DemandIsRecorded
  BY DEF IInv
<1>2. QED
  BY Invariance, <1>1, PTL
=============================================================================
