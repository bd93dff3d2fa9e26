---------------------------- MODULE WantedDemand ----------------------------
(***************************************************************************)
(* The demand for products a store does not have: create_wanted adds a     *)
(* request row to the wanted product of that name and size and increments  *)
(* its counter; the detail view saves and deletes wanted products.         *)
(*                                                                         *)
(* PostgreSQL runs the requests under READ COMMITTED.  A locking read      *)
(* waits for the holder of the row and then sees the row as it is; an      *)
(* insertion waits for an uncommitted row of the same unique key; foreign  *)
(* keys are deferred and looked at when the transaction commits.           *)
(***************************************************************************)
EXTENDS Integers, FiniteSets

CONSTANTS
  Row,       \* primary keys of wanted products
  Name,      \* (product_name, size) pairs, within one store
  NoName,    \* a primary key without a row, or a PATCH without these fields
  Request,   \* HTTP requests
  Task,      \* what each request asks for
  Nobody     \* the holder of a free row lock

Operation ==      [kind: {"demand"}, name: Name, row: Row]
             \cup [kind: {"save"}, name: Name \cup {NoName}, row: Row]
             \cup [kind: {"delete"}, row: Row]

\* A demand names the primary key its wanted product gets if it inserts one.
ASSUME WantedAssumption ==
  /\ NoName \notin Name /\ Nobody \notin Request
  /\ Task \in [Request -> Operation]
  /\ \A q, r \in Request :
       q # r /\ Task[q].kind = "demand" /\ Task[r].kind = "demand"
         => Task[q].row # Task[r].row

VARIABLES
  (* committed tables *)
  name,    \* Row -> its name and size, or NoName when there is no such row
  count,   \* Row -> wanted_count
  asked,   \* Row -> the requests whose WantedCustomerRequest refers to it
  (* requests *)
  pc,      \* Request -> the point it has reached
  lock,    \* Row -> the request whose transaction has it locked, or Nobody
  target,  \* Request -> the row its transaction works on
  memo,    \* Request -> the wanted product and its requests as it read them
  (* only read by the properties *)
  dropped  \* demands that were deleted together with their wanted product

tables == <<name, count, asked>>
vars == <<tables, pc, lock, target, memo, dropped>>

Exists(w) == name[w] # NoName
Named(n) == {w \in Row : name[w] = n}

BeingDeleted(w) == lock[w] # Nobody /\ pc[lock[w]] = "deleting"

\* The locks as they are when the transaction of r has ended.
Free(r) == [w \in Row |-> IF lock[w] = r THEN Nobody ELSE lock[w]]

\* The rows with name n that transactions have inserted but not committed.
Uncommitted(n) ==
  {q \in Request : /\ pc[q] = "inserted" /\ Task[q].name = n}

Goto(r, point) == pc' = [pc EXCEPT ![r] = point]

End(r, point) ==
  /\ Goto(r, point)
  /\ lock' = Free(r)

Fail(r) ==
  /\ End(r, "failed")
  /\ UNCHANGED <<tables, target, memo, dropped>>

-----------------------------------------------------------------------------
(* create_wanted *)

\* SELECT ... FOR UPDATE finds the wanted product and locks it, at the first
\* attempt or again after the insertion has failed.
LockExisting(r) ==
  /\ Task[r].kind = "demand"
  /\ pc[r] \in {"idle", "again"}
  /\ \E w \in Named(Task[r].name) :
       /\ lock[w] = Nobody
       /\ lock' = [lock EXCEPT ![w] = r]
       /\ target' = [target EXCEPT ![r] = w]
  /\ Goto(r, "locked")
  /\ UNCHANGED <<tables, memo, dropped>>

FindNothing(r) ==
  /\ Task[r].kind = "demand" /\ pc[r] = "idle"
  /\ Named(Task[r].name) = {}
  /\ Goto(r, "inserting")
  /\ UNCHANGED <<tables, lock, target, memo, dropped>>

\* The insertion succeeds; nobody sees the row before the commit.
Insert(r) ==
  /\ pc[r] = "inserting"
  /\ Uncommitted(Task[r].name) = {} /\ Named(Task[r].name) = {}
  /\ Goto(r, "inserted")
  /\ target' = [target EXCEPT ![r] = Task[r].row]
  /\ UNCHANGED <<tables, lock, memo, dropped>>

\* The unique key is taken: the savepoint is rolled back and the row read
\* again.  A row that is being deleted keeps the insertion waiting.
InsertConflicts(r) ==
  /\ pc[r] = "inserting"
  /\ \E w \in Named(Task[r].name) : ~ BeingDeleted(w)
  /\ Goto(r, "again")
  /\ UNCHANGED <<tables, lock, target, memo, dropped>>

\* The row that was in the way is gone: get_or_create gives up.
LostAgain(r) ==
  /\ pc[r] = "again"
  /\ Named(Task[r].name) = {}
  /\ Fail(r)

\* Faulty form: the insertion leaves the counter to the model's default, 1.
CommitDemandDefault(r) ==
  /\ pc[r] \in {"locked", "inserted"}
  /\ name' = [name EXCEPT ![target[r]] = Task[r].name]
  /\ count' = [count EXCEPT ![target[r]] = IF pc[r] = "inserted" THEN 2 ELSE @ + 1]
  /\ asked' = [asked EXCEPT ![target[r]] = @ \cup {r}]
  /\ End(r, "done")
  /\ UNCHANGED <<target, memo, dropped>>

\* The counter is incremented in the database, from 0 in a new row, and the
\* request row is inserted.
CommitDemand(r) ==
  /\ pc[r] \in {"locked", "inserted"}
  /\ name' = [name EXCEPT ![target[r]] = Task[r].name]
  /\ count' = [count EXCEPT ![target[r]] = IF pc[r] = "inserted" THEN 1 ELSE @ + 1]
  /\ asked' = [asked EXCEPT ![target[r]] = @ \cup {r}]
  /\ End(r, "done")
  /\ UNCHANGED <<target, memo, dropped>>

-----------------------------------------------------------------------------
(* WantedProductDetailView: PUT and PATCH *)

Copy(w) == [name |-> name[w], count |-> count[w], asked |-> asked[w]]

\* get_object reads the row without a lock; a missing one is answered by 404.
LoadForSave(r) ==
  /\ Task[r].kind = "save" /\ pc[r] = "idle"
  /\ Exists(Task[r].row)
  /\ memo' = [memo EXCEPT ![r] = Copy(Task[r].row)]
  /\ Goto(r, "loaded")
  /\ UNCHANGED <<tables, lock, target, dropped>>

NewName(r) == IF Task[r].name = NoName THEN memo[r].name ELSE Task[r].name

\* Faulty form: the row is inserted again without looking at the unique key.
AdmittedAlways(r) == Task[r].kind = "save"

\* The unique key admits the new name.
Admitted(r) ==
  Named(NewName(r)) \subseteq {Task[r].row} /\ Uncommitted(NewName(r)) = {}

\* serializer.save() writes every column, the counter as it was read.  If the
\* row has been deleted meanwhile, save() inserts it again.
Save(r) ==
  /\ Task[r].kind = "save" /\ pc[r] = "loaded"
  /\ lock[Task[r].row] = Nobody
  /\ Admitted(r)
  /\ name' = [name EXCEPT ![Task[r].row] = NewName(r)]
  /\ count' = [count EXCEPT ![Task[r].row] = memo[r].count]
  /\ End(r, "done")
  /\ UNCHANGED <<asked, target, memo, dropped>>

\* Another wanted product has the new name: IntegrityError.
SaveConflicts(r) ==
  /\ Task[r].kind = "save" /\ pc[r] = "loaded"
  /\ lock[Task[r].row] = Nobody
  /\ \E w \in Named(NewName(r)) \ {Task[r].row} : ~ BeingDeleted(w)
  /\ Fail(r)

-----------------------------------------------------------------------------
(* WantedProductDetailView: DELETE *)

\* The cascade deletes the request rows it sees before the wanted product.
SweepRequests(r) ==
  /\ Task[r].kind = "delete" /\ pc[r] = "idle"
  /\ Exists(Task[r].row)
  /\ memo' = [memo EXCEPT ![r] = Copy(Task[r].row)]
  /\ Goto(r, "swept")
  /\ UNCHANGED <<tables, lock, target, dropped>>

DeleteRow(r) ==
  /\ pc[r] = "swept"
  /\ lock[Task[r].row] = Nobody
  /\ lock' = [lock EXCEPT ![Task[r].row] = r]
  /\ Goto(r, "deleting")
  /\ UNCHANGED <<tables, target, memo, dropped>>

\* Faulty form: no foreign key keeps a request row from losing its product.
CommitDeleteUnchecked(r) ==
  /\ pc[r] = "deleting"
  /\ name' = [name EXCEPT ![Task[r].row] = NoName]
  /\ asked' = [asked EXCEPT ![Task[r].row] = @ \ memo[r].asked]
  /\ dropped' = dropped \cup memo[r].asked
  /\ End(r, "done")
  /\ UNCHANGED <<count, target, memo>>

\* The foreign keys hold: no request row has been added since the sweep.
CommitDelete(r) ==
  /\ pc[r] = "deleting"
  /\ asked[Task[r].row] \subseteq memo[r].asked
  /\ name' = [name EXCEPT ![Task[r].row] = NoName]
  /\ asked' = [asked EXCEPT ![Task[r].row] = {}]
  /\ dropped' = dropped \cup asked[Task[r].row]
  /\ End(r, "done")
  /\ UNCHANGED <<count, target, memo>>

\* A request row still refers to the wanted product: IntegrityError.
DeleteConflicts(r) ==
  /\ pc[r] = "deleting"
  /\ ~ (asked[Task[r].row] \subseteq memo[r].asked)
  /\ Fail(r)

-----------------------------------------------------------------------------
(* Specification *)

\* A save or a deletion of a missing row.
NotFound(r) ==
  /\ Task[r].kind \in {"save", "delete"} /\ pc[r] = "idle"
  /\ ~ Exists(Task[r].row)
  /\ Fail(r)

Begun(r) == pc[r] \notin {"idle", "done", "failed"}
Crash(r) == Begun(r) /\ Fail(r)

Init ==
  /\ name = [w \in Row |-> NoName]
  /\ count = [w \in Row |-> 0]
  /\ asked = [w \in Row |-> {}]
  /\ pc = [r \in Request |-> "idle"]
  /\ lock = [w \in Row |-> Nobody]
  /\ target = [r \in Request |-> Task[r].row]
  /\ memo = [r \in Request |-> Copy(Task[r].row)]
  /\ dropped = {}

Begin(r) == \/ FindNothing(r) \/ LoadForSave(r)
            \/ SweepRequests(r) \/ NotFound(r)

Advance(r) == \/ LockExisting(r) \/ Insert(r) \/ InsertConflicts(r) \/ LostAgain(r)
              \/ CommitDemand(r) \/ Save(r) \/ SaveConflicts(r)
              \/ DeleteRow(r) \/ CommitDelete(r) \/ DeleteConflicts(r)

Rest == (\A r \in Request : pc[r] \in {"done", "failed"}) /\ UNCHANGED vars

Next == \/ \E r \in Request : Begin(r) \/ Advance(r) \/ Crash(r)
        \/ Rest

Spec == Init /\ [][Next]_vars

-----------------------------------------------------------------------------
(* Properties *)

Fields == [name: Name \cup {NoName}, count: Nat, asked: SUBSET Request]

\* Types; and no two wanted products of the store have one name and size.
TypeOK ==
  /\ name \in [Row -> Name \cup {NoName}]
  /\ \A n \in Name : Cardinality(Named(n)) <= 1
  /\ count \in [Row -> Nat]
  /\ asked \in [Row -> SUBSET Request]
  /\ pc \in [Request -> {"idle", "inserting", "inserted", "again", "locked",
                         "loaded", "swept", "deleting", "done", "failed"}]
  /\ lock \in [Row -> Request \cup {Nobody}]
  /\ target \in [Request -> Row]
  /\ memo \in [Request -> Fields]
  /\ dropped \subseteq Request

\* The counter of a wanted product is the number of customers' requests for
\* it ("matching requests increment wanted_count atomically").
Counted(w) == Exists(w) => count[w] = Cardinality(asked[w])
CountIsDemand == \A w \in Row : Counted(w)

\* The same for a wanted product that no PUT or PATCH has saved, although its
\* demands overlap, are retried on a conflict, crash, or lose it to a deletion.
Saved(w) == \E r \in Request : /\ Task[r].kind = "save" /\ Task[r].row = w
                              /\ pc[r] = "done"
CountIsDemandUnlessSaved == \A w \in Row : Saved(w) \/ Counted(w)

\* A demand that has been answered with success is on record, once, with an
\* existing wanted product, unless somebody has deleted that product after
\* it: a deletion never takes away a demand it has not seen.
DemandIsRecorded ==
  \A r \in Request : Task[r].kind = "demand" /\ pc[r] = "done" =>
    \/ r \in dropped
    \/ \E w \in Row : /\ Exists(w) /\ r \in asked[w]
                     /\ \A v \in Row \ {w} : r \notin asked[v]
=============================================================================
