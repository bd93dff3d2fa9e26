------------------------------ MODULE RowLocks ------------------------------
(***************************************************************************)
(* Requests as PostgreSQL transactions under READ COMMITTED.  A statement  *)
(* that locks rows (SELECT ... FOR UPDATE, UPDATE) takes them one at a     *)
(* time, in the order of its plan; every lock is held until the end of the *)
(* transaction.  A request ends "done" (committed) or "failed": refused by *)
(* a validation or a constraint, rolled back as the victim of a deadlock,  *)
(* or lost with its process.  What requests ask for and the keys of rows   *)
(* are left to the module that extends this one.                           *)
(***************************************************************************)
EXTENDS Naturals, Sequences, FiniteSets

CONSTANTS
  Request,  \* requests that may arrive, in any order, at any time
  Traffic   \* what they may ask for together: functions on Request

VARIABLES
  task,  \* Request -> what it asks for
  pc,    \* Request -> the point its handler has reached
  held,  \* Request -> the rows its transaction has locked
  plan   \* Request -> the rows its current statement has still to lock

transaction == <<task, pc, held, plan>>

AtRest ==
  /\ task \in Traffic
  /\ pc = [r \in Request |-> "idle"]
  /\ held = [r \in Request |-> {}]
  /\ plan = [r \in Request |-> << >>]

Free(r, row) == \A q \in Request \ {r} : row \notin held[q]

WaitsFor(r) ==
  IF plan[r] = << >> THEN {}
  ELSE {q \in Request \ {r} : Head(plan[r]) \in held[q]}

\* A set of requests each of which waits for, and is waited for by, another.
WaitCycle(S) == \A q \in S : /\ WaitsFor(q) \cap S # {}
                             /\ \E p \in S : q \in WaitsFor(p)

Deadlocked(r) ==
  \E S \in SUBSET {q \in Request : WaitsFor(q) # {}} : r \in S /\ WaitCycle(S)

Acquire(r) ==
  /\ plan[r] # << >>
  /\ Free(r, Head(plan[r]))
  /\ held' = [held EXCEPT ![r] = @ \cup {Head(plan[r])}]
  /\ plan' = [plan EXCEPT ![r] = Tail(@)]
  /\ UNCHANGED <<task, pc>>

\* The handler runs on from "where" once its statement has all its locks.
At(r, where) == pc[r] = where /\ plan[r] = << >>

\* The handler goes on to "where" by a statement that locks some rows.
Goto(r, where, rows) ==
  /\ pc' = [pc EXCEPT ![r] = where]
  /\ plan' = [plan EXCEPT ![r] = rows]
  /\ UNCHANGED <<task, held>>

\* The orders in which one statement may come to a set of rows.
Orders(S) ==
  {rows \in [1..Cardinality(S) -> S] : \A x \in S : \E i \in DOMAIN rows : rows[i] = x}

Finish(r, outcome) ==
  /\ pc' = [pc EXCEPT ![r] = outcome]
  /\ plan' = [plan EXCEPT ![r] = << >>]
  /\ held' = [held EXCEPT ![r] = {}]
  /\ UNCHANGED task

\* The handler goes on if "ok", and otherwise raises an error: its
\* transaction is rolled back.
GotoIf(ok, r, where, rows) ==
  IF ok THEN Goto(r, where, rows) ELSE Finish(r, "failed")

Ended(r) == pc[r] \in {"done", "failed"}
Running(r) == pc[r] # "idle" /\ ~ Ended(r)

\* The process dies or loses its connection: PostgreSQL rolls back.
Crash(r) == Running(r) /\ Finish(r, "failed")

\* PostgreSQL rolls back one of the transactions of a deadlock.
ResolveDeadlock(r) == Deadlocked(r) /\ Finish(r, "failed")
=============================================================================
