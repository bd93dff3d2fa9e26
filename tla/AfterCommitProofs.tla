------------------------- MODULE AfterCommitProofs -------------------------
(***************************************************************************)
(* Why what is done after the commit of a change, at any later time and in *)
(* any order, does no harm: the delivery of an event by Celery workers and *)
(* the invalidation of the cached dashboard of a store.                    *)
(***************************************************************************)
EXTENDS NotificationDelivery, DashboardCache, FiniteSetTheorems, SequenceTheorems, TLAPS

-----------------------------------------------------------------------------
(***************************************************************************)
(* Why no event is tried too often or mailed twice, for any number of      *)
(* events and workers and any limit on retries.                            *)
(*                                                                         *)
(* Attempts are bounded because every task carries tokens: one for each    *)
(* attempt that it may still make.  Handing over a task issues 1 +         *)
(* MaxRetries tokens, an attempt spends one, and a retry carries the rest  *)
(* back to the broker.  E-mails are counted by the row lock: of the        *)
(* workers that hold a task of an event at most one is past the lock, and  *)
(* only it can have an acceptance that the row does not know of yet.       *)
(***************************************************************************)
Runs(w, e) == task[w] # NoTask /\ task[w].event = e

\* The attempts from first[h] on are the tokens of holder h.
Tokens(Holder, first) ==
  {x \in Holder \X (0 .. MaxRetries) : first[x[1]] <= x[2]}

\* The i-th copy of a task that the broker holds is a holder, as is a worker.
\* A task that has made a retries starts with token a; one that has just made
\* its attempt and will be retried has used that token up, too.
Copy == (0 .. MaxRetries) \X Nat

NoToken == MaxRetries + 1

CopyFirst(q, e) ==
  [c \in Copy |-> IF c[2] \in 1 .. q[[event |-> e, retries |-> c[1]]]
                  THEN c[1] ELSE NoToken]

Spent(w) == IF at[w] = "retry" THEN task[w].retries + 1 ELSE task[w].retries

WorkerFirst(e) == [w \in Worker |-> IF Runs(w, e) THEN Spent(w) ELSE NoToken]

CopyTokens(q, e) == Tokens(Copy, CopyFirst(q, e))

WorkerTokens(e) == Tokens(Worker, WorkerFirst(e))

\* No attempt is made without a token.
Budgeted(e) ==
  /\ IsFiniteSet(CopyTokens(queued, e)) /\ IsFiniteSet(WorkerTokens(e))
  /\ attempts[e] + Cardinality(CopyTokens(queued, e))
                 + Cardinality(WorkerTokens(e))
       <= (1 + MaxRetries) * handed[e]

BudgetInv == \A e \in Event : Budgeted(e)

Unsent == {"none", "pending", "failed"}

\* The row of an unsent event is locked by one worker at a time.
LockInv ==
  \A w \in Worker : at[w] \in Locking =>
    /\ status[task[w].event] \in {"pending", "failed"}
    /\ \A v \in Worker : Runs(v, task[w].event) /\ at[v] \in Locking => v = w

\* Whether a worker is about to record that the e-mail of e was accepted.
Unrecorded(e) == \E w \in Worker : Runs(w, e) /\ at[w] = "accepted"

\* The acceptances of an event: those that lapsed, and one that a worker is
\* about to record or that the row records.
Accounted(e) ==
  /\ Unrecorded(e) => mails[e] = lapses[e] + 1
  /\ status[e] \in Unsent /\ ~Unrecorded(e) => mails[e] = lapses[e]
  /\ mails[e] <= 1 + lapses[e]
  /\ status[e] = "sent" => mails[e] = 1 + lapses[e]

MailInv == \A e \in Event : Accounted(e)

IInv == TypeOK /\ LockInv /\ MailInv /\ BudgetInv

-----------------------------------------------------------------------------
(* Types *)

LEMMA InitTypeOK == Init => TypeOK
  BY DeliveryAssumption DEF Init, TypeOK, ListingOK, Point

\* Tasks are records of an event and a number of retries.
LEMMA TaskFields ==
  /\ \A t \in Task : t.event \in Event /\ t.retries \in 0 .. MaxRetries
  /\ \A e \in Event : NewTask(e) \in Task
  /\ \A t \in Task : t.retries < MaxRetries
                       => [t EXCEPT !.retries = @ + 1] \in Task
  BY DeliveryAssumption DEF Task, NewTask

\* A worker that is not idle has a task.
LEMMA WorkerTask ==
  ASSUME TypeOK, NEW w \in Worker, at[w] # "idle"
  PROVE  task[w] \in Task /\ task[w] # NoTask /\ task[w].event \in Event
  BY NoTaskAssumption, TaskFields DEF TypeOK

\* The command's list stays a part of what has been created.
LEMMA ListingStep ==
  ASSUME ListingOK, [Next]_vars
  PROVE  ListingOK'
<1> USE DEF ListingOK, rows, clients
<1>1. ASSUME NEW e \in Event, CommitCheckout(e)
      PROVE  ListingOK'
  BY <1>1, AppendProperties DEF CommitCheckout
<1>2. ASSUME NEW w \in Worker, WorkerStep(w) \/ WorkerDies(w)
      PROVE  UNCHANGED <<created, listed>>
  BY <1>2 DEF WorkerStep, Fetch, SkipEvent, LockEvent, SendAccepted,
    SendRefused, SendUnanswered, SendBreaks, RecordAttempt, RetryLater,
    GiveUp, WorkerDies
<1>3. ASSUME NEW e \in Event,
             EnqueueAfterCommit(e) \/ EnqueueFails(e) \/ DeleteSale(e)
      PROVE  UNCHANGED <<created, listed>>
  BY <1>3 DEF EnqueueAfterCommit, EnqueueFails, DeleteSale
<1>4. CASE CommandStep
  BY <1>4 DEF CommandStep, SelectEvents, QueueListed, CommandFails, Oldest
<1>5. CASE UNCHANGED vars
  BY <1>5 DEF vars
<1>6. QED
  BY <1>1, <1>2, <1>3, <1>4, <1>5 DEF Next, Rest

LEMMA ListedEvent ==
  ASSUME ListingOK, NEW k \in listed
  PROVE  created[k] \in Event
  BY DEF ListingOK

LEMMA TypeStep == TypeOK /\ [Next]_vars => TypeOK'
<1> SUFFICES ASSUME TypeOK, [Next]_vars
             PROVE  TypeOK'
  OBVIOUS
<1> ListingOK'
  BY ListingStep DEF TypeOK
<1> USE TaskFields, WorkerTask, NoTaskAssumption, DeliveryAssumption
    DEF TypeOK, Point, rows, clients, world
<1>1. ASSUME NEW e \in Event, CommitCheckout(e)
      PROVE  TypeOK'
  BY <1>1 DEF CommitCheckout
<1>2. ASSUME NEW e \in Event, EnqueueAfterCommit(e)
      PROVE  TypeOK'
  BY <1>2 DEF EnqueueAfterCommit, Hand, Enqueue
<1>3. ASSUME NEW e \in Event, EnqueueFails(e)
      PROVE  TypeOK'
  BY <1>3 DEF EnqueueFails, Fault
<1>4. ASSUME NEW e \in Event, DeleteSale(e)
      PROVE  TypeOK'
  BY <1>4 DEF DeleteSale
<1>5. ASSUME NEW w \in Worker, Fetch(w)
      PROVE  TypeOK'
  BY <1>5 DEF Fetch
<1>6. ASSUME NEW w \in Worker, SkipEvent(w)
      PROVE  TypeOK'
  BY <1>6 DEF SkipEvent, Finish
<1>7. ASSUME NEW w \in Worker, LockEvent(w)
      PROVE  TypeOK'
  BY <1>7 DEF LockEvent, Goto
<1>8. ASSUME NEW w \in Worker, SendAccepted(w)
      PROVE  TypeOK'
  BY <1>8 DEF SendAccepted, Goto
<1>9. ASSUME NEW w \in Worker, SendRefused(w)
      PROVE  TypeOK'
  BY <1>9 DEF SendRefused, Goto
<1>10. ASSUME NEW w \in Worker, SendUnanswered(w)
       PROVE  TypeOK'
  BY <1>10 DEF SendUnanswered, Goto, Fault
<1>11. ASSUME NEW w \in Worker, SendBreaks(w)
       PROVE  TypeOK'
  BY <1>11 DEF SendBreaks, Goto
<1>12. ASSUME NEW w \in Worker, RecordAttempt(w)
       PROVE  TypeOK'
  <2>1. /\ at' \in [Worker -> Point]
        /\ task' \in [Worker -> Task \cup {NoTask}]
        /\ \A v \in Worker : at'[v] = "idle" <=> task'[v] = NoTask
    BY <1>12 DEF RecordAttempt, Goto, Finish
  <2>2. /\ attempts' \in [Event -> Nat]
        /\ status' \in [Event -> {"none", "pending", "failed", "sent", "deleted"}]
    BY <1>12 DEF RecordAttempt
  <2>3. QED
    BY <1>12, <2>1, <2>2 DEF RecordAttempt
<1>13. ASSUME NEW w \in Worker, RetryLater(w)
       PROVE  TypeOK'
  BY <1>13 DEF RetryLater, Enqueue, Finish
<1>14. ASSUME NEW w \in Worker, GiveUp(w)
       PROVE  TypeOK'
  BY <1>14 DEF GiveUp, Finish
<1>15. ASSUME NEW w \in Worker, WorkerDies(w)
       PROVE  TypeOK'
  BY <1>15 DEF WorkerDies, Fault, Finish
<1>16. CASE SelectEvents
  BY <1>16 DEF SelectEvents
<1>17. CASE QueueListed
  BY <1>17, ListedEvent DEF QueueListed, Hand, Enqueue
<1>18. CASE CommandFails
  BY <1>18 DEF CommandFails, Fault
<1>19. CASE UNCHANGED vars
  BY <1>19 DEF vars
<1>20. QED
  BY <1>1, <1>2, <1>3, <1>4, <1>5, <1>6, <1>7, <1>8, <1>9, <1>10, <1>11,
     <1>12, <1>13, <1>14, <1>15, <1>16, <1>17, <1>18, <1>19
  DEF Next, WorkerStep, CommandStep, Rest
-----------------------------------------------------------------------------
(* The row lock *)

\* No step but LockEvent brings a worker past the lock, and no row changes
\* while another worker has it locked.
LEMMA LockFrame ==
  ASSUME LockInv,
         \A w \in Worker : at'[w] \in Locking =>
           /\ at[w] \in Locking /\ task'[w] = task[w]
           /\ status'[task[w].event] \in {"pending", "failed"}
  PROVE  LockInv'
  BY DEF LockInv, Runs

LEMMA LockStep ==
  ASSUME TypeOK, LockInv, [Next]_vars
  PROVE  LockInv'
<1> USE WorkerTask DEF TypeOK, rows, clients, world, Locking, Point
<1>1. ASSUME NEW e \in Event, CommitCheckout(e)
      PROVE  LockInv'
  <2>1. \A w \in Worker : at'[w] \in Locking =>
          status'[task[w].event] \in {"pending", "failed"}
    BY <1>1 DEF CommitCheckout, LockInv
  <2>2. QED
    BY <1>1, <2>1, LockFrame DEF CommitCheckout
<1>2. ASSUME NEW e \in Event, EnqueueAfterCommit(e) \/ EnqueueFails(e)
      PROVE  LockInv'
  BY <1>2, LockFrame DEF EnqueueAfterCommit, EnqueueFails, LockInv
<1>3. ASSUME NEW e \in Event, DeleteSale(e)
      PROVE  LockInv'
  <2>1. \A w \in Worker : at'[w] \in Locking => task[w].event # e
    BY <1>3 DEF DeleteSale, RowFree
  <2>2. QED
    BY <1>3, <2>1, LockFrame DEF DeleteSale, LockInv
<1>4. ASSUME NEW w \in Worker, Fetch(w)
      PROVE  LockInv'
  BY <1>4, LockFrame DEF Fetch, LockInv
<1>5. ASSUME NEW w \in Worker,
             SkipEvent(w) \/ RetryLater(w) \/ GiveUp(w) \/ WorkerDies(w)
      PROVE  LockInv'
  <2>1. Finish(w) /\ UNCHANGED status
    BY <1>5 DEF SkipEvent, RetryLater, GiveUp, WorkerDies
  <2>2. QED
    BY <2>1, LockFrame DEF Finish, LockInv
<1>6. ASSUME NEW w \in Worker, LockEvent(w)
      PROVE  LockInv'
  <2>1. \A v \in Worker : at'[v] \in Locking => v = w \/ at[v] \in Locking
    BY <1>6 DEF LockEvent, Goto
  <2>2. \A v \in Worker : Runs(v, task[w].event) => at[v] \notin Locking
    BY <1>6 DEF LockEvent, RowFree, Runs
  <2>3. \A v \in Worker : at[v] \in Locking => ~ Runs(v, task[w].event)
                                /\ task[v].event # task[w].event
    BY <2>2 DEF Runs
  <2>4. QED
    BY <1>6, <2>1, <2>3 DEF LockEvent, Goto, LockInv, Runs
<1>7. ASSUME NEW w \in Worker, SendAccepted(w) \/ SendRefused(w)
                                 \/ SendUnanswered(w) \/ SendBreaks(w)
      PROVE  LockInv'
  <2>1. /\ at[w] = "locked" /\ UNCHANGED <<task, status>>
        /\ \A v \in Worker : v # w => at'[v] = at[v]
    BY <1>7 DEF SendAccepted, SendRefused, SendUnanswered, SendBreaks, Goto
  <2>2. QED
    BY <2>1, LockFrame DEF LockInv
<1>8. ASSUME NEW w \in Worker, RecordAttempt(w)
      PROVE  LockInv'
  <2>1. /\ at[w] \in Locking /\ at'[w] \notin Locking
        /\ \A v \in Worker : v # w => at'[v] = at[v] /\ task'[v] = task[v]
    BY <1>8 DEF RecordAttempt, Goto, Finish
  <2>2. \A v \in Worker : at'[v] \in Locking => task[v].event # task[w].event
    BY <2>1 DEF LockInv, Runs
  <2>3. \A v \in Worker : at'[v] \in Locking
                            => status'[task[v].event] = status[task[v].event]
    BY <1>8, <2>2 DEF RecordAttempt
  <2>4. QED
    BY <2>1, <2>3, LockFrame DEF LockInv
<1>9. CASE CommandStep
  BY <1>9, LockFrame
  DEF CommandStep, SelectEvents, QueueListed, CommandFails, LockInv
<1>10. CASE UNCHANGED vars
  BY <1>10, LockFrame DEF vars, LockInv
<1>11. QED
  BY <1>1, <1>2, <1>3, <1>4, <1>5, <1>6, <1>7, <1>8, <1>9, <1>10
  DEF Next, WorkerStep, Rest
-----------------------------------------------------------------------------
(* E-mails *)

\* An event keeps its account if its row keeps its status, or is deleted, and
\* its acceptances stay as they are.
LEMMA MailFrame ==
  ASSUME NEW e \in Event, Accounted(e),
         UNCHANGED <<mails[e], lapses[e]>>,
         Unrecorded(e)' <=> Unrecorded(e),
         \/ status'[e] \in {status[e], "deleted"}
         \/ status'[e] \in Unsent /\ status[e] \in Unsent
  PROVE  Accounted(e)'
  BY DEF Accounted, Unsent

\* Whether an acceptance of e is unrecorded depends on the accepted workers.
LEMMA UnrecordedFrame ==
  ASSUME NEW e \in Event, NEW w \in Worker,
         \A v \in Worker : v # w => at'[v] = at[v] /\ task'[v] = task[v],
         ~ (Runs(w, e) /\ at[w] = "accepted"),
         ~ (Runs(w, e) /\ at[w] = "accepted")'
  PROVE  Unrecorded(e)' <=> Unrecorded(e)
  BY DEF Unrecorded, Runs

\* A worker that alone has the row of its event locked decides whether there
\* is an unrecorded acceptance.
LEMMA UnrecordedHere ==
  ASSUME TypeOK, LockInv, NEW w \in Worker, at[w] \in Locking
  PROVE  /\ Unrecorded(task[w].event) <=> at[w] = "accepted"
         /\ \A v \in Worker : v # w => ~ (Runs(v, task[w].event) /\ at[v] = "accepted")
         /\ status[task[w].event] \in Unsent /\ task[w].event \in Event
         /\ Runs(w, task[w].event)
  BY WorkerTask DEF LockInv, Unrecorded, Runs, Locking, Unsent

LEMMA MailStep ==
  ASSUME TypeOK, LockInv, MailInv, [Next]_vars, NEW e \in Event
  PROVE  Accounted(e)'
<1> USE WorkerTask DEF TypeOK, rows, clients, world
<1>0. Accounted(e)
  BY DEF MailInv
<1>1. ASSUME NEW f \in Event, CommitCheckout(f)
      PROVE  Accounted(e)'
  BY <1>0, <1>1, MailFrame DEF CommitCheckout, Unrecorded, Runs, Unsent
<1>2. ASSUME NEW f \in Event, EnqueueAfterCommit(f) \/ EnqueueFails(f)
      PROVE  Accounted(e)'
  BY <1>0, <1>2, MailFrame
  DEF EnqueueAfterCommit, EnqueueFails, Unrecorded, Runs
<1>3. ASSUME NEW f \in Event, DeleteSale(f)
      PROVE  Accounted(e)'
  BY <1>0, <1>3, MailFrame DEF DeleteSale, Unrecorded, Runs
<1>4. ASSUME NEW w \in Worker,
             \/ Fetch(w) \/ SkipEvent(w) \/ LockEvent(w)
             \/ SendRefused(w) \/ SendBreaks(w) \/ RetryLater(w) \/ GiveUp(w)
      PROVE  Accounted(e)'
  <2>1. /\ \A v \in Worker : v # w => at'[v] = at[v] /\ task'[v] = task[v]
        /\ at[w] # "accepted" /\ at'[w] # "accepted"
        /\ UNCHANGED <<status, mails, lapses>>
    BY <1>4 DEF Fetch, SkipEvent, LockEvent, SendRefused, SendBreaks,
      RetryLater, GiveUp, Goto, Finish
  <2>2. QED
    BY <1>0, <2>1, MailFrame, UnrecordedFrame
<1>5. ASSUME NEW w \in Worker, SendAccepted(w)
      PROVE  Accounted(e)'
  <2>1. at[w] = "locked" /\ at[w] \in Locking
    BY <1>5 DEF SendAccepted, Locking
  <2>2. CASE task[w].event = e
    <3>1. mails[e] = lapses[e] /\ status[e] \in Unsent
      BY <1>0, <2>1, <2>2, UnrecordedHere DEF Accounted
    <3>2. mails'[e] = mails[e] + 1 /\ UNCHANGED <<lapses, status>>
      BY <1>5, <2>2 DEF SendAccepted
    <3>3. Unrecorded(e)'
      BY <1>5, <2>1, <2>2 DEF SendAccepted, Goto, Unrecorded, Runs
    <3>4. QED
      BY <3>1, <3>2, <3>3 DEF Accounted, Unsent
  <2>3. CASE task[w].event # e
    <3>1. /\ \A v \in Worker : v # w => at'[v] = at[v]
          /\ UNCHANGED <<task, status, lapses, mails[e]>>
      BY <1>5, <2>3 DEF SendAccepted, Goto
    <3>2. QED
      BY <1>0, <2>3, <3>1, MailFrame, UnrecordedFrame DEF Runs
  <2>4. QED
    BY <2>2, <2>3
<1>6. ASSUME NEW w \in Worker, SendUnanswered(w)
      PROVE  Accounted(e)'
  <2>1. /\ \A v \in Worker : v # w => at'[v] = at[v] /\ task'[v] = task[v]
        /\ at[w] = "locked" /\ at'[w] = "refused" /\ UNCHANGED status
    BY <1>6 DEF SendUnanswered, Goto
  <2>2. Unrecorded(e)' <=> Unrecorded(e)
    BY <2>1, UnrecordedFrame
  <2>3. CASE task[w].event = e
    <3>1. mails[e] = lapses[e] /\ status[e] \in Unsent /\ ~ Unrecorded(e)
      BY <1>0, <2>1, <2>3, UnrecordedHere DEF Accounted, Locking
    <3>2. mails'[e] = mails[e] + 1 /\ lapses'[e] = lapses[e] + 1
      BY <1>6, <2>3 DEF SendUnanswered
    <3>3. QED
      BY <2>1, <2>2, <3>1, <3>2 DEF Accounted, Unsent
  <2>4. CASE task[w].event # e
    <3>1. UNCHANGED <<mails[e], lapses[e]>>
      BY <1>6, <2>4 DEF SendUnanswered
    <3>2. QED
      BY <1>0, <2>1, <2>2, <3>1, MailFrame
  <2>5. QED
    BY <2>3, <2>4
<1>7. ASSUME NEW w \in Worker, RecordAttempt(w)
      PROVE  Accounted(e)'
  <2>1. /\ \A v \in Worker : v # w => at'[v] = at[v] /\ task'[v] = task[v]
        /\ at[w] \in Locking /\ at'[w] # "accepted"
        /\ UNCHANGED <<mails, lapses>>
    BY <1>7 DEF RecordAttempt, Goto, Finish, Locking
  <2>2. CASE task[w].event = e
    <3>1. ~ Unrecorded(e)'
      BY <2>1, <2>2, UnrecordedHere DEF Unrecorded, Runs
    <3>2. status'[e] = IF at[w] = "accepted" THEN "sent" ELSE "failed"
      BY <1>7, <2>2 DEF RecordAttempt
    <3>3. QED
      BY <1>0, <2>1, <2>2, <3>1, <3>2, UnrecordedHere DEF Accounted, Unsent
  <2>3. CASE task[w].event # e
    <3>1. status'[e] = status[e]
      BY <1>7, <2>3 DEF RecordAttempt
    <3>2. ~ Runs(w, e) /\ ~ (Runs(w, e) /\ at[w] = "accepted")'
      BY <2>1, <2>3 DEF Runs
    <3>3. QED
      BY <1>0, <2>1, <3>1, <3>2, MailFrame, UnrecordedFrame
  <2>4. QED
    BY <2>2, <2>3
<1>8. ASSUME NEW w \in Worker, WorkerDies(w)
      PROVE  Accounted(e)'
  <2>1. /\ \A v \in Worker : v # w => at'[v] = at[v] /\ task'[v] = task[v]
        /\ at'[w] = "idle" /\ UNCHANGED <<mails, status>>
    BY <1>8 DEF WorkerDies, Finish
  <2>2. CASE Runs(w, e) /\ at[w] = "accepted"
    <3>1. /\ ~ Unrecorded(e)'
          /\ Unrecorded(e) /\ status[e] \in Unsent
      BY <2>1, <2>2, UnrecordedHere DEF Unrecorded, Runs, Locking
    <3>2. lapses'[e] = lapses[e] + 1
      BY <1>8, <2>2 DEF WorkerDies, Runs
    <3>3. QED
      BY <1>0, <2>1, <3>1, <3>2 DEF Accounted, Unsent
  <2>3. CASE ~ (Runs(w, e) /\ at[w] = "accepted")
    <3>1. UNCHANGED lapses[e]
      BY <1>8, <2>3 DEF WorkerDies, Runs
    <3>2. QED
      BY <1>0, <2>1, <2>3, <3>1, MailFrame, UnrecordedFrame
  <2>4. QED
    BY <2>2, <2>3
<1>9. CASE CommandStep
  BY <1>0, <1>9, MailFrame
  DEF CommandStep, SelectEvents, QueueListed, CommandFails, Unrecorded, Runs
<1>10. CASE UNCHANGED vars
  BY <1>0, <1>10, MailFrame DEF vars, Unrecorded, Runs
<1>11. QED
  BY <1>1, <1>2, <1>3, <1>4, <1>5, <1>6, <1>7, <1>8, <1>9, <1>10
  DEF Next, WorkerStep, Rest
-----------------------------------------------------------------------------
(* Attempts *)

\* One holder has the tokens m .. MaxRetries.
LEMMA HolderTokens ==
  ASSUME NEW a, NEW m \in 0 .. NoToken
  PROVE  /\ IsFiniteSet({a} \X (m .. MaxRetries))
         /\ Cardinality({a} \X (m .. MaxRetries)) = NoToken - m
<1> DEFINE I == m .. MaxRetries
           T == {a} \X I
           f == [j \in I |-> <<a, j>>]
<1>1. IsFiniteSet(I) /\ Cardinality(I) = NoToken - m
  BY FS_Interval, DeliveryAssumption DEF NoToken
<1>2. f \in Bijection(I, T)
  BY DEF Bijection, Injection, Surjection, IsInjective
<1>3. QED
  BY <1>1, <1>2, FS_Bijection DEF ExistsBijection

\* Taking a subset out of a finite set and putting other elements in.
LEMMA Exchange ==
  ASSUME NEW S, IsFiniteSet(S), NEW A \in SUBSET S, NEW B, IsFiniteSet(B),
         (S \ A) \cap B = {}
  PROVE  /\ IsFiniteSet((S \ A) \cup B)
         /\ Cardinality((S \ A) \cup B)
              = Cardinality(S) - Cardinality(A) + Cardinality(B)
<1>1. IsFiniteSet(S \ A) /\ IsFiniteSet(A)
  BY FS_Difference, FS_Subset
<1>2. Cardinality(S \ A) = Cardinality(S) - Cardinality(A)
  <2>1. S \cap A = A
    OBVIOUS
  <2>2. QED
    BY <2>1, FS_Difference
<1>3. /\ IsFiniteSet((S \ A) \cup B)
      /\ Cardinality((S \ A) \cup B)
           = Cardinality(S \ A) + Cardinality(B) - Cardinality((S \ A) \cap B)
  BY <1>1, FS_Union
<1>4. Cardinality((S \ A) \cap B) = 0
  BY FS_EmptySet
<1>5. Cardinality(S) \in Nat /\ Cardinality(A) \in Nat /\ Cardinality(B) \in Nat
  BY <1>1, FS_CardinalityType
<1>6. QED
  BY <1>2, <1>3, <1>4, <1>5

OnlyAt(H, a, f, g) == \A h \in H : h # a => g[h] = f[h]

\* When the first token of one holder changes, the number of all tokens
\* changes by as much.
LEMMA TokenCount ==
  ASSUME NEW H, NEW first \in [H -> 0 .. NoToken], NEW a \in H,
         NEW next \in [H -> 0 .. NoToken], OnlyAt(H, a, first, next),
         IsFiniteSet(Tokens(H, first))
  PROVE  /\ IsFiniteSet(Tokens(H, next))
         /\ Cardinality(Tokens(H, next))
              = Cardinality(Tokens(H, first)) + first[a] - next[a]
<1> DEFINE S == Tokens(H, first)
           A == {a} \X (first[a] .. MaxRetries)
           B == {a} \X (next[a] .. MaxRetries)
<1>1. /\ IsFiniteSet(A) /\ Cardinality(A) = NoToken - first[a]
      /\ IsFiniteSet(B) /\ Cardinality(B) = NoToken - next[a]
  <2>1. first[a] \in 0 .. NoToken /\ next[a] \in 0 .. NoToken
    OBVIOUS
  <2>2. QED
    BY <2>1, HolderTokens
<1>2. A \in SUBSET S
  BY DeliveryAssumption DEF Tokens, NoToken
<1>3. (S \ A) \cap B = {}
  <2>1. ASSUME NEW x \in S, x \in B
        PROVE  x \in A
    <3>1. /\ x[1] = a /\ x[2] \in 0 .. MaxRetries /\ x = <<x[1], x[2]>>
          /\ first[a] <= x[2]
      BY <2>1 DEF Tokens
    <3>2. x[2] \in first[a] .. MaxRetries
      BY <3>1, DeliveryAssumption DEF NoToken
    <3>3. QED
      BY <3>1, <3>2
  <2>2. QED
    BY <2>1
<1>4. (S \ A) \cup B = Tokens(H, next)
  BY DeliveryAssumption DEF Tokens, NoToken, OnlyAt
<1>5. /\ Cardinality(S) \in Nat /\ first[a] \in Int /\ next[a] \in Int
      /\ NoToken \in Int
  BY FS_CardinalityType, DeliveryAssumption DEF NoToken
<1>6. IsFiniteSet(S)
  OBVIOUS
<1> HIDE DEF A, B, S
<1>7. /\ IsFiniteSet((S \ A) \cup B)
      /\ Cardinality((S \ A) \cup B)
           = Cardinality(S) - Cardinality(A) + Cardinality(B)
  BY <1>1, <1>2, <1>3, <1>6, Exchange
<1>8. /\ IsFiniteSet(Tokens(H, next))
      /\ Cardinality(Tokens(H, next)) = Cardinality(S) + first[a] - next[a]
  <2>1. /\ IsFiniteSet(Tokens(H, next))
        /\ Cardinality(Tokens(H, next))
             = Cardinality(S) - Cardinality(A) + Cardinality(B)
    BY <1>4, <1>7
  <2>2. Cardinality(S) - Cardinality(A) + Cardinality(B) = Cardinality(S) + first[a] - next[a]
    <3> DEFINE s == Cardinality(S)
               f == first[a]
               n == next[a]
    <3>1. /\ s \in Nat /\ f \in Int /\ n \in Int /\ NoToken \in Int
          /\ Cardinality(A) = NoToken - f /\ Cardinality(B) = NoToken - n
      BY <1>1, <1>5
    <3> HIDE DEF s, f, n
    <3>2. s - Cardinality(A) + Cardinality(B) = s + f - n
      BY <3>1
    <3>3. QED
      BY <3>2 DEF s, f, n
  <2>3. QED
    BY <2>1, <2>2
<1>9. QED
  BY <1>8 DEF S

LEMMA CopyFirstType ==
  ASSUME NEW q, NEW e
  PROVE  CopyFirst(q, e) \in [Copy -> 0 .. NoToken]
<1>1. \A c \in Copy : c[1] \in 0 .. NoToken
  BY DeliveryAssumption DEF Copy, NoToken
<1>2. NoToken \in 0 .. NoToken
  BY DeliveryAssumption DEF NoToken
<1>3. QED
  BY <1>1, <1>2 DEF CopyFirst

LEMMA WorkerFirstType ==
  ASSUME TypeOK, NEW e
  PROVE  WorkerFirst(e) \in [Worker -> 0 .. NoToken]
<1>1. \A w \in Worker : Runs(w, e) => Spent(w) \in 0 .. NoToken
  BY TaskFields, DeliveryAssumption DEF Runs, Spent, NoToken, TypeOK
<1>2. NoToken \in 0 .. NoToken
  BY DeliveryAssumption DEF NoToken
<1>3. QED
  BY <1>1, <1>2 DEF WorkerFirst

\* A step of one worker changes the tokens by what it spends.
LEMMA WorkerSpends ==
  ASSUME TypeOK, NEW e \in Event, NEW w \in Worker,
         \A v \in Worker : v # w => at'[v] = at[v] /\ task'[v] = task[v],
         IsFiniteSet(WorkerTokens(e)), WorkerFirst(e)'[w] \in 0 .. NoToken
  PROVE  /\ IsFiniteSet(WorkerTokens(e)')
         /\ Cardinality(WorkerTokens(e)')
              = Cardinality(WorkerTokens(e)) + WorkerFirst(e)[w] - WorkerFirst(e)'[w]
<1> DEFINE f == WorkerFirst(e)
           g == WorkerFirst(e)'
<1>1. OnlyAt(Worker, w, f, g)
  BY DEF WorkerFirst, Runs, Spent, OnlyAt
<1>2. f \in [Worker -> 0 .. NoToken]
  BY WorkerFirstType
<1>3. g \in [Worker -> 0 .. NoToken]
  <2>1. \A v \in Worker : g[v] \in 0 .. NoToken
    BY <1>1, <1>2 DEF OnlyAt
  <2>2. g = [v \in Worker |-> g[v]]
    BY DEF WorkerFirst
  <2> HIDE DEF g
  <2>3. QED
    BY <2>1, <2>2
<1>4. WorkerTokens(e) = Tokens(Worker, f) /\ WorkerTokens(e)' = Tokens(Worker, g)
  BY DEF WorkerTokens, Tokens
<1> HIDE DEF f, g
<1>5. /\ IsFiniteSet(Tokens(Worker, g))
      /\ Cardinality(Tokens(Worker, g)) = Cardinality(Tokens(Worker, f)) + f[w] - g[w]
  BY <1>1, <1>2, <1>3, <1>4, TokenCount
<1>6. QED
  BY <1>4, <1>5 DEF f, g

\* One copy more of a task brings the tokens the task has left, and nothing to
\* other events.
LEMMA CopyCount ==
  ASSUME NEW e \in Event, NEW t \in Task,
         NEW q \in [Task -> Nat], NEW r \in [Task -> Nat],
         r[t] = q[t] + 1, OnlyAt(Task, t, q, r)
  PROVE  /\ IsFiniteSet(CopyTokens(q, e)) <=> IsFiniteSet(CopyTokens(r, e))
         /\ IsFiniteSet(CopyTokens(q, e)) =>
              Cardinality(CopyTokens(r, e)) = Cardinality(CopyTokens(q, e))
                + (IF t.event = e THEN NoToken - t.retries ELSE 0)
<1> DEFINE c == <<t.retries, q[t] + 1>>
           f == CopyFirst(q, e)
           g == CopyFirst(r, e)
<1>1. q[t] \in Nat /\ t.retries \in 0 .. MaxRetries
  BY TaskFields
<1>2. \A d \in Copy : [event |-> e, retries |-> d[1]] \in Task
  BY DEF Copy, Task
<1>3. f \in [Copy -> 0 .. NoToken] /\ g \in [Copy -> 0 .. NoToken]
  BY CopyFirstType
<1>4. CASE t.event = e
  <2>1. /\ c \in Copy
        /\ t = [event |-> e, retries |-> c[1]]
    BY <1>1, <1>4, DeliveryAssumption DEF Copy, Task
  <2>2. f[c] = NoToken
    BY <1>1, <2>1 DEF CopyFirst
  <2>3. g[c] = t.retries
    <3>1. c[2] \in 1 .. r[[event |-> e, retries |-> c[1]]]
      BY <1>1, <2>1
    <3>2. QED
      BY <2>1, <3>1 DEF CopyFirst
  <2>4. OnlyAt(Copy, c, f, g) /\ OnlyAt(Copy, c, g, f)
    <3>1. ASSUME NEW d \in Copy, d # c
          PROVE  d[2] \in 1 .. q[[event |-> e, retries |-> d[1]]]
                   <=> d[2] \in 1 .. r[[event |-> e, retries |-> d[1]]]
      <4>1. CASE d[1] = t.retries
        <5>1. d[2] # q[t] + 1 /\ d[2] \in Nat
          BY <3>1, <4>1 DEF Copy
        <5>2. QED
          BY <1>1, <2>1, <4>1, <5>1
      <4>2. CASE d[1] # t.retries
        <5>1. [event |-> e, retries |-> d[1]] # t
          BY <4>2
        <5>2. QED
          BY <1>2, <5>1 DEF OnlyAt
      <4>3. QED
        BY <4>1, <4>2
    <3>2. QED
      BY <3>1 DEF CopyFirst, OnlyAt
  <2>5. t.retries \in Int /\ NoToken \in Int
    BY <1>1, DeliveryAssumption DEF NoToken
  <2> HIDE DEF c, f, g
  <2>6. /\ IsFiniteSet(Tokens(Copy, f)) =>
             /\ IsFiniteSet(Tokens(Copy, g))
             /\ Cardinality(Tokens(Copy, g))
                  = Cardinality(Tokens(Copy, f)) + f[c] - g[c]
        /\ IsFiniteSet(Tokens(Copy, g)) => IsFiniteSet(Tokens(Copy, f))
    BY <1>3, <2>1, <2>4, TokenCount
  <2>7. IsFiniteSet(Tokens(Copy, f)) => Cardinality(Tokens(Copy, f)) \in Nat
    BY FS_CardinalityType
  <2>8. QED
    BY <1>4, <2>2, <2>3, <2>5, <2>6, <2>7 DEF CopyTokens, f, g
<1>5. CASE t.event # e
  <2>1. \A d \in Copy : [event |-> e, retries |-> d[1]] # t
    BY <1>5
  <2>2. \A d \in Copy : r[[event |-> e, retries |-> d[1]]]
                          = q[[event |-> e, retries |-> d[1]]]
    BY <1>2, <2>1 DEF OnlyAt
  <2>3. CopyTokens(r, e) = CopyTokens(q, e)
    BY <2>2 DEF CopyFirst, CopyTokens
  <2>4. QED
    BY <1>5, <2>3, FS_CardinalityType
<1>6. QED
  BY <1>4, <1>5

LEMMA NextTokens ==
  ASSUME TypeOK, NEW e \in Event, NEW w \in Worker
  PROVE  /\ Finish(w) => WorkerFirst(e)'[w] = NoToken
         /\ \A point : /\ Goto(w, point) /\ point # "retry" /\ at[w] # "retry"
                       => WorkerFirst(e)'[w] = WorkerFirst(e)[w]
<1>1. Finish(w) => WorkerFirst(e)'[w] = NoToken
  BY DEF Finish, WorkerFirst, Runs, TypeOK
<1>2. ASSUME NEW point, Goto(w, point), point # "retry", at[w] # "retry"
      PROVE  WorkerFirst(e)'[w] = WorkerFirst(e)[w]
  BY <1>2 DEF Goto, WorkerFirst, Runs, Spent, TypeOK
<1>3. QED
  BY <1>1, <1>2

\* A worker that makes as many attempts as it spends tokens keeps the budget.
LEMMA WorkerBudget ==
  ASSUME TypeOK, TypeOK', NEW e \in Event, Budgeted(e), NEW w \in Worker,
         \A v \in Worker : v # w => at'[v] = at[v] /\ task'[v] = task[v],
         UNCHANGED <<queued, handed>>, WorkerFirst(e)'[w] \in 0 .. NoToken,
         attempts'[e] + WorkerFirst(e)[w] <= attempts[e] + WorkerFirst(e)'[w]
  PROVE  Budgeted(e)'
<1>1. /\ IsFiniteSet(WorkerTokens(e)')
      /\ Cardinality(WorkerTokens(e)')
           = Cardinality(WorkerTokens(e)) + WorkerFirst(e)[w] - WorkerFirst(e)'[w]
  BY WorkerSpends DEF Budgeted
<1>2. CopyTokens(queued, e)' = CopyTokens(queued, e)
  BY DEF CopyTokens, CopyFirst, Tokens
<1> DEFINE c == Cardinality(CopyTokens(queued, e))
           k == Cardinality(WorkerTokens(e))
           i == WorkerFirst(e)[w]
           j == WorkerFirst(e)'[w]
           m == (1 + MaxRetries) * handed[e]
<1>3. /\ c \in Nat /\ k \in Nat /\ i \in Int /\ j \in Int /\ m \in Int
      /\ attempts[e] \in Int /\ attempts'[e] \in Int
  <2>1. i \in 0 .. NoToken /\ NoToken \in Int
    BY WorkerFirstType, DeliveryAssumption DEF NoToken
  <2>2. m \in Int
    <3>1. handed[e] \in Nat /\ MaxRetries \in Nat
      BY DeliveryAssumption DEF TypeOK
    <3>2. \A x, y \in Nat : (1 + x) * y \in Int
      OBVIOUS
    <3>3. QED
      BY <3>1, <3>2
  <2>3. c \in Nat /\ k \in Nat
    BY FS_CardinalityType DEF Budgeted
  <2>4. attempts[e] \in Int /\ attempts'[e] \in Int
    BY DEF TypeOK
  <2>5. QED
    BY <2>1, <2>2, <2>3, <2>4
<1>4. /\ attempts[e] + c + k <= m
      /\ attempts'[e] + i <= attempts[e] + j
  BY DEF Budgeted
<1> HIDE DEF c, k, i, j, m
<1>5. attempts'[e] + c + (k + i - j) <= m
  BY <1>3, <1>4
<1>6. attempts'[e] + Cardinality(CopyTokens(queued, e)') + Cardinality(WorkerTokens(e)') <= m
  BY <1>1, <1>2, <1>5 DEF c, k, i, j
<1>7. m = (1 + MaxRetries) * handed'[e]
  BY DEF m
<1>8. IsFiniteSet(CopyTokens(queued, e)')
  BY <1>2 DEF Budgeted
<1>9. QED
  BY <1>1, <1>6, <1>7, <1>8 DEF Budgeted

\* Handing over a task issues the tokens of all its attempts.
LEMMA HandBudget ==
  ASSUME TypeOK, NEW e \in Event, Budgeted(e), NEW f \in Event, Hand(f),
         UNCHANGED <<attempts, task, at>>
  PROVE  Budgeted(e)'
<1> DEFINE c == Cardinality(CopyTokens(queued, e))
           d == Cardinality(CopyTokens(queued', e))
           k == Cardinality(WorkerTokens(e))
           h == handed[e]
<1>1. /\ NewTask(f) \in Task /\ NewTask(f).event = f /\ NewTask(f).retries = 0
      /\ queued \in [Task -> Nat] /\ queued' \in [Task -> Nat]
      /\ queued'[NewTask(f)] = queued[NewTask(f)] + 1
      /\ OnlyAt(Task, NewTask(f), queued, queued')
  BY TaskFields DEF Hand, Enqueue, NewTask, TypeOK, OnlyAt
<1>2. /\ IsFiniteSet(CopyTokens(queued', e))
      /\ d = c + (IF f = e THEN NoToken - 0 ELSE 0)
  BY <1>1, CopyCount DEF Budgeted
<1>3. WorkerTokens(e)' = WorkerTokens(e)
  BY DEF WorkerTokens, WorkerFirst, Tokens, Runs, Spent
<1>4. /\ c \in Nat /\ k \in Nat /\ h \in Nat /\ attempts[e] \in Nat
      /\ MaxRetries \in Nat
  BY FS_CardinalityType, DeliveryAssumption DEF Budgeted, TypeOK
<1>5. handed'[e] = IF f = e THEN h + 1 ELSE h
  BY DEF Hand, TypeOK
<1>6. attempts[e] + c + k <= (1 + MaxRetries) * h
  BY DEF Budgeted
<1> HIDE DEF c, d, k, h
<1>7. attempts[e] + d + k <= (1 + MaxRetries) * handed'[e]
  <2>1. (1 + MaxRetries) * (h + 1) = (1 + MaxRetries) * h + (1 + MaxRetries)
    BY <1>4
  <2>2. (1 + MaxRetries) * h \in Int
    BY <1>4
  <2>3. CASE f = e
    <3>1. d = c + (1 + MaxRetries)
      BY <1>2, <1>4, <2>3 DEF NoToken
    <3>2. handed'[e] = h + 1
      BY <1>5, <2>3
    <3> DEFINE m == (1 + MaxRetries) * h
               n == (1 + MaxRetries) * (h + 1)
    <3>3. m \in Int /\ n = m + (1 + MaxRetries) /\ attempts[e] + c + k <= m
      BY <1>6, <2>1, <2>2
    <3> HIDE DEF m, n
    <3>4. attempts[e] + d + k <= n
      BY <1>4, <3>1, <3>3
    <3>5. QED
      BY <3>2, <3>4 DEF n
  <2>4. CASE f # e
    BY <1>2, <1>4, <1>5, <1>6, <2>4
  <2>5. QED
    BY <2>3, <2>4
<1>8. CopyTokens(queued, e)' = CopyTokens(queued', e)
  BY DEF CopyTokens, CopyFirst, Tokens
<1>9. /\ IsFiniteSet(CopyTokens(queued, e)') /\ IsFiniteSet(WorkerTokens(e)')
  BY <1>2, <1>3, <1>8 DEF Budgeted
<1>10. QED
  BY <1>3, <1>7, <1>8, <1>9 DEF Budgeted, d, k

\* Fetching a task moves its tokens to the worker.
LEMMA FetchBudget ==
  ASSUME TypeOK, TypeOK', NEW e \in Event, Budgeted(e), NEW w \in Worker, Fetch(w)
  PROVE  Budgeted(e)'
<1>1. PICK t \in Task : /\ queued[t] > 0
                        /\ queued' = [queued EXCEPT ![t] = @ - 1]
                        /\ task' = [task EXCEPT ![w] = t]
  BY DEF Fetch
<1> DEFINE c == Cardinality(CopyTokens(queued, e))
           d == Cardinality(CopyTokens(queued', e))
           k == Cardinality(WorkerTokens(e))
           l == Cardinality(WorkerTokens(e)')
           x == IF t.event = e THEN NoToken - t.retries ELSE 0
<1>2. /\ queued \in [Task -> Nat] /\ queued' \in [Task -> Nat]
      /\ queued[t] = queued'[t] + 1
      /\ OnlyAt(Task, t, queued', queued)
  BY <1>1 DEF TypeOK, OnlyAt
<1>3. IsFiniteSet(CopyTokens(queued', e)) /\ c = d + x
  BY <1>2, CopyCount DEF Budgeted
<1>4. /\ WorkerFirst(e)[w] = NoToken
      /\ WorkerFirst(e)'[w] = IF t.event = e THEN t.retries ELSE NoToken
      /\ \A v \in Worker : v # w => at'[v] = at[v] /\ task'[v] = task[v]
  BY <1>1, NoTaskAssumption DEF Fetch, TypeOK, WorkerFirst, Runs, Spent
<1>5. /\ t.retries \in 0 .. MaxRetries /\ MaxRetries \in Nat
      /\ WorkerFirst(e)'[w] \in 0 .. NoToken
  BY <1>4, TaskFields, DeliveryAssumption DEF NoToken
<1>6. /\ IsFiniteSet(WorkerTokens(e)')
      /\ l = k + NoToken - WorkerFirst(e)'[w]
  BY <1>4, <1>5, WorkerSpends DEF Budgeted
<1>7. c \in Nat /\ d \in Nat /\ k \in Nat /\ NoToken \in Int
  BY <1>3, <1>5, FS_CardinalityType DEF Budgeted, NoToken
<1> HIDE DEF c, d, k, l
<1>8. d + l = c + k
  BY <1>3, <1>4, <1>5, <1>6, <1>7
<1>9. attempts[e] \in Nat /\ UNCHANGED <<attempts, handed>>
  BY DEF Fetch, rows, TypeOK
<1>10. d \in Nat /\ l \in Nat
  BY <1>6, <1>7, FS_CardinalityType DEF l
<1>11. attempts[e] + c + k <= (1 + MaxRetries) * handed[e]
  BY DEF Budgeted, c, k
<1>12. attempts[e] + d + l <= (1 + MaxRetries) * handed[e]
  BY <1>7, <1>8, <1>9, <1>10, <1>11
<1>13. CopyTokens(queued, e)' = CopyTokens(queued', e)
  BY DEF CopyTokens, CopyFirst, Tokens
<1>14. QED
  BY <1>3, <1>6, <1>9, <1>12, <1>13 DEF Budgeted, d, l

\* A retry takes one token less back to the broker than the task had.
LEMMA RetryBudget ==
  ASSUME TypeOK, TypeOK', NEW e \in Event, Budgeted(e),
         NEW w \in Worker, RetryLater(w)
  PROVE  Budgeted(e)'
<1> DEFINE t == [task[w] EXCEPT !.retries = @ + 1]
           c == Cardinality(CopyTokens(queued, e))
           d == Cardinality(CopyTokens(queued', e))
           k == Cardinality(WorkerTokens(e))
           l == Cardinality(WorkerTokens(e)')
           x == IF t.event = e THEN NoToken - t.retries ELSE 0
<1>1. /\ task[w] \in Task /\ task[w] # NoTask /\ t \in Task
      /\ t.event = task[w].event /\ t.retries = task[w].retries + 1
      /\ queued' = [queued EXCEPT ![t] = @ + 1] /\ Finish(w)
      /\ at[w] = "retry"
  BY WorkerTask, TaskFields DEF RetryLater, Enqueue, Task
<1>2. /\ queued \in [Task -> Nat] /\ queued' \in [Task -> Nat]
      /\ queued'[t] = queued[t] + 1
      /\ OnlyAt(Task, t, queued, queued')
  BY <1>1 DEF TypeOK, OnlyAt
<1> HIDE DEF t
<1>3. IsFiniteSet(CopyTokens(queued', e)) /\ d = c + x
  <2>1. t \in Task /\ IsFiniteSet(CopyTokens(queued, e))
    BY <1>1 DEF Budgeted
  <2>2. QED
    BY <1>2, <2>1, CopyCount
<1>4. /\ WorkerFirst(e)[w] = IF t.event = e THEN t.retries ELSE NoToken
      /\ WorkerFirst(e)'[w] = NoToken
      /\ \A v \in Worker : v # w => at'[v] = at[v] /\ task'[v] = task[v]
  <2>1. \A v \in Worker : v # w => at'[v] = at[v] /\ task'[v] = task[v]
    BY <1>1 DEF Finish, TypeOK
  <2>2. WorkerFirst(e)'[w] = NoToken
    BY <1>1, NextTokens
  <2>3. WorkerFirst(e)[w] = IF t.event = e THEN t.retries ELSE NoToken
    BY <1>1 DEF WorkerFirst, Runs, Spent
  <2>4. QED
    BY <2>1, <2>2, <2>3
<1>5. /\ t.retries \in 0 .. MaxRetries /\ MaxRetries \in Nat
      /\ WorkerFirst(e)'[w] \in 0 .. NoToken
  BY <1>1, <1>4, TaskFields, DeliveryAssumption DEF NoToken
<1>6. /\ IsFiniteSet(WorkerTokens(e)')
      /\ l = k + WorkerFirst(e)[w] - NoToken
  BY <1>4, <1>5, WorkerSpends DEF Budgeted
<1>7. c \in Nat /\ d \in Nat /\ k \in Nat /\ NoToken \in Int
  BY <1>3, <1>5, FS_CardinalityType DEF Budgeted, NoToken
<1> HIDE DEF c, d, k, l
<1>8. d + l = c + k
  BY <1>3, <1>4, <1>5, <1>6, <1>7
<1>9. attempts[e] \in Nat /\ UNCHANGED <<attempts, handed>>
  BY DEF RetryLater, rows, TypeOK
<1>10. d \in Nat /\ l \in Nat
  BY <1>6, <1>7, FS_CardinalityType DEF l
<1>11. attempts[e] + c + k <= (1 + MaxRetries) * handed[e]
  BY DEF Budgeted, c, k
<1>12. attempts[e] + d + l <= (1 + MaxRetries) * handed[e]
  BY <1>7, <1>8, <1>9, <1>10, <1>11
<1>13. CopyTokens(queued, e)' = CopyTokens(queued', e)
  BY DEF CopyTokens, CopyFirst, Tokens
<1>14. QED
  BY <1>3, <1>6, <1>9, <1>12, <1>13 DEF Budgeted, d, l

LEMMA BudgetStep ==
  ASSUME TypeOK, TypeOK', BudgetInv, [Next]_vars, NEW e \in Event
  PROVE  Budgeted(e)'
<1> USE DEF rows, clients, world
<1>0. Budgeted(e)
  BY DEF BudgetInv
<1>1. ASSUME UNCHANGED <<queued, attempts, handed, task, at>>
      PROVE  Budgeted(e)'
  BY <1>0, <1>1
  DEF Budgeted, CopyTokens, CopyFirst, WorkerTokens, WorkerFirst, Tokens, Runs, Spent
<1>2. ASSUME NEW f \in Event, EnqueueAfterCommit(f)
      PROVE  Budgeted(e)'
  BY <1>0, <1>2, HandBudget DEF EnqueueAfterCommit
<1>3. CASE QueueListed
  <2>1. PICK j \in listed : Hand(created[j]) /\ created[j] \in Event
    BY <1>3, ListedEvent DEF QueueListed, TypeOK
  <2>2. QED
    BY <1>0, <1>3, <2>1, HandBudget DEF QueueListed
<1>4. ASSUME NEW w \in Worker, Fetch(w)
      PROVE  Budgeted(e)'
  BY <1>0, <1>4, FetchBudget
<1>5. ASSUME NEW w \in Worker, RetryLater(w)
      PROVE  Budgeted(e)'
  BY <1>0, <1>5, RetryBudget
<1>6. ASSUME NEW w \in Worker,
             \/ LockEvent(w) \/ SendAccepted(w) \/ SendRefused(w)
             \/ SendUnanswered(w) \/ SendBreaks(w)
      PROVE  Budgeted(e)'
  <2>1. PICK point : Goto(w, point) /\ point # "retry" /\ at[w] # "retry"
    BY <1>6
    DEF LockEvent, SendAccepted, SendRefused, SendUnanswered, SendBreaks
  <2>2. UNCHANGED <<queued, attempts, handed>>
    BY <1>6
    DEF LockEvent, SendAccepted, SendRefused, SendUnanswered, SendBreaks
  <2>3. /\ WorkerFirst(e)'[w] = WorkerFirst(e)[w]
        /\ \A v \in Worker : v # w => at'[v] = at[v] /\ task'[v] = task[v]
    BY <2>1, NextTokens DEF Goto, TypeOK
  <2>4. WorkerFirst(e)[w] \in 0 .. NoToken /\ attempts[e] \in Nat
    BY WorkerFirstType DEF TypeOK
  <2>5. attempts'[e] + WorkerFirst(e)[w] <= attempts[e] + WorkerFirst(e)'[w]
    BY <2>2, <2>3, <2>4, DeliveryAssumption DEF NoToken
  <2>6. QED
    BY <1>0, <2>2, <2>3, <2>4, <2>5, WorkerBudget
<1>7. ASSUME NEW w \in Worker, SkipEvent(w) \/ GiveUp(w) \/ WorkerDies(w)
      PROVE  Budgeted(e)'
  <2>1. Finish(w) /\ UNCHANGED <<queued, attempts, handed>>
    BY <1>7 DEF SkipEvent, GiveUp, WorkerDies
  <2>2. /\ WorkerFirst(e)'[w] = NoToken
        /\ \A v \in Worker : v # w => at'[v] = at[v] /\ task'[v] = task[v]
    <3>1. WorkerFirst(e)'[w] = NoToken
      BY <1>0, <2>1, NextTokens, Zenon
    <3>2. \A v \in Worker : v # w => at'[v] = at[v] /\ task'[v] = task[v]
      BY <2>1 DEF Finish, TypeOK
    <3>3. QED
      BY <3>1, <3>2
  <2>3. WorkerFirst(e)[w] \in 0 .. NoToken /\ attempts[e] \in Nat
    BY WorkerFirstType DEF TypeOK
  <2>4. /\ WorkerFirst(e)'[w] \in 0 .. NoToken
        /\ attempts'[e] + WorkerFirst(e)[w] <= attempts[e] + WorkerFirst(e)'[w]
    BY <2>1, <2>2, <2>3, DeliveryAssumption DEF NoToken
  <2>5. QED
    BY <1>0, <2>1, <2>2, <2>4, WorkerBudget
<1>8. ASSUME NEW w \in Worker, RecordAttempt(w)
      PROVE  Budgeted(e)'
  <2>1. /\ task[w] \in Task /\ task[w] # NoTask /\ at[w] # "retry"
        /\ \A v \in Worker : v # w => at'[v] = at[v] /\ task'[v] = task[v]
        /\ UNCHANGED <<queued, handed>>
    BY <1>8, WorkerTask DEF RecordAttempt, Goto, Finish, TypeOK
  <2>2. attempts'[e] = IF task[w].event = e THEN attempts[e] + 1 ELSE attempts[e]
    BY <1>8, <2>1 DEF RecordAttempt, TypeOK
  <2>3. WorkerFirst(e)[w]
          = IF task[w].event = e THEN task[w].retries ELSE NoToken
    BY <2>1 DEF WorkerFirst, Runs, Spent
  <2>4. \/ WorkerFirst(e)'[w] = NoToken
        \/ WorkerFirst(e)'[w]
             = IF task[w].event = e THEN task[w].retries + 1 ELSE NoToken
    <3>1. CASE at[w] = "refused"
      <4>1. task' = task /\ at'[w] = "retry"
        BY <1>8, <3>1 DEF RecordAttempt, Goto, TypeOK
      <4>2. QED
        BY <2>1, <4>1 DEF WorkerFirst, Runs, Spent
    <3>2. CASE at[w] # "refused"
      BY <1>8, <3>2, NextTokens DEF RecordAttempt
    <3>3. QED
      BY <3>1, <3>2
  <2>5. /\ task[w].retries \in 0 .. MaxRetries /\ MaxRetries \in Nat
        /\ attempts[e] \in Nat
    BY <2>1, TaskFields, DeliveryAssumption DEF TypeOK
  <2>6. /\ WorkerFirst(e)'[w] \in 0 .. NoToken
        /\ attempts'[e] + WorkerFirst(e)[w] <= attempts[e] + WorkerFirst(e)'[w]
    BY <2>2, <2>3, <2>4, <2>5 DEF NoToken
  <2>7. QED
    BY <1>0, <2>1, <2>6, WorkerBudget
<1>9. ASSUME NEW f \in Event,
             CommitCheckout(f) \/ EnqueueFails(f) \/ DeleteSale(f)
      PROVE  Budgeted(e)'
  BY <1>1, <1>9 DEF CommitCheckout, EnqueueFails, DeleteSale
<1>10. CASE SelectEvents \/ CommandFails
  BY <1>1, <1>10 DEF SelectEvents, CommandFails
<1>11. CASE UNCHANGED vars
  BY <1>1, <1>11 DEF vars
<1>12. QED
  BY <1>2, <1>3, <1>4, <1>5, <1>6, <1>7, <1>8, <1>9, <1>10, <1>11
  DEF Next, WorkerStep, CommandStep, Rest

-----------------------------------------------------------------------------
(* Theorems *)

LEMMA InitIInv == Init => IInv
<1> SUFFICES ASSUME Init
             PROVE  IInv
  OBVIOUS
<1>1. TypeOK
  BY InitTypeOK
<1>2. LockInv
  BY DEF Init, LockInv, Locking
<1>3. MailInv
  BY DEF Init, MailInv, Accounted, Unrecorded, Unsent
<1>4. BudgetInv
  <2>1. ASSUME NEW e \in Event
        PROVE  Budgeted(e)
    <3>1. \A x \in Copy : [event |-> e, retries |-> x[1]] \in Task
      BY DEF Copy, Task
    <3>2. \A x \in Copy : CopyFirst(queued, e)[x] = NoToken
      BY <3>1 DEF Init, CopyFirst
    <3>3. \A w \in Worker : WorkerFirst(e)[w] = NoToken
      BY DEF Init, WorkerFirst, Runs
    <3>4. CopyTokens(queued, e) = {} /\ WorkerTokens(e) = {}
      BY <3>2, <3>3, DeliveryAssumption
      DEF CopyTokens, WorkerTokens, Tokens, NoToken
    <3>5. attempts[e] = 0 /\ handed[e] = 0 /\ MaxRetries \in Nat
      BY DeliveryAssumption DEF Init
    <3>6. QED
      BY <3>4, <3>5, FS_EmptySet DEF Budgeted
  <2>2. QED
    BY <2>1 DEF BudgetInv
<1>5. QED
  BY <1>1, <1>2, <1>3, <1>4 DEF IInv

LEMMA InductiveStep == IInv /\ [Next]_vars => IInv'
<1> SUFFICES ASSUME IInv, [Next]_vars
             PROVE  IInv'
  OBVIOUS
<1>1. TypeOK'
  BY TypeStep DEF IInv
<1>2. LockInv'
  BY LockStep DEF IInv
<1>3. MailInv'
  BY MailStep DEF IInv, MailInv
<1>4. BudgetInv'
  BY <1>1, BudgetStep DEF IInv, BudgetInv
<1>5. QED
  BY <1>1, <1>2, <1>3, <1>4 DEF IInv

LEMMA Invariance == Spec => []IInv
  BY InitIInv, InductiveStep, PTL DEF Spec

\* Rows, tasks and workers keep their types, and however many tasks of an
\* event overlap, are retried or are lost, an event has never been attempted
\* more than 1 + MaxRetries times for each task that the checkout or the
\* command handed to the broker.
THEOREM EventsAreSound == Spec => []EventsSound
<1>1. IInv => EventsSound
  <2> SUFFICES ASSUME IInv
               PROVE  EventsSound
    OBVIOUS
  <2>1. ASSUME NEW e \in Event
        PROVE  attempts[e] <= (1 + MaxRetries) * handed[e]
    <3> DEFINE c == Cardinality(CopyTokens(queued, e))
               k == Cardinality(WorkerTokens(e))
               m == (1 + MaxRetries) * handed[e]
    <3>1. c \in Nat /\ k \in Nat /\ attempts[e] + c + k <= m
      BY FS_CardinalityType DEF IInv, BudgetInv, Budgeted
    <3>2. attempts[e] \in Nat /\ m \in Int
      <4>1. attempts[e] \in Nat /\ handed[e] \in Nat /\ MaxRetries \in Nat
        BY DeliveryAssumption DEF IInv, TypeOK
      <4>2. \A x, y \in Nat : (1 + x) * y \in Int
        OBVIOUS
      <4>3. QED
        BY <4>1, <4>2
    <3> HIDE DEF c, k, m
    <3>3. attempts[e] <= m
      BY <3>1, <3>2
    <3>4. QED
      BY <3>3 DEF m
  <2>2. QED
    BY <2>1 DEF IInv, EventsSound, RetriesBounded
<1>2. QED
  BY Invariance, <1>1, PTL

\* With any number of workers and of overlapping tasks for one event, its
\* e-mail is accepted once, and once more only for each acceptance whose
\* record a death or a broken connection prevented.
THEOREM MailedOnce == Spec => []NoNeedlessDuplicate
<1>1. IInv => NoNeedlessDuplicate
  BY DEF IInv, MailInv, Accounted, NoNeedlessDuplicate
<1>2. QED
  BY Invariance, <1>1, PTL

\* No attempt, retry or command touches an event that has been sent: only the
\* deletion of its sale does.
THEOREM SentStaysSent == Spec => SentIsFinal
<1>1. ASSUME IInv, [Next]_vars, NEW e \in Event, status[e] = "sent"
      PROVE  /\ status'[e] \in {"sent", "deleted"}
             /\ attempts'[e] = attempts[e] /\ mails'[e] = mails[e]
  <2> USE DEF rows, clients, world
  <2> TypeOK /\ LockInv
    BY <1>1 DEF IInv
  <2>1. ASSUME NEW w \in Worker, at[w] \in Locking
        PROVE  task[w].event # e
    BY <1>1, <2>1 DEF LockInv
  <2>2. ASSUME NEW f \in Event, \/ CommitCheckout(f) \/ EnqueueAfterCommit(f)
                                \/ EnqueueFails(f) \/ DeleteSale(f)
        PROVE  /\ status'[e] \in {"sent", "deleted"}
               /\ UNCHANGED <<attempts[e], mails[e]>>
    <3>1. /\ CommitCheckout(f) => f # e
          /\ UNCHANGED <<attempts, mails>>
      BY <1>1, <2>2 DEF CommitCheckout, EnqueueAfterCommit, EnqueueFails,
        DeleteSale
    <3>2. status'[e] \in {"sent", "deleted"}
      BY <1>1, <2>2, <3>1 DEF CommitCheckout, EnqueueAfterCommit,
        EnqueueFails, DeleteSale, TypeOK
    <3>3. QED
      BY <3>1, <3>2
  <2>3. ASSUME NEW w \in Worker, SendAccepted(w) \/ SendUnanswered(w)
        PROVE  UNCHANGED <<status, attempts, mails[e]>>
    <3>1. task[w].event # e
      BY <2>1, <2>3 DEF SendAccepted, SendUnanswered, Locking
    <3>2. QED
      BY <2>3, <3>1 DEF SendAccepted, SendUnanswered, TypeOK
  <2>4. ASSUME NEW w \in Worker, RecordAttempt(w)
        PROVE  UNCHANGED <<status[e], attempts[e], mails>>
    <3>1. task[w].event # e
      BY <2>1, <2>4 DEF RecordAttempt, Locking
    <3>2. QED
      BY <2>4, <3>1 DEF RecordAttempt, TypeOK
  <2>5. ASSUME NEW w \in Worker,
               \/ Fetch(w) \/ SkipEvent(w) \/ LockEvent(w) \/ SendRefused(w)
               \/ SendBreaks(w) \/ RetryLater(w) \/ GiveUp(w) \/ WorkerDies(w)
        PROVE  UNCHANGED <<status, attempts, mails>>
    BY <2>5 DEF Fetch, SkipEvent, LockEvent, SendRefused, SendBreaks,
      RetryLater, GiveUp, WorkerDies
  <2>6. CASE CommandStep
    BY <1>1, <2>6 DEF CommandStep, SelectEvents, QueueListed, CommandFails
  <2>7. CASE UNCHANGED vars
    BY <1>1, <2>7 DEF vars
  <2>8. QED
    BY <1>1, <2>2, <2>3, <2>4, <2>5, <2>6, <2>7 DEF Next, WorkerStep, Rest
<1>2. IInv /\ [Next]_vars =>
        [\A e \in Event : status[e] = "sent" =>
           /\ status'[e] \in {"sent", "deleted"}
           /\ attempts'[e] = attempts[e] /\ mails'[e] = mails[e]]_vars
  BY <1>1
<1>3. QED
  BY Invariance, <1>2, PTL DEF Spec, SentIsFinal

-----------------------------------------------------------------------------
(***************************************************************************)
(* Why a dashboard is fresh as long as no invalidation sets the version,   *)
(* for every number of writers and readers.  The version is then added     *)
(* once and only grows, and the settled revision changes only together     *)
(* with it.  So all summaries made for one version agree on what has been  *)
(* settled, and one that arrives late is stored under a version that       *)
(* nobody looks up any more.                                               *)
(***************************************************************************)

\* A version that is there stays, and no key in use is ahead of it.
VersionInv ==
  /\ version = NoKey => \A w \in Writer : change[w] # "present"
  /\ \A r \in Reader :
       /\ key[r] <= version
       /\ read[r] = "added" => version # NoKey
       /\ read[r] = "keyed" => key[r] # NoKey
  /\ \A d \in data : d.version <= version

\* What is about to be stored under the current version is fresh, too.
ComputedInv ==
  \A r \in Reader : read[r] = "computed" =>
    /\ seen[r] >= floor[r]
    /\ key[r] = version /\ key[r] # NoKey => seen[r] >= settled

\* Whatever a reader can find under its key, now or after another reader has
\* stored it, is no older than what was settled when it asked.
KeyedInv ==
  \A r \in Reader : read[r] = "keyed" =>
    /\ \A d \in data : d.version = key[r] => d.revision >= floor[r]
    /\ \A q \in Reader : read[q] = "computed" /\ key[q] = key[r]
                           => seen[q] >= floor[r]

\* All of it, in a system whose version has not been set.
FreshInv ==
  /\ VersionInv /\ ComputedInv /\ KeyedInv
  /\ CurrentIsFresh /\ ReadsAreFresh

CacheInv == CacheTypeOK /\ (NoReset => FreshInv)

-----------------------------------------------------------------------------
(* Types *)

LEMMA CacheTypesFirst == CacheInit => CacheTypeOK
  BY DEF CacheInit, Idle, CacheTypeOK, NoKey

\* Every step of a writer, of a reader and of Redis keeps the types.
LEMMA CacheTypesStay == CacheTypeOK /\ [CacheNext]_cacheVars => CacheTypeOK'
<1> SUFFICES ASSUME CacheTypeOK, [CacheNext]_cacheVars
             PROVE  CacheTypeOK'
  OBVIOUS
<1> USE DEF CacheTypeOK, NoKey
<1>1. ASSUME NEW w \in Writer, Commit(w)
      PROVE  CacheTypeOK'
  BY <1>1 DEF Commit, redis, readers
<1>2. ASSUME NEW w \in Writer, LookUpVersion(w)
      PROVE  CacheTypeOK'
  BY <1>2 DEF LookUpVersion, redis, readers
<1>3. ASSUME NEW w \in Writer, SetVersion(w)
      PROVE  CacheTypeOK'
  BY <1>3 DEF SetVersion, Settle, readers
<1>4. ASSUME NEW w \in Writer, Increment(w)
      PROVE  CacheTypeOK'
  BY <1>4 DEF Increment, Settle, readers
<1>5. ASSUME NEW w \in Writer, InvalidationFails(w)
      PROVE  CacheTypeOK'
  BY <1>5 DEF InvalidationFails, redis, readers
<1>6. ASSUME NEW r \in Reader, ReadVersion(r)
      PROVE  CacheTypeOK'
  BY <1>6 DEF ReadVersion, ReaderAt, redis, writers
<1>7. ASSUME NEW r \in Reader, AddVersion(r)
      PROVE  CacheTypeOK'
  BY <1>7 DEF AddVersion, ReaderAt, writers
<1>8. ASSUME NEW r \in Reader, ReadAddedVersion(r)
      PROVE  CacheTypeOK'
  BY <1>8 DEF ReadAddedVersion, ReaderAt, redis, writers
<1>9. ASSUME NEW r \in Reader, Hit(r)
      PROVE  CacheTypeOK'
  BY <1>9 DEF Hit, ReaderAt, redis, writers
<1>10. ASSUME NEW r \in Reader, Miss(r)
       PROVE  CacheTypeOK'
  BY <1>10 DEF Miss, ReaderAt, redis, writers
<1>11. ASSUME NEW r \in Reader, ReadFails(r)
       PROVE  CacheTypeOK'
  BY <1>11 DEF ReadFails, ReaderAt, redis, writers
<1>12. ASSUME NEW r \in Reader, Query(r)
       PROVE  CacheTypeOK'
  BY <1>12 DEF Query, ReaderAt, redis, writers
<1>13. ASSUME NEW r \in Reader, Store(r)
       PROVE  CacheTypeOK'
  BY <1>13 DEF Store, ReaderAt, writers
<1>14. ASSUME NEW r \in Reader, ServeUnstored(r)
       PROVE  CacheTypeOK'
  BY <1>14 DEF ServeUnstored, ReaderAt, redis, writers
<1>15. ASSUME NEW d \in data, Expire(d)
       PROVE  CacheTypeOK'
  BY <1>15 DEF Expire, writers, readers
<1>16. CASE UNCHANGED cacheVars
  BY <1>16 DEF cacheVars, redis, writers, readers
<1>17. QED
  BY <1>1, <1>2, <1>3, <1>4, <1>5, <1>6, <1>7, <1>8,
     <1>9, <1>10, <1>11, <1>12, <1>13, <1>14, <1>15, <1>16
  DEF CacheNext, WriterStep, ReaderStep

\* The keys, counters and points of any number of clients of the cache keep
\* their types; in particular a reader has a version before it looks for data.
THEOREM CacheTypes == CacheSpec => []CacheTypeOK
<1>1. QED
  BY CacheTypesFirst, CacheTypesStay, PTL DEF CacheSpec

-----------------------------------------------------------------------------
(* Freshness *)

\* An invalidation that has set the version is over.
LEMMA ResetIsFinal ==
  ASSUME CacheTypeOK, [CacheNext]_cacheVars, NoReset'
  PROVE  NoReset
<1> USE DEF CacheTypeOK, NoReset
<1>1. ASSUME NEW w \in Writer, Commit(w)
      PROVE  NoReset
  BY <1>1 DEF Commit, redis, readers
<1>2. ASSUME NEW w \in Writer, LookUpVersion(w)
      PROVE  NoReset
  BY <1>2 DEF LookUpVersion, redis, readers
<1>3. ASSUME NEW w \in Writer, SetVersion(w)
      PROVE  NoReset
  BY <1>3 DEF SetVersion, Settle, readers
<1>4. ASSUME NEW w \in Writer, Increment(w)
      PROVE  NoReset
  BY <1>4 DEF Increment, Settle, readers
<1>5. ASSUME NEW w \in Writer, InvalidationFails(w)
      PROVE  NoReset
  BY <1>5 DEF InvalidationFails, redis, readers
<1>6. ASSUME NEW r \in Reader, ReadVersion(r)
      PROVE  NoReset
  BY <1>6 DEF ReadVersion, ReaderAt, redis, writers
<1>7. ASSUME NEW r \in Reader, AddVersion(r)
      PROVE  NoReset
  BY <1>7 DEF AddVersion, ReaderAt, writers
<1>8. ASSUME NEW r \in Reader, ReadAddedVersion(r)
      PROVE  NoReset
  BY <1>8 DEF ReadAddedVersion, ReaderAt, redis, writers
<1>9. ASSUME NEW r \in Reader, Hit(r)
      PROVE  NoReset
  BY <1>9 DEF Hit, ReaderAt, redis, writers
<1>10. ASSUME NEW r \in Reader, Miss(r)
       PROVE  NoReset
  BY <1>10 DEF Miss, ReaderAt, redis, writers
<1>11. ASSUME NEW r \in Reader, ReadFails(r)
       PROVE  NoReset
  BY <1>11 DEF ReadFails, ReaderAt, redis, writers
<1>12. ASSUME NEW r \in Reader, Query(r)
       PROVE  NoReset
  BY <1>12 DEF Query, ReaderAt, redis, writers
<1>13. ASSUME NEW r \in Reader, Store(r)
       PROVE  NoReset
  BY <1>13 DEF Store, ReaderAt, writers
<1>14. ASSUME NEW r \in Reader, ServeUnstored(r)
       PROVE  NoReset
  BY <1>14 DEF ServeUnstored, ReaderAt, redis, writers
<1>15. ASSUME NEW d \in data, Expire(d)
       PROVE  NoReset
  BY <1>15 DEF Expire, writers, readers
<1>16. CASE UNCHANGED cacheVars
  BY <1>16 DEF cacheVars, redis, writers, readers
<1>17. QED
  BY <1>1, <1>2, <1>3, <1>4, <1>5, <1>6, <1>7, <1>8,
     <1>9, <1>10, <1>11, <1>12, <1>13, <1>14, <1>15, <1>16
  DEF CacheNext, WriterStep, ReaderStep

\* As long as no invalidation sets the version, every step preserves the
\* freshness of what is stored, about to be stored, found and served.
LEMMA FreshStep ==
  ASSUME CacheTypeOK, CacheTypeOK', NoReset, NoReset', FreshInv, [CacheNext]_cacheVars
  PROVE  FreshInv'
<1> USE DEF CacheTypeOK, FreshInv, VersionInv, ComputedInv, KeyedInv, NoReset,
            CurrentIsFresh, ReadsAreFresh, Fresh, NoKey
<1>1. ASSUME NEW w \in Writer, Commit(w)
      PROVE  FreshInv'
  BY <1>1 DEF Commit, redis, readers
<1>2. ASSUME NEW w \in Writer, LookUpVersion(w)
      PROVE  FreshInv'
  BY <1>2 DEF LookUpVersion, redis, readers
<1>3. ASSUME NEW w \in Writer, SetVersion(w)
      PROVE  FreshInv'
  BY <1>3 DEF SetVersion, Settle, readers
<1>4. ASSUME NEW w \in Writer, Increment(w)
      PROVE  FreshInv'
  BY <1>4 DEF Increment, Settle, readers
<1>5. ASSUME NEW w \in Writer, InvalidationFails(w)
      PROVE  FreshInv'
  BY <1>5 DEF InvalidationFails, redis, readers
<1>6. ASSUME NEW r \in Reader, ReadVersion(r)
      PROVE  FreshInv'
  BY <1>6 DEF ReadVersion, ReaderAt, redis, writers
<1>7. ASSUME NEW r \in Reader, AddVersion(r)
      PROVE  FreshInv'
  BY <1>7 DEF AddVersion, ReaderAt, writers
<1>8. ASSUME NEW r \in Reader, ReadAddedVersion(r)
      PROVE  FreshInv'
  BY <1>8 DEF ReadAddedVersion, ReaderAt, redis, writers
<1>9. ASSUME NEW r \in Reader, Hit(r)
      PROVE  FreshInv'
  BY <1>9 DEF Hit, ReaderAt, redis, writers
<1>10. ASSUME NEW r \in Reader, Miss(r)
       PROVE  FreshInv'
  BY <1>10 DEF Miss, ReaderAt, redis, writers
<1>11. ASSUME NEW r \in Reader, ReadFails(r)
       PROVE  FreshInv'
  BY <1>11 DEF ReadFails, ReaderAt, redis, writers
<1>12. ASSUME NEW r \in Reader, Query(r)
       PROVE  FreshInv'
  BY <1>12 DEF Query, ReaderAt, redis, writers
<1>13. ASSUME NEW r \in Reader, Store(r)
       PROVE  FreshInv'
  BY <1>13 DEF Store, ReaderAt, writers
<1>14. ASSUME NEW r \in Reader, ServeUnstored(r)
       PROVE  FreshInv'
  BY <1>14 DEF ServeUnstored, ReaderAt, redis, writers
<1>15. ASSUME NEW d \in data, Expire(d)
       PROVE  FreshInv'
  BY <1>15 DEF Expire, writers, readers
<1>16. CASE UNCHANGED cacheVars
  BY <1>16 DEF cacheVars, redis, writers, readers
<1>17. QED
  BY <1>1, <1>2, <1>3, <1>4, <1>5, <1>6, <1>7, <1>8,
     <1>9, <1>10, <1>11, <1>12, <1>13, <1>14, <1>15, <1>16
  DEF CacheNext, WriterStep, ReaderStep

LEMMA CacheInvFirst == CacheInit => CacheInv
<1>1. CacheInit => (NoReset => FreshInv)
  BY DEF CacheInit, Idle, NoKey, FreshInv, VersionInv, ComputedInv, KeyedInv,
         CurrentIsFresh, ReadsAreFresh, Fresh
<1>2. QED
  BY <1>1, CacheTypesFirst DEF CacheInv

LEMMA CacheInvStays == CacheInv /\ [CacheNext]_cacheVars => CacheInv'
<1> SUFFICES ASSUME CacheInv, [CacheNext]_cacheVars
             PROVE  CacheInv'
  OBVIOUS
<1>1. CacheTypeOK /\ CacheTypeOK'
  BY CacheTypesStay DEF CacheInv
<1>2. ASSUME NoReset'
      PROVE  FreshInv'
  <2>1. NoReset
    BY <1>1, <1>2, ResetIsFinal
  <2>2. FreshInv
    BY <2>1 DEF CacheInv
  <2>3. QED
    BY <1>1, <1>2, <2>1, <2>2, FreshStep
<1>3. QED
  BY <1>1, <1>2 DEF CacheInv

LEMMA CacheInvariance == CacheSpec => []CacheInv
<1>1. QED
  BY CacheInvFirst, CacheInvStays, PTL DEF CacheSpec

\* As long as no invalidation has set the version, what Redis holds under the
\* current version shows every change that has been invalidated
\* (dashboard/cache.py), for all writers and readers.
THEOREM CacheFresh == CacheSpec => []CurrentIsFresh
<1>1. CacheInv => CurrentIsFresh
  BY DEF CacheInv, FreshInv, CurrentIsFresh
<1>2. QED
  BY <1>1, CacheInvariance, PTL

\* On the same condition a dashboard shows every change whose invalidation was
\* done when it was asked for, however many writers and readers overlap.
THEOREM DashboardFresh == CacheSpec => []ReadsAreFresh
<1>1. CacheInv => ReadsAreFresh
  BY DEF CacheInv, FreshInv, ReadsAreFresh
<1>2. QED
  BY <1>1, CacheInvariance, PTL
=============================================================================
