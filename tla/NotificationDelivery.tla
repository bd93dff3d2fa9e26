------------------------ MODULE NotificationDelivery ------------------------
(***************************************************************************)
(* The delivery of sale_completed events by Celery workers.  A checkout    *)
(* commits an event and then hands a task to the broker; the operators'    *)
(* command retry_notifications hands tasks for events that are still       *)
(* pending.  A worker locks the event row, sends the e-mail inside the     *)
(* transaction and records the outcome; a temporary failure is retried by  *)
(* handing the task to the broker again.                                   *)
(*                                                                         *)
(* A worker may die at every step.  Celery acknowledges a task before it   *)
(* runs, so the task dies with the worker and its transaction rolls back,  *)
(* but an e-mail that the SMTP server has accepted stays accepted.         *)
(***************************************************************************)
EXTENDS Integers, Sequences, FiniteSets

CONSTANTS
  Event,          \* primary keys of notification events
  Worker,         \* worker processes that may run at the same time
  NoTask,         \* what an idle worker runs
  MaxRetries,     \* max_retries of the task
  Limit,          \* the --limit of the command
  IncludeFailed,  \* whether the operators use --include-failed
  MaxHanded,      \* bound: tasks the checkout and the command hand per event
  MaxFaults       \* bound: deaths of processes and broker errors

ASSUME DeliveryAssumption ==
  /\ MaxRetries \in Nat /\ MaxFaults \in Nat
  /\ Limit \in Nat \ {0} /\ MaxHanded \in Nat \ {0}
  /\ IncludeFailed \in BOOLEAN

Task == [event: Event, retries: 0 .. MaxRetries]
ASSUME NoTaskAssumption == NoTask \notin Task

VARIABLES
  (* committed rows *)
  status,    \* Event -> "none", "pending", "failed", "sent" or "deleted"
  attempts,  \* Event -> attempt_count
  created,   \* the events in the order of created_at
  (* processes *)
  owed,      \* events whose checkout has still to run its on_commit callback
  listed,    \* where in created a running command has still to queue an event
  queued,    \* Task -> how often the broker or its countdown holds the task
  task,      \* Worker -> the task it runs, or NoTask
  at,        \* Worker -> the point it has reached
  (* the outside world, and counters that only the properties read *)
  mails,     \* Event -> how often the SMTP server has accepted its e-mail
  lapses,    \* Event -> acceptances that the row will never know of
  handed,    \* Event -> tasks handed by checkout and command
  faults     \* deaths and broker errors so far

rows == <<status, attempts, created>>
clients == <<owed, listed>>
world == <<mails, lapses>>
vars == <<rows, clients, queued, task, at, world, handed, faults>>

Init ==
  /\ status = [e \in Event |-> "none"]
  /\ attempts = [e \in Event |-> 0]
  /\ created = << >>
  /\ owed = {} /\ listed = {}
  /\ queued = [t \in Task |-> 0]
  /\ task = [w \in Worker |-> NoTask]
  /\ at = [w \in Worker |-> "idle"]
  /\ mails = [e \in Event |-> 0]
  /\ lapses = [e \in Event |-> 0]
  /\ handed = [e \in Event |-> 0]
  /\ faults = 0

-----------------------------------------------------------------------------
(* The broker *)

NewTask(e) == [event |-> e, retries |-> 0]

Enqueue(t) == queued' = [queued EXCEPT ![t] = @ + 1]

\* delay(event_id), from the checkout's callback or from the command.
Hand(e) ==
  /\ Enqueue(NewTask(e))
  /\ handed' = [handed EXCEPT ![e] = @ + 1]

Fault ==
  /\ faults < MaxFaults
  /\ faults' = faults + 1

-----------------------------------------------------------------------------
(* The checkout *)

\* The event is committed together with its sale.
CommitCheckout(e) ==
  /\ status[e] = "none"
  /\ status' = [status EXCEPT ![e] = "pending"]
  /\ created' = Append(created, e)
  /\ owed' = owed \cup {e}
  /\ UNCHANGED <<attempts, listed, queued, task, at, world, handed, faults>>

EnqueueAfterCommit(e) ==
  /\ e \in owed
  /\ Hand(e)
  /\ owed' = owed \ {e}
  /\ UNCHANGED <<rows, listed, task, at, world, faults>>

\* The broker refuses the task, which is logged, or the web process dies.
EnqueueFails(e) ==
  /\ e \in owed
  /\ Fault
  /\ owed' = owed \ {e}
  /\ UNCHANGED <<rows, listed, queued, task, at, world, handed>>

-----------------------------------------------------------------------------
(* retry_notifications *)

\* Faulty form: only events that have failed are listed.
SelectedStatusFailedOnly == {"failed"}

SelectedStatus == IF IncludeFailed THEN {"pending", "failed"} ELSE {"pending"}

\* The n smallest members of a set of positions.
Oldest(n, S) == {k \in S : Cardinality({j \in S : j < k}) < n}

\* The command lists the oldest events once and then queues them one by one,
\* although a worker may have sent some of them by then.
SelectEvents ==
  /\ listed = {}
  /\ listed' = Oldest(Limit, {k \in DOMAIN created :
                                status[created[k]] \in SelectedStatus})
  /\ listed' # {}
  /\ \A k \in listed' : handed[created[k]] < MaxHanded
  /\ UNCHANGED <<rows, owed, queued, task, at, world, handed, faults>>

QueueListed ==
  /\ \E k \in listed :
       /\ \A j \in listed : k <= j
       /\ Hand(created[k])
       /\ listed' = listed \ {k}
  /\ UNCHANGED <<rows, owed, task, at, world, faults>>

\* A broker error ends the command and leaves the rest of its list out.
CommandFails ==
  /\ listed # {}
  /\ Fault
  /\ listed' = {}
  /\ UNCHANGED <<rows, owed, queued, task, at, world, handed>>

-----------------------------------------------------------------------------
(* deliver_notification_event *)

\* The points at which a worker's transaction has the event row locked.
Locking == {"locked", "accepted", "refused", "broken"}

\* Faulty form: the row is read without select_for_update.
RowFreeUnlocked(e) == TRUE

RowFree(e) == \A w \in Worker : task[w] # NoTask /\ task[w].event = e
                                  => at[w] \notin Locking

Goto(w, point) ==
  /\ at' = [at EXCEPT ![w] = point]
  /\ UNCHANGED task
Finish(w) ==
  /\ at' = [at EXCEPT ![w] = "idle"]
  /\ task' = [task EXCEPT ![w] = NoTask]

Fetch(w) ==
  /\ at[w] = "idle"
  /\ \E t \in Task :
       /\ queued[t] > 0
       /\ queued' = [queued EXCEPT ![t] = @ - 1]
       /\ task' = [task EXCEPT ![w] = t]
  /\ at' = [at EXCEPT ![w] = "called"]
  /\ UNCHANGED <<rows, clients, world, handed, faults>>

\* The event is missing, or already sent: nothing is left to do.
SkipEvent(w) ==
  /\ at[w] = "called"
  /\ RowFree(task[w].event)
  /\ status[task[w].event] \in {"none", "sent", "deleted"}
  /\ Finish(w)
  /\ UNCHANGED <<rows, clients, queued, world, handed, faults>>

\* Faulty form: the status of the locked row is not looked at.
LockEventAnyStatus(w) ==
  /\ at[w] = "called"
  /\ RowFree(task[w].event)
  /\ status[task[w].event] \in {"pending", "failed", "sent"}
  /\ Goto(w, "locked")
  /\ UNCHANGED <<rows, clients, queued, world, handed, faults>>

LockEvent(w) ==
  /\ at[w] = "called"
  /\ RowFree(task[w].event)
  /\ status[task[w].event] \in {"pending", "failed"}
  /\ Goto(w, "locked")
  /\ UNCHANGED <<rows, clients, queued, world, handed, faults>>

SendAccepted(w) ==
  /\ at[w] = "locked"
  /\ Goto(w, "accepted")
  /\ mails' = [mails EXCEPT ![task[w].event] = @ + 1]
  /\ UNCHANGED <<rows, clients, queued, lapses, handed, faults>>

\* The server refuses, or cannot be reached: EmailDeliveryError.
SendRefused(w) ==
  /\ at[w] = "locked"
  /\ Goto(w, "refused")
  /\ UNCHANGED <<rows, clients, queued, world, handed, faults>>

\* The connection breaks after the acceptance: EmailDeliveryError all the same.
SendUnanswered(w) ==
  /\ at[w] = "locked"
  /\ Fault
  /\ Goto(w, "refused")
  /\ mails' = [mails EXCEPT ![task[w].event] = @ + 1]
  /\ lapses' = [lapses EXCEPT ![task[w].event] = @ + 1]
  /\ UNCHANGED <<rows, clients, queued, handed>>

\* Any other exception is recorded but not retried.
SendBreaks(w) ==
  /\ at[w] = "locked"
  /\ Goto(w, "broken")
  /\ UNCHANGED <<rows, clients, queued, world, handed, faults>>

\* The outcome is saved and committed, and the row lock released.
RecordAttempt(w) ==
  /\ at[w] \in {"accepted", "refused", "broken"}
  /\ attempts' = [attempts EXCEPT ![task[w].event] = @ + 1]
  /\ status' = [status EXCEPT ![task[w].event] =
                  IF at[w] = "accepted" THEN "sent" ELSE "failed"]
  /\ IF at[w] = "refused" THEN Goto(w, "retry") ELSE Finish(w)
  /\ UNCHANGED <<created, clients, queued, world, handed, faults>>

\* Faulty form: the retried task starts counting from the beginning.
RetryLaterUncounted(w) ==
  /\ at[w] = "retry"
  /\ task[w].retries < MaxRetries
  /\ Enqueue(task[w])
  /\ Finish(w)
  /\ UNCHANGED <<rows, clients, world, handed, faults>>

RetryLater(w) ==
  /\ at[w] = "retry"
  /\ task[w].retries < MaxRetries
  /\ Enqueue([task[w] EXCEPT !.retries = @ + 1])
  /\ Finish(w)
  /\ UNCHANGED <<rows, clients, world, handed, faults>>

GiveUp(w) ==
  /\ at[w] = "retry"
  /\ task[w].retries = MaxRetries
  /\ Finish(w)
  /\ UNCHANGED <<rows, clients, queued, world, handed, faults>>

\* The worker, its database connection or its broker fails.
WorkerDies(w) ==
  /\ at[w] # "idle"
  /\ Fault
  /\ Finish(w)
  /\ lapses' = IF at[w] = "accepted"
               THEN [lapses EXCEPT ![task[w].event] = @ + 1] ELSE lapses
  /\ UNCHANGED <<rows, clients, queued, mails, handed>>

\* The sales of the demo tenant are deleted, and their events with them, once
\* no worker has the row locked.
DeleteSale(e) ==
  /\ status[e] \in {"pending", "failed", "sent"}
  /\ RowFree(e)
  /\ status' = [status EXCEPT ![e] = "deleted"]
  /\ UNCHANGED <<attempts, created, clients, queued, task, at, world,
                 handed, faults>>

-----------------------------------------------------------------------------
(* Specification *)

WorkerStep(w) == \/ Fetch(w) \/ SkipEvent(w) \/ LockEvent(w)
                 \/ SendAccepted(w) \/ SendRefused(w) \/ SendUnanswered(w)
                 \/ SendBreaks(w) \/ RecordAttempt(w)
                 \/ RetryLater(w) \/ GiveUp(w)

CommandStep == SelectEvents \/ QueueListed \/ CommandFails

\* Nothing is under way; the system waits for sales and operators.
Rest ==
  /\ owed = {} /\ listed = {}
  /\ \A w \in Worker : at[w] = "idle"
  /\ \A t \in Task : queued[t] = 0
  /\ UNCHANGED vars

Next == \/ \E e \in Event : \/ CommitCheckout(e) \/ EnqueueAfterCommit(e)
                            \/ EnqueueFails(e) \/ DeleteSale(e)
        \/ \E w \in Worker : WorkerStep(w) \/ WorkerDies(w)
        \/ CommandStep
        \/ Rest

Spec == Init /\ [][Next]_vars

\* Live processes go on, and the operators repeat the command while it finds
\* events, as docs/OPERATIONS.md tells them to.
Fairness == /\ \A w \in Worker : WF_vars(WorkerStep(w))
            /\ \A e \in Event : WF_vars(EnqueueAfterCommit(e) \/ EnqueueFails(e))
            /\ WF_vars(CommandStep)

FairSpec == Spec /\ Fairness

-----------------------------------------------------------------------------
(* Properties *)

Point == {"idle", "called", "locked", "accepted", "refused", "broken", "retry"}

ListingOK == created \in Seq(Event) /\ listed \subseteq DOMAIN created

\* Types; in particular a worker without a task is idle.
TypeOK ==
  /\ status \in [Event -> {"none", "pending", "failed", "sent", "deleted"}]
  /\ attempts \in [Event -> Nat]
  /\ owed \subseteq Event
  /\ ListingOK
  /\ queued \in [Task -> Nat]
  /\ task \in [Worker -> Task \cup {NoTask}]
  /\ at \in [Worker -> Point]
  /\ \A w \in Worker : at[w] = "idle" <=> task[w] = NoTask
  /\ mails \in [Event -> Nat] /\ lapses \in [Event -> Nat]
  /\ handed \in [Event -> Nat] /\ faults \in 0 .. MaxFaults

\* An e-mail is accepted once for each event, and once more for each time that
\* a death or a broken connection kept an acceptance from being recorded,
\* however many tasks of the event overlap; a sent event has been accepted.
NoNeedlessDuplicate ==
  \A e \in Event : /\ mails[e] <= 1 + lapses[e]
                   /\ status[e] = "sent" => mails[e] = 1 + lapses[e]

\* "sent" is final: no later attempt, retry or command sends the e-mail again
\* or takes the status back.
SentIsFinal ==
  [][\A e \in Event : status[e] = "sent" =>
       /\ status'[e] \in {"sent", "deleted"}
       /\ attempts'[e] = attempts[e] /\ mails'[e] = mails[e]]_vars

RetriesBounded ==
  \A e \in Event : attempts[e] <= (1 + MaxRetries) * handed[e]

\* The rows are well-formed, and what is tried for an event never exceeds what
\* was handed over: each task that the broker gets makes at most 1 + MaxRetries
\* attempts, although it overlaps others (notifications/tasks.py:7-26).
EventsSound == TypeOK /\ RetriesBounded

\* No committed event stays pending for ever, whichever tasks are lost.
EveryEventIsAttempted ==
  \A e \in Event : (status[e] = "pending") ~> (status[e] # "pending")
=============================================================================
