------------------------------- MODULE Task -------------------------------
(***************************************************************************)
(* Task<R>: a worker thread (do_work), the threads that give it work       *)
(* (push_work), and the thread that destroys it (~Task).                   *)
(*                                                                         *)
(* A step is one region under m_in_mut, one notification, one access to    *)
(* the stop flag, or the run of a task.  m_in_mut is held over two steps   *)
(* in one place only: the worker holds it from finding the queue empty     *)
(* until it is asleep.                                                     *)
(***************************************************************************)
EXTENDS Sequences

CONSTANTS
  Pushers,   \* threads that call push_work
  Jobs       \* tasks; each is pushed at most once

VARIABLES
  m_tasks,   \* the queue; a task stays at its head until it has been run
  m_thread,  \* where the worker is in do_work
  stop,      \* stop_requested
  result,    \* the future of each job
  notify,    \* pushers that have left the region but not notified yet
  owner      \* the destructor: "alive", "stopping", "joining" or "gone"

vars == <<m_tasks, m_thread, stop, result, notify, owner>>

Init ==
  /\ m_tasks = <<>>
  /\ m_thread = "loop"
  /\ stop = FALSE
  /\ result = [j \in Jobs |-> "none"]
  /\ notify = {}
  /\ owner = "alive"

-----------------------------------------------------------------------------
(* push_work *)

Locked == m_thread = "wait"

(* Mutant: the queue is changed without the mutex. *)
PushUnlocked(p, j) ==
  /\ owner = "alive" /\ p \notin notify /\ result[j] = "none"
  /\ m_tasks' = Append(m_tasks, j)
  /\ result' = [result EXCEPT ![j] = "pending"]
  /\ notify' = notify \cup {p}
  /\ UNCHANGED <<m_thread, stop, owner>>

Push(p, j) ==
  /\ owner = "alive" /\ p \notin notify /\ result[j] = "none"
  /\ ~ Locked
  /\ m_tasks' = Append(m_tasks, j)
  /\ result' = [result EXCEPT ![j] = "pending"]
  /\ notify' = notify \cup {p}
  /\ UNCHANGED <<m_thread, stop, owner>>

(* What a notification does to the worker *)
Notified == IF m_thread = "sleep" THEN "woken" ELSE m_thread

NotifyOne(p) ==
  /\ p \in notify
  /\ m_thread' = Notified
  /\ notify' = notify \ {p}
  /\ UNCHANGED <<m_tasks, stop, result, owner>>

-----------------------------------------------------------------------------
(* do_work *)

(* while (!stop_token.stop_requested()) *)
LoopTest ==
  /\ m_thread = "loop"
  /\ m_thread' = IF stop THEN "done" ELSE "lock"
  /\ UNCHANGED <<m_tasks, stop, result, notify, owner>>

(* With the lock: the worker takes the first task, or it finds none.        *)
Take == IF m_tasks = <<>> THEN "wait" ELSE "run"

Lock ==
  /\ m_thread = "lock"
  /\ m_thread' = Take
  /\ UNCHANGED <<m_tasks, stop, result, notify, owner>>

(* m_input.wait(lk) releases the mutex and sleeps in one step. *)
Wait ==
  /\ m_thread = "wait"
  /\ m_thread' = "sleep"
  /\ UNCHANGED <<m_tasks, stop, result, notify, owner>>

(* wait may return without a notification. *)
WakeSpuriously ==
  /\ m_thread = "sleep"
  /\ m_thread' = "woken"
  /\ UNCHANGED <<m_tasks, stop, result, notify, owner>>

(* Mutant: the queue is tested once, not again after wait. *)
WokenOnce ==
  /\ m_thread = "woken"
  /\ m_thread' = IF stop THEN "done" ELSE "run"
  /\ UNCHANGED <<m_tasks, stop, result, notify, owner>>

(* wait has the mutex again: the stop flag is tested, then the queue. *)
Woken ==
  /\ m_thread = "woken"
  /\ m_thread' = IF stop THEN "done" ELSE Take
  /\ UNCHANGED <<m_tasks, stop, result, notify, owner>>

(* task(): its value, or its exception, becomes available. *)
Run ==
  /\ m_thread = "run"
  /\ result' = [result EXCEPT ![Head(m_tasks)] = "ready"]
  /\ m_thread' = "pop"
  /\ UNCHANGED <<m_tasks, stop, notify, owner>>

(* Mutant: the task that has been run stays in the queue. *)
PopForgotten ==
  /\ m_thread = "pop"
  /\ m_thread' = "loop"
  /\ UNCHANGED <<m_tasks, stop, result, notify, owner>>

Pop ==
  /\ m_thread = "pop"
  /\ m_tasks' = Tail(m_tasks)
  /\ m_thread' = "loop"
  /\ UNCHANGED <<stop, result, notify, owner>>

-----------------------------------------------------------------------------
(* ~Task, called when no push_work is running any more *)

RequestStop ==
  /\ owner = "alive" /\ notify = {}
  /\ stop' = TRUE
  /\ owner' = "stopping"
  /\ UNCHANGED <<m_tasks, m_thread, result, notify>>

(* Mutant: the destructor does not notify. *)
NotifyNobody ==
  /\ owner = "stopping"
  /\ owner' = "joining"
  /\ UNCHANGED <<m_tasks, m_thread, stop, result, notify>>

(* m_input.notify_all(), without the mutex *)
NotifyAll ==
  /\ owner = "stopping"
  /\ m_thread' = Notified
  /\ owner' = "joining"
  /\ UNCHANGED <<m_tasks, stop, result, notify>>

(* Mutant: the promises of dropped tasks are left alone. *)
JoinOnly ==
  /\ owner = "joining" /\ m_thread = "done"
  /\ owner' = "gone"
  /\ m_tasks' = <<>>
  /\ UNCHANGED <<m_thread, stop, result, notify>>

(* The destructors of m_thread and m_tasks: the worker is joined, and the   *)
(* promises of the tasks still queued are broken.                           *)
Join ==
  /\ owner = "joining" /\ m_thread = "done"
  /\ owner' = "gone"
  /\ m_tasks' = <<>>
  /\ result' = [j \in Jobs |-> IF result[j] = "pending" THEN "broken"
                               ELSE result[j]]
  /\ UNCHANGED <<m_thread, stop, notify>>

-----------------------------------------------------------------------------
Worker == LoopTest \/ Lock \/ Wait \/ Woken \/ Run \/ Pop

Destructor == NotifyAll \/ Join

Next ==
  \/ \E p \in Pushers : NotifyOne(p) \/ \E j \in Jobs : Push(p, j)
  \/ Worker \/ WakeSpuriously
  \/ RequestStop \/ Destructor

(* The threads run; spurious wake-ups are never relied on. *)
Fairness ==
  /\ WF_vars(Worker) /\ WF_vars(Destructor)
  /\ \A p \in Pushers : WF_vars(NotifyOne(p))

Spec == Init /\ [][Next]_vars
FairSpec == Spec /\ Fairness

-----------------------------------------------------------------------------
TypeOK ==
  /\ m_tasks \in Seq(Jobs)
  /\ m_thread \in {"run", "pop"} => m_tasks # <<>>
  /\ m_thread \in {"loop", "lock", "wait", "sleep", "woken", "run", "pop",
                   "done"}
  /\ stop \in BOOLEAN
  /\ result \in [Jobs -> {"none", "pending", "ready", "broken"}]
  /\ notify \subseteq Pushers
  /\ owner \in {"alive", "stopping", "joining", "gone"}

(* The worker never sleeps on work: when it is asleep and there is a task,  *)
(* the pusher of one has its notification still to come.                    *)
NoSleepOnWork == m_thread = "sleep" /\ m_tasks # <<>> => notify # {}

(* The queue, the worker and the futures agree: tasks are carried out one   *)
(* at a time in the order they were pushed, and a task whose future is      *)
(* ready is over although it is still at the head of the queue.             *)
Work == INSTANCE WorkQueue WITH
  Tasks <- Jobs,
  pushed <- {j \in Jobs : result[j] # "none"},
  queue <- IF m_thread = "pop" THEN Tail(m_tasks) ELSE m_tasks,
  busy <- m_thread = "run"
TasksInOrder == Work!Spec

(* Nobody waits for a future for ever: a task that was pushed is run, or    *)
(* its promise is broken when the Task is destroyed.                        *)
FuturesSettle ==
  \A j \in Jobs : (result[j] = "pending") ~> (result[j] \in {"ready", "broken"})

(* A stop request reaches the worker wherever it is, asleep or at work,     *)
(* except between the test of the stop flag and its sleep: there the        *)
(* notification of the destructor is lost.                                  *)
StopsOutsideWindow ==
  (owner = "stopping" /\ m_thread \notin {"lock", "wait"}) ~> (owner = "gone")
=============================================================================
