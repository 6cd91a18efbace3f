---------------------------- MODULE WorkQueue ----------------------------
(***************************************************************************)
(* What a worker thread for tasks promises: the tasks it is given are      *)
(* carried out one at a time, in the order in which they were pushed, each *)
(* of them once; those not begun when it is destroyed are dropped.         *)
(* Task refines this specification with a mutex, a condition variable and  *)
(* a stop flag; the collector relies on it.                                *)
(***************************************************************************)
EXTENDS Sequences

CONSTANT Tasks

VARIABLES
  pushed,  \* every task ever given to the worker
  queue,   \* tasks that are not carried out yet, the oldest first
  busy     \* TRUE while the oldest one is being carried out

vars == <<pushed, queue, busy>>

Init == pushed = {} /\ queue = <<>> /\ busy = FALSE

Push(t) ==
  /\ t \notin pushed
  /\ pushed' = pushed \cup {t}
  /\ queue' = Append(queue, t)
  /\ busy' = busy

Start ==
  /\ ~ busy /\ queue # <<>>
  /\ busy' = TRUE
  /\ UNCHANGED <<pushed, queue>>

Finish ==
  /\ busy
  /\ busy' = FALSE
  /\ queue' = Tail(queue)
  /\ pushed' = pushed

Drop ==
  /\ ~ busy
  /\ queue' = <<>>
  /\ UNCHANGED <<pushed, busy>>

Next == (\E t \in Tasks : Push(t)) \/ Start \/ Finish \/ Drop

Spec == Init /\ [][Next]_vars
=============================================================================
