----------------------------- MODULE Teardown -----------------------------
(***************************************************************************)
(* The end of a CopyingCollector: its members are destroyed one after the  *)
(* other, the last declared first, while the worker of its Task may still  *)
(* be running a collection that uses them.  The destructor of the Task,    *)
(* which waits for the worker, is that of one member among the others.     *)
(***************************************************************************)
EXTENDS Task, Naturals, FiniteSets

VARIABLE dead   \* members destroyed so far

allVars == <<vars, dead>>

TeardownInit == Init /\ dead = {}

(* Mutant: m_lock is declared before m_metadata, and destroyed after it. *)
DestructionLockEarly ==
  <<"m_gen_policy", "m_test_mu", "m_tcount", "m_collect_result",
    "m_max_alloc_size", "m_metadata", "m_collect_task", "m_mutex",
    "m_space_num", "m_nexts", "m_spaces", "m_heap_size">>
(* The members in the order of their destruction; m_lock is its m_mutex and *)
(* its m_collect_task.                                                      *)
Destruction ==
  <<"m_gen_policy", "m_test_mu", "m_tcount", "m_collect_task",
    "m_mutex", "m_collect_result", "m_max_alloc_size", "m_metadata",
    "m_space_num", "m_nexts", "m_spaces", "m_heap_size">>

(* What is destroyed next *)
Doomed == IF dead = {Destruction[k] : k \in DOMAIN Destruction} THEN "nothing"
          ELSE Destruction[Cardinality(dead) + 1]

(* The members the lambda of async_collect uses, with what it calls *)
CollectionUses ==
  {"m_heap_size", "m_spaces", "m_nexts", "m_metadata", "m_mutex",
   "m_gen_policy"}

(* ~CopyingCollector has begun with the first member, when no mutator is in *)
(* the collector any more.                                                  *)
DestroyMember ==
  /\ Doomed \notin {"m_collect_task", "nothing"}
  /\ dead = {} => notify = {}
  /\ dead' = dead \cup {Doomed}
  /\ UNCHANGED vars

(* ~Task *)
DestroyTask ==
  /\ Doomed = "m_collect_task"
  /\ \/ (RequestStop \/ NotifyAll) /\ UNCHANGED dead
     \/ Join /\ dead' = dead \cup {Doomed}

(* collect gives the worker a collection while the collector is alive. *)
Collect(p) ==
  /\ dead = {}
  /\ NotifyOne(p) \/ \E j \in Jobs : Push(p, j)
  /\ UNCHANGED dead

WorkerStep == Worker /\ UNCHANGED dead

TeardownNext ==
  \/ \E p \in Pushers : Collect(p)
  \/ WorkerStep \/ (WakeSpuriously /\ UNCHANGED dead)
  \/ DestroyMember \/ DestroyTask

(* As in Task; and a destructor that has begun goes on. *)
TeardownFairness ==
  /\ WF_allVars(WorkerStep)
  /\ WF_allVars(dead # {} /\ DestroyMember) /\ WF_allVars(DestroyTask)
  /\ \A p \in Pushers : WF_allVars(NotifyOne(p) /\ UNCHANGED dead)

TeardownSpec == TeardownInit /\ [][TeardownNext]_allVars /\ TeardownFairness

-----------------------------------------------------------------------------
(* A collection that still runs when the collector is destroyed finds every *)
(* member it uses but one: they are declared before m_lock, whose           *)
(* destructor waits for the worker.  m_gen_policy is declared behind it: a  *)
(* collection uses it when it may be gone, and it alone.                    *)
MembersAlive ==
  m_thread = "run" => CollectionUses \cap dead \subseteq {"m_gen_policy"}
=============================================================================
