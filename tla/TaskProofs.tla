---------------------------- MODULE TaskProofs ----------------------------
(***************************************************************************)
(* Proofs about the worker thread, for any number of pushers and of tasks, *)
(* and about the end of the collector it is a member of.                   *)
(***************************************************************************)
EXTENDS Teardown, SequenceTheorems, FiniteSetTheorems, TLAPS

(* The worker goes to sleep on an empty queue only, and what is queued has  *)
(* been pushed.                                                             *)
IInv ==
  /\ TypeOK
  /\ NoSleepOnWork
  /\ m_thread = "wait" => m_tasks = <<>>
  /\ \A i \in 1 .. Len(m_tasks) : result[m_tasks[i]] # "none"

(* Initially there is no task.                                              *)
LEMMA InitIInv == Init => IInv
  <1> SUFFICES ASSUME Init PROVE IInv
    OBVIOUS
  <1>1. m_tasks = <<>> /\ m_tasks \in Seq(Jobs) /\ 1 .. Len(m_tasks) = {}
    BY DEF Init
  <1>2. TypeOK
    BY <1>1 DEF Init, TypeOK
  <1>3. QED
    BY <1>1, <1>2 DEF IInv, NoSleepOnWork

(* A task appended to a queue that has a head comes after its tail.         *)
LEMMA TailAppend ==
  ASSUME NEW S, NEW s \in Seq(S), NEW x \in S, s # <<>>
  PROVE  /\ Append(s, x) # <<>>
         /\ Head(Append(s, x)) = Head(s)
         /\ Tail(Append(s, x)) = Append(Tail(s), x)
  BY HeadTailAppend

(* Every step preserves the invariant.                                      *)
LEMMA StepIInv == IInv /\ [Next]_vars => IInv'
  <1> SUFFICES ASSUME IInv, [Next]_vars PROVE IInv'
    OBVIOUS
  <1>0. /\ TypeOK /\ NoSleepOnWork /\ m_tasks \in Seq(Jobs)
        /\ result \in [Jobs -> {"none", "pending", "ready", "broken"}]
        /\ \A i \in 1 .. Len(m_tasks) : result[m_tasks[i]] # "none"
    BY DEF IInv, TypeOK
  <1>1. ASSUME NEW p \in Pushers, NEW j \in Jobs, Push(p, j)
        PROVE  IInv'
    <2>1. /\ m_tasks' = Append(m_tasks, j) /\ m_tasks' \in Seq(Jobs)
          /\ m_tasks' # <<>> /\ notify' = notify \cup {p}
          /\ result' = [result EXCEPT ![j] = "pending"]
          /\ m_thread' = m_thread /\ m_thread # "wait"
          /\ UNCHANGED <<stop, owner>>
      BY <1>0, <1>1 DEF Push, Locked
    <2>2. \A i \in 1 .. Len(m_tasks') : result'[m_tasks'[i]] # "none"
      <3>1. ASSUME NEW i \in 1 .. Len(m_tasks')
            PROVE  m_tasks'[i] = j \/ (i \in 1 .. Len(m_tasks) /\ m_tasks'[i] = m_tasks[i])
        BY <1>0, <2>1
      <3>2. \A i \in 1 .. Len(m_tasks) : m_tasks[i] \in Jobs
        BY <1>0
      <3>3. QED
        BY <1>0, <2>1, <3>1, <3>2
    <2>3. TypeOK'
      BY <1>0, <2>1 DEF TypeOK
    <2>4. NoSleepOnWork'
      BY <2>1 DEF NoSleepOnWork
    <2>5. QED
      BY <2>1, <2>2, <2>3, <2>4 DEF IInv
  <1>2. CASE \/ \E p \in Pushers : NotifyOne(p)
             \/ LoopTest \/ Lock \/ Wait \/ WakeSpuriously \/ Woken
             \/ RequestStop \/ NotifyAll
    BY <1>2 DEF IInv, TypeOK, NoSleepOnWork, NotifyOne, Notified, LoopTest,
            Lock, Take, Wait, WakeSpuriously, Woken, RequestStop, NotifyAll
  <1>3. CASE Run
    <2>1. Head(m_tasks) \in Jobs /\ m_tasks # <<>>
      BY <1>0, <1>3 DEF Run, TypeOK
    <2>2. \A i \in 1 .. Len(m_tasks) : result'[m_tasks[i]] # "none"
      BY <1>0, <1>3 DEF Run
    <2>3. QED
      BY <1>0, <1>3, <2>1, <2>2 DEF Run, IInv, TypeOK, NoSleepOnWork
  <1>4. CASE Pop
    <2>1. m_tasks # <<>> /\ m_tasks' = Tail(m_tasks) /\ m_thread' = "loop"
          /\ UNCHANGED <<stop, result, notify, owner>>
      BY <1>0, <1>4 DEF Pop, TypeOK
    <2>2. /\ m_tasks' \in Seq(Jobs) /\ Len(m_tasks') = Len(m_tasks) - 1
          /\ \A i \in 1 .. Len(m_tasks') : m_tasks'[i] = m_tasks[i + 1]
      BY <1>0, <2>1
    <2>3. \A i \in 1 .. Len(m_tasks') : result'[m_tasks'[i]] # "none"
      BY <1>0, <2>1, <2>2
    <2>4. QED
      BY <1>0, <2>1, <2>2, <2>3 DEF IInv, TypeOK, NoSleepOnWork
  <1>5. CASE Join
    BY <1>0, <1>5 DEF Join, IInv, TypeOK, NoSleepOnWork
  <1>6. CASE UNCHANGED vars
    BY <1>6 DEF vars, IInv, TypeOK, NoSleepOnWork
  <1>7. QED
    BY <1>1, <1>2, <1>3, <1>4, <1>5, <1>6 DEF Next, Worker, Destructor

(* The invariant of the worker for every set of pushers and tasks.          *)
THEOREM Invariance == Spec => []IInv
  BY InitIInv, StepIInv, PTL DEF Spec

(* The worker is never asleep while there is a task and nobody is about to  *)
(* notify it, although push_work notifies after it released the mutex.      *)
THEOREM NeverAsleepOnWork == Spec => []NoSleepOnWork
  <1>1. IInv => NoSleepOnWork
    BY DEF IInv
  <1>2. QED
    BY <1>1, Invariance, PTL

-----------------------------------------------------------------------------
Pushed == {j \in Jobs : result[j] # "none"}
Queue == IF m_thread = "pop" THEN Tail(m_tasks) ELSE m_tasks
Busy == m_thread = "run"

(* A push is a push of the abstract queue, also while the task at the head  *)
(* of the concrete one has been run and not been popped.                    *)
LEMMA PushRefines ==
  ASSUME IInv, NEW p \in Pushers, NEW j \in Jobs, Push(p, j)
  PROVE  Work!Push(j)
  <1>0. /\ m_tasks \in Seq(Jobs) /\ (m_thread = "pop" => m_tasks # <<>>)
        /\ result \in [Jobs -> {"none", "pending", "ready", "broken"}]
    BY DEF IInv, TypeOK
  <1>1. /\ m_tasks' = Append(m_tasks, j) /\ m_thread' = m_thread
        /\ result[j] = "none" /\ result' = [result EXCEPT ![j] = "pending"]
    BY DEF Push
  <1>2. j \notin Pushed /\ Pushed' = Pushed \cup {j}
    BY <1>0, <1>1 DEF Pushed
  <1>3. Queue' = Append(Queue, j)
    BY <1>0, <1>1, TailAppend DEF Queue
  <1>4. Busy' = Busy
    BY <1>1 DEF Busy
  <1>5. QED
    BY <1>2, <1>3, <1>4 DEF Work!Push, Pushed, Queue, Busy

(* Every other step starts, ends or drops a task of the abstract queue, or  *)
(* leaves it alone.                                                         *)
LEMMA StepRefines ==
  ASSUME IInv, [Next]_vars
  PROVE  [Work!Next]_(Work!vars)
  <1>0. /\ m_tasks \in Seq(Jobs)
        /\ m_thread \in {"run", "pop"} => m_tasks # <<>>
        /\ result \in [Jobs -> {"none", "pending", "ready", "broken"}]
    BY DEF IInv, TypeOK
  <1>1. CASE \E p \in Pushers, j \in Jobs : Push(p, j)
    BY <1>1, PushRefines DEF Work!Next
  <1>2. CASE \/ \E p \in Pushers : NotifyOne(p)
             \/ LoopTest \/ Wait \/ WakeSpuriously
             \/ RequestStop \/ NotifyAll \/ UNCHANGED vars
    <2>1. Pushed' = Pushed /\ Queue' = Queue /\ Busy' = Busy
      BY <1>2 DEF Pushed, Queue, Busy, NotifyOne, Notified, LoopTest, Wait,
                  WakeSpuriously, RequestStop, NotifyAll, vars
    <2>2. QED
      BY <2>1 DEF Work!vars, Pushed, Queue, Busy
  <1>3. CASE Lock \/ Woken
    <2>1. /\ Pushed' = Pushed /\ Queue' = Queue /\ ~ Busy
          /\ Busy' = Busy \/ (Busy' = TRUE /\ Queue # <<>>)
      BY <1>3 DEF Lock, Woken, Take, Pushed, Queue, Busy
    <2>2. QED
      BY <2>1 DEF Work!Next, Work!Start, Work!vars, Pushed, Queue, Busy
  <1>4. CASE Run
    <2>1. Head(m_tasks) \in Jobs /\ result[Head(m_tasks)] # "none"
      <3>1. m_tasks # <<>>
        BY <1>0, <1>4 DEF Run
      <3>2. 1 \in 1 .. Len(m_tasks) /\ m_tasks[1] = Head(m_tasks)
        BY <1>0, <3>1
      <3>3. QED
        BY <1>0, <3>1, <3>2 DEF IInv
    <2>2. Pushed' = Pushed
      BY <1>0, <1>4, <2>1 DEF Run, Pushed
    <2>3. Queue' = Tail(Queue) /\ Busy /\ ~ Busy'
      BY <1>4 DEF Run, Queue, Busy
    <2>4. QED
      BY <2>2, <2>3 DEF Work!Next, Work!Finish, Pushed, Queue, Busy
  <1>5. CASE Pop
    <2>1. Pushed' = Pushed /\ Queue' = Queue /\ Busy' = Busy
      BY <1>5 DEF Pop, Pushed, Queue, Busy
    <2>2. QED
      BY <2>1 DEF Work!vars, Pushed, Queue, Busy
  <1>6. CASE Join
    <2>1. Queue' = <<>> /\ ~ Busy /\ Busy' = Busy
      BY <1>6 DEF Join, Queue, Busy
    <2>2. Pushed' = Pushed
      BY <1>0, <1>6 DEF Join, Pushed
    <2>3. QED
      BY <2>1, <2>2 DEF Work!Next, Work!Drop, Pushed, Queue, Busy
  <1>7. QED
    BY <1>1, <1>2, <1>3, <1>4, <1>5, <1>6 DEF Next, Worker, Destructor

(* Tasks are carried out one at a time, each once and in the order of their *)
(* push_work calls, and dropped only by the destructor.                     *)
THEOREM Refinement == Spec => TasksInOrder
  <1>1. Init => Work!Init
    BY DEF Init, Work!Init
  <1>2. IInv /\ [Next]_vars => [Work!Next]_(Work!vars)
    BY StepRefines
  <1>3. QED
    BY <1>1, <1>2, Invariance, PTL DEF Spec, TasksInOrder, Work!Spec
(* The queue, the worker, the futures and the destructor keep to their      *)
(* states, and a task that is run or popped is in the queue.                *)
THEOREM TypeCorrect == Spec => []TypeOK
  <1>1. IInv => TypeOK
    BY DEF IInv
  <1>2. QED
    BY <1>1, Invariance, PTL

-----------------------------------------------------------------------------
(* In the life of a collector the Task takes no step but its own: what is   *)
(* proved about a Task holds for the one that is a member of a collector.   *)
LEMMA TeardownIsTask == TeardownSpec => Spec
  <1>1. TeardownInit => Init
    BY DEF TeardownInit
  <1>2. [TeardownNext]_allVars => [Next]_vars
    BY DEF TeardownNext, allVars, Collect, WorkerStep, DestroyMember,
           DestroyTask, Next, Destructor
  <1>3. QED
    BY <1>1, <1>2, PTL DEF TeardownSpec, Spec

(* Until the worker is joined no member declared before the lock is gone,   *)
(* and a worker that is joined is at its end.                               *)
BeforeTask == {"m_gen_policy", "m_test_mu", "m_tcount"}
LifeInv ==
  /\ owner # "gone" =>
       dead \in {{}, {"m_gen_policy"}, {"m_gen_policy", "m_test_mu"}, BeforeTask}
  /\ owner = "gone" => m_thread = "done"

(* The sizes of the sets of members destroyed before the worker is joined   *)
LEMMA Sizes ==
  /\ Cardinality({}) = 0
  /\ Cardinality({"m_gen_policy"}) = 1
  /\ Cardinality({"m_gen_policy", "m_test_mu"}) = 2
  /\ Cardinality(BeforeTask) = 3
  <1>1. Cardinality({}) = 0 /\ IsFiniteSet({})
    BY FS_EmptySet
  <1>2. /\ Cardinality({"m_gen_policy"}) = 1
        /\ IsFiniteSet({"m_gen_policy"})
    BY FS_Singleton
  <1>3. /\ Cardinality({"m_gen_policy"} \cup {"m_test_mu"}) = 2
        /\ IsFiniteSet({"m_gen_policy"} \cup {"m_test_mu"})
    BY <1>2, FS_AddElement
  <1>4. Cardinality({"m_gen_policy"} \cup {"m_test_mu"} \cup {"m_tcount"}) = 3
    BY <1>3, FS_AddElement
  <1>5. /\ {"m_gen_policy"} \cup {"m_test_mu"} = {"m_gen_policy", "m_test_mu"}
        /\ {"m_gen_policy"} \cup {"m_test_mu"} \cup {"m_tcount"} = BeforeTask
    BY DEF BeforeTask
  <1>6. QED
    BY <1>1, <1>2, <1>3, <1>4, <1>5

(* Which member is destroyed next                                           *)
LEMMA Order ==
  /\ dead = {} => Doomed = "m_gen_policy"
  /\ dead = {"m_gen_policy"} => Doomed = "m_test_mu"
  /\ dead = {"m_gen_policy", "m_test_mu"} => Doomed = "m_tcount"
  /\ dead = BeforeTask => Doomed = "m_collect_task"
  <1> DEFINE All == {Destruction[k] : k \in DOMAIN Destruction}
  <1>1. "m_spaces" \in All
    BY DEF Destruction
  <1>2. /\ Destruction[1] = "m_gen_policy" /\ Destruction[2] = "m_test_mu"
        /\ Destruction[3] = "m_tcount" /\ Destruction[4] = "m_collect_task"
    BY DEF Destruction
  <1>3. "m_spaces" \notin dead => Doomed = Destruction[Cardinality(dead) + 1]
    BY <1>1 DEF Doomed
  <1>4. QED
    BY <1>2, <1>3, Sizes DEF BeforeTask

(* Every step preserves the invariant.                                      *)
LEMMA StepLife == TypeOK /\ LifeInv /\ [TeardownNext]_allVars => LifeInv'
  <1> SUFFICES ASSUME TypeOK, LifeInv, [TeardownNext]_allVars PROVE LifeInv'
    OBVIOUS
  <1>1. CASE \E p \in Pushers : Collect(p)
    BY <1>1 DEF Collect, NotifyOne, Notified, Push, LifeInv
  <1>2. CASE WorkerStep \/ (WakeSpuriously /\ UNCHANGED dead)
    BY <1>2 DEF WorkerStep, Worker, LoopTest, Lock, Take, Wait, Woken, Run,
                Pop, WakeSpuriously, LifeInv
  <1>3. CASE DestroyMember
    <2>1. UNCHANGED <<owner, m_thread>> /\ dead' = dead \cup {Doomed}
      BY <1>3 DEF DestroyMember, vars
    <2>2. dead # BeforeTask
      BY <1>3, Order DEF DestroyMember
    <2>3. QED
      BY <2>1, <2>2, Order DEF LifeInv, BeforeTask
  <1>4. CASE DestroyTask
    BY <1>4 DEF DestroyTask, RequestStop, NotifyAll, Notified, Join, LifeInv
  <1>5. CASE UNCHANGED allVars
    BY <1>5 DEF allVars, vars, LifeInv
  <1>6. QED
    BY <1>1, <1>2, <1>3, <1>4, <1>5 DEF TeardownNext

(* A collection that runs while the collector is destroyed has the spaces,  *)
(* their indices, the metadata and the mutex until it is over, whenever the *)
(* destructor begins and whatever is queued; of what it uses only           *)
(* m_gen_policy can be gone.                                                *)
THEOREM MembersOutlive == TeardownSpec => []MembersAlive
  <1>1. TeardownInit => LifeInv
    BY DEF TeardownInit, Init, LifeInv
  <1>2. LifeInv => MembersAlive
    BY DEF LifeInv, MembersAlive, CollectionUses, BeforeTask
  <1>3. TeardownSpec => []TypeOK
    BY TeardownIsTask, TypeCorrect, PTL
  <1>4. QED
    BY <1>1, <1>2, <1>3, StepLife, PTL DEF TeardownSpec
=============================================================================
