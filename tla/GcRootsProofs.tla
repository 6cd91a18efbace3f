--------------------------- MODULE GcRootsProofs ---------------------------
(***************************************************************************)
(* Proofs about GCRoots for any threads, stacks, frames and red zone.      *)
(***************************************************************************)
EXTENDS GcRoots, TLAPS

CallType == [pc : {"run", "update", "insert", "lock", "merge"}, base : Int,
             sp : Int, get : BOOLEAN]
ScanType == [pc : {"idle", "scan", "fault"}, by : Threads \cup {NoStack},
             todo : SUBSET Threads, a : Int, to : Int]

TypeInv ==
  /\ stack \in [Threads -> Stacks \cup {NoStack}]
  /\ depth \in [Threads -> Nat]
  /\ mapped \subseteq Stacks
  /\ fat \subseteq Int
  /\ DOMAIN m_stack_ranges \subseteq Threads
  /\ \A t \in DOMAIN m_stack_ranges : m_stack_ranges[t] \in Int \X Int
  /\ call \in [Threads -> CallType]
  /\ w \in ScanType
  /\ announced \in [Threads -> SUBSET Nat]

(* A range that is being announced ends below the frame that announces it,  *)
(* which stays the current one; an entry is inserted once.                  *)
CallInv ==
  \A t \in Threads :
    /\ call[t].pc \in {"update", "insert"} =>
         Running(t) /\ call[t].sp = Sp(stack[t], depth[t])
    /\ call[t].pc = "insert" => t \notin DOMAIN m_stack_ranges

Covers(r, l) == r[2] <= l /\ l + 2 <= r[1]

(* The entry of a thread covers the frames it has announced.                *)
CoverInv ==
  \A t \in Threads : \A d \in announced[t] :
    /\ Running(t) /\ 1 <= d /\ d <= depth[t]
    /\ t \in DOMAIN m_stack_ranges
    /\ Covers(m_stack_ranges[t], Local(stack[t], d))

(* A variable the scan must find has been found, lies ahead of it in the    *)
(* stack it is in, or in the range of a thread still to be scanned.         *)
Ahead(l) ==
  \/ l \in found
  \/ w.a <= l /\ l + 2 <= w.to
  \/ \E t \in w.todo :
       t \in DOMAIN m_stack_ranges /\ Covers(m_stack_ranges[t], l)

ScanInv ==
  /\ must \subseteq fat
  /\ w.pc = "scan" => \A l \in must : Ahead(l)

(* The threads still to be scanned have an entry.                           *)
TodoInv == w.pc = "scan" => w.todo \subseteq DOMAIN m_stack_ranges

IInv == TypeInv /\ CallInv /\ CoverInv /\ TodoInv /\ ScanInv

(* While no thread has ended, every range lies in a stack that is mapped,   *)
(* with the red zone below it.                                              *)
Within(a, to) == \E s \in mapped : a \in Words(s) /\ to <= Top(s)

RangeInv ==
  ~ ended =>
    /\ \A t \in Threads :
         Running(t) => stack[t] \in mapped /\ depth[t] <= MaxDepth[t]
                       /\ depth[t] >= 1
    /\ \A t \in DOMAIN m_stack_ranges :
         /\ Running(t)
         /\ ScanFrom(m_stack_ranges[t]) \in Words(stack[t])
         /\ m_stack_ranges[t][1] <= Top(stack[t])
    /\ \A t \in Threads :
         call[t].pc \in {"update", "insert"} =>
           call[t].base <= Top(stack[t])
    /\ w.pc = "scan" /\ InRange => Within(w.a, w.to)

-----------------------------------------------------------------------------
(* Places of stacks and the top of each are numbers.                        *)
LEMMA Numbers ==
  /\ NoStack \notin Stacks
  /\ \A s \in Stacks : Top(s) \in Int
  BY StackAssumption DEF Top, NoStack

(* So are the addresses of a frame.                                         *)
LEMMA Frames ==
  ASSUME NEW t \in Threads, Running(t), TypeInv, NEW d \in Nat
  PROVE  /\ stack[t] \in Stacks /\ depth[t] \in Nat
         /\ Rbp(stack[t], d) \in Int /\ Local(stack[t], d) \in Int
         /\ Sp(stack[t], d) \in Int
<1>1. stack[t] \in Stacks /\ depth[t] \in Nat
  BY DEF Running, TypeInv
<1>2. Top(stack[t]) \in Int
  BY <1>1, Numbers
<1>q. QED
  BY <1>1, <1>2 DEF Rbp, Local, Sp

(* The first state satisfies the invariant.                                 *)
LEMMA InitInv == Init => IInv
  BY DEF Init, IInv, TypeInv, CallInv, CoverInv, TodoInv, ScanInv, NoCall,
         NoScan, CallType, ScanType

(* Every step keeps the variables in their sets.                            *)
LEMMA TypeStep == IInv /\ [Next]_vars => TypeInv'
<1> SUFFICES ASSUME IInv, [Next]_vars PROVE TypeInv'
  OBVIOUS
<1>1. ASSUME NEW t \in Threads, NEW s \in Stacks, StartThread(t, s)
      PROVE  TypeInv'
  BY <1>1 DEF StartThread, IInv, TypeInv, CallType, ScanType, runtime
<1>2. ASSUME NEW t \in Threads, NEW unmap \in BOOLEAN, EndThread(t, unmap)
      PROVE  TypeInv'
  BY <1>2, Numbers
     DEF EndThread, IInv, TypeInv, CallType, ScanType, runtime, vars
<1>3. ASSUME NEW t \in Threads, PushFrame(t)
      PROVE  TypeInv'
  BY <1>3, Numbers
     DEF PushFrame, IInv, TypeInv, CallType, ScanType, runtime, vars
<1>4. ASSUME NEW t \in Threads, PopFrame(t)
      PROVE  TypeInv'
  BY <1>4, Numbers
     DEF PopFrame, IInv, TypeInv, CallType, ScanType, runtime, vars
<1>5. ASSUME NEW t \in Threads, NEW is \in BOOLEAN, SetLocal(t, is)
      PROVE  TypeInv'
  <2>1. Running(t) /\ TypeInv
    BY <1>5 DEF SetLocal, IInv
  <2>2. depth[t] \in Nat
    BY <2>1, Frames DEF TypeInv
  <2>3. Local(stack[t], depth[t]) \in Int
    BY <2>1, <2>2, Frames
  <2>q. QED
    BY <1>5, <2>1, <2>3 DEF SetLocal, TypeInv, runtime
<1>6. ASSUME NEW t \in Threads, Enters(t)
      PROVE  TypeInv'
  <2>0. depth[t] \in Nat /\ (depth[t] > 1 => depth[t] - 1 \in Nat)
    BY DEF IInv, TypeInv
  <2>1. PICK d \in Nat, get \in BOOLEAN : Enter(t, d, get)
    BY <1>6, <2>0 DEF Enters
  <2>2. Running(t) /\ TypeInv /\ depth[t] \in Nat
    BY <2>1 DEF Enter, IInv, TypeInv
  <2>3. Rbp(stack[t], d) \in Int /\ Sp(stack[t], depth[t]) \in Int
    BY <2>2, Frames
  <2>q. QED
    BY <2>1, <2>2, <2>3 DEF Enter, TypeInv, CallType, runtime
<1>7. ASSUME NEW t \in Threads, Update(t)
      PROVE  TypeInv'
  BY <1>7
     DEF Update, Left, Widened, NoCall, IInv, TypeInv, CallType, ScanType,
         runtime
<1>8. ASSUME NEW t \in Threads, UpdateNew(t)
      PROVE  TypeInv'
  BY <1>8, Numbers
     DEF UpdateNew, IInv, TypeInv, CallType, ScanType, runtime, vars
<1>9. ASSUME NEW t \in Threads, Insert(t)
      PROVE  TypeInv'
  BY <1>9 DEF Insert, Left, NoCall, IInv, TypeInv, CallType, ScanType, runtime
<1>10. ASSUME NEW t \in Threads, LockForScan(t)
      PROVE  TypeInv'
  <2>1. w' = [pc |-> "scan", by |-> t, todo |-> DOMAIN m_stack_ranges,
              a |-> 0, to |-> 0]
    BY <1>10 DEF LockForScan, NoScan
  <2>2. w' \in ScanType
    BY <2>1 DEF IInv, TypeInv, ScanType
  <2>q. QED
    BY <1>10, <2>2 DEF LockForScan, IInv, TypeInv, runtime
<1>11. ASSUME NEW t \in Threads, ScanThread(t)
      PROVE  TypeInv'
  <2>1. t \in DOMAIN m_stack_ranges
    BY <1>11 DEF ScanThread, IInv, TodoInv
  <2>2. m_stack_ranges[t] \in Int \X Int
    BY <2>1 DEF IInv, TypeInv
  <2>3. ScanFrom(m_stack_ranges[t]) \in Int /\ m_stack_ranges[t][1] \in Int
    BY <2>2, StackAssumption DEF ScanFrom
  <2>4. w' \in ScanType
    BY <1>11, <2>3 DEF ScanThread, IInv, TypeInv, ScanType
  <2>q. QED
    BY <1>11, <2>4 DEF ScanThread, IInv, TypeInv, runtime
<1>12. ASSUME NEW t \in Threads, Merge(t)
      PROVE  TypeInv'
  <2>1. NoCall \in CallType
    BY DEF NoCall, CallType
  <2>q. QED
    BY <1>12, <2>1 DEF Merge, IInv, TypeInv, runtime
<1>13. ASSUME ScanWord PROVE TypeInv'
  BY <1>13, Numbers
     DEF ScanWord, IInv, TypeInv, CallType, ScanType, runtime, vars
<1>14. ASSUME UnlockAfterScan PROVE TypeInv'
  <2>1. w' \in ScanType
    BY <1>14 DEF UnlockAfterScan, NoScan, ScanType
  <2>2. \A c \in CallType : [c EXCEPT !.pc = "merge"] \in CallType
    BY DEF CallType
  <2>3. call' \in [Threads -> CallType]
    BY <1>14, <2>2 DEF UnlockAfterScan, IInv, TypeInv
  <2>q. QED
    BY <1>14, <2>1, <2>3 DEF UnlockAfterScan, IInv, TypeInv, runtime
<1>15. CASE UNCHANGED vars
  BY <1>15 DEF IInv, TypeInv, CallType, ScanType, vars, runtime
<1>q. QED
  BY <1>1, <1>2, <1>3, <1>4, <1>5, <1>6, <1>7, <1>8, <1>9, <1>10, <1>11,
     <1>12, <1>13, <1>14, <1>15
     DEF Next, Program, Locks, Scan

(* A thread neither ends nor moves while it announces a range.              *)
LEMMA CallStep == IInv /\ [Next]_vars => CallInv'
<1> SUFFICES ASSUME IInv, [Next]_vars PROVE CallInv'
  OBVIOUS
<1>1. ASSUME NEW t \in Threads, NEW s \in Stacks, StartThread(t, s)
      PROVE  CallInv'
  BY <1>1
     DEF StartThread, IInv, TypeInv, CallInv, CallType, runtime, Running,
         NoCall
<1>2. ASSUME NEW t \in Threads, NEW unmap \in BOOLEAN, EndThread(t, unmap)
      PROVE  CallInv'
  BY <1>2
     DEF EndThread, IInv, TypeInv, CallInv, CallType, runtime, Running, NoCall
<1>3. ASSUME NEW t \in Threads, PushFrame(t)
      PROVE  CallInv'
  BY <1>3
     DEF PushFrame, IInv, TypeInv, CallInv, CallType, runtime, Running, NoCall
<1>4. ASSUME NEW t \in Threads, PopFrame(t)
      PROVE  CallInv'
  BY <1>4
     DEF PopFrame, IInv, TypeInv, CallInv, CallType, runtime, Running, NoCall
<1>5. ASSUME NEW t \in Threads, NEW is \in BOOLEAN, SetLocal(t, is)
      PROVE  CallInv'
  BY <1>5
     DEF SetLocal, IInv, TypeInv, CallInv, CallType, runtime, Running, NoCall
<1>6. ASSUME NEW t \in Threads, Enters(t)
      PROVE  CallInv'
  BY <1>6
     DEF Enters, Enter, IInv, TypeInv, CallInv, CallType, runtime, Running,
         NoCall
<1>7. ASSUME NEW t \in Threads, Update(t)
      PROVE  CallInv'
  BY <1>7
     DEF Update, Left, IInv, TypeInv, CallInv, CallType, runtime, Running,
         NoCall
<1>8. ASSUME NEW t \in Threads, UpdateNew(t)
      PROVE  CallInv'
  BY <1>8
     DEF UpdateNew, IInv, TypeInv, CallInv, CallType, runtime, Running, NoCall
<1>9. ASSUME NEW t \in Threads, Insert(t)
      PROVE  CallInv'
  BY <1>9
     DEF Insert, Left, IInv, TypeInv, CallInv, CallType, runtime, Running,
         NoCall
<1>10. ASSUME NEW t \in Threads, LockForScan(t)
      PROVE  CallInv'
  BY <1>10
     DEF LockForScan, IInv, TypeInv, CallInv, CallType, runtime, Running,
         NoCall
<1>11. ASSUME NEW t \in Threads, ScanThread(t)
      PROVE  CallInv'
  BY <1>11
     DEF ScanThread, IInv, TypeInv, CallInv, CallType, runtime, Running, NoCall
<1>12. ASSUME NEW t \in Threads, Merge(t)
      PROVE  CallInv'
  BY <1>12
     DEF Merge, IInv, TypeInv, CallInv, CallType, runtime, Running, NoCall
<1>13. ASSUME ScanWord PROVE CallInv'
  BY <1>13
     DEF ScanWord, IInv, TypeInv, CallInv, CallType, runtime, Running, NoCall
<1>14. ASSUME UnlockAfterScan PROVE CallInv'
  BY <1>14
     DEF UnlockAfterScan, IInv, TypeInv, CallInv, CallType, runtime, Running,
         NoCall
<1>15. CASE UNCHANGED vars
  BY <1>15 DEF IInv, TypeInv, CallInv, CallType, vars, runtime, Running
<1>q. QED
  BY <1>1, <1>2, <1>3, <1>4, <1>5, <1>6, <1>7, <1>8, <1>9, <1>10, <1>11,
     <1>12, <1>13, <1>14, <1>15
     DEF Next, Program, Locks, Scan

(* The stack pointer is below the variables of all frames.                  *)
LEMMA Below ==
  ASSUME NEW t \in Threads, Running(t), TypeInv, NEW d \in Nat, d <= depth[t]
  PROVE  /\ Sp(stack[t], depth[t]) <= Local(stack[t], d)
         /\ Local(stack[t], d) + 2 = Rbp(stack[t], d)
<1>1. stack[t] \in Stacks /\ depth[t] \in Nat
  BY Frames
<1>2. Top(stack[t]) \in Int
  BY <1>1, Numbers
<1>q. QED
  BY <1>1, <1>2 DEF Rbp, Local, Sp

(* An entry goes on covering the frames its thread has announced.           *)
LEMMA CoverStep == IInv /\ [Next]_vars => CoverInv'
<1> SUFFICES ASSUME IInv, [Next]_vars PROVE CoverInv'
  OBVIOUS
<1>1. ASSUME NEW t \in Threads, NEW s \in Stacks, StartThread(t, s)
      PROVE  CoverInv'
  BY <1>1
     DEF StartThread, IInv, TypeInv, CoverInv, runtime, Running, Local, Rbp,
         Top
<1>2. ASSUME NEW t \in Threads, NEW unmap \in BOOLEAN, EndThread(t, unmap)
      PROVE  CoverInv'
  BY <1>2
     DEF EndThread, IInv, TypeInv, CoverInv, runtime, Running, Local, Rbp, Top
<1>3. ASSUME NEW t \in Threads, PushFrame(t)
      PROVE  CoverInv'
  BY <1>3
     DEF PushFrame, IInv, TypeInv, CoverInv, runtime, Running, Local, Rbp, Top
<1>4. ASSUME NEW t \in Threads, PopFrame(t)
      PROVE  CoverInv'
  <2>1. /\ depth'[t] = depth[t] - 1 /\ depth[t] \in Nat
        /\ announced'[t] = announced[t] \ {depth[t]}
        /\ \A u \in Threads \ {t} : /\ depth'[u] = depth[u]
                                   /\ announced'[u] = announced[u]
        /\ UNCHANGED <<stack, m_stack_ranges>>
    BY <1>4 DEF PopFrame, IInv, TypeInv
  <2>2. \A d \in announced[t] : d \in Nat
    BY DEF IInv, TypeInv
  <2>q. QED
    BY <2>1, <2>2 DEF IInv, CoverInv, Running, Local, Rbp, Top
<1>5. ASSUME NEW t \in Threads, NEW is \in BOOLEAN, SetLocal(t, is)
      PROVE  CoverInv'
  BY <1>5
     DEF SetLocal, IInv, TypeInv, CoverInv, runtime, Running, Local, Rbp, Top
<1>6. ASSUME NEW t \in Threads, Enters(t)
      PROVE  CoverInv'
  BY <1>6
     DEF Enters, Enter, IInv, TypeInv, CoverInv, runtime, Running, Local, Rbp,
         Top
<1>7. ASSUME NEW t \in Threads, Update(t)
      PROVE  CoverInv'
  <2>1. Running(t) /\ TypeInv /\ call[t] \in CallType
    BY <1>7 DEF Update, IInv, TypeInv, CallInv
  <2>2. /\ stack[t] \in Stacks /\ depth[t] \in Nat
        /\ call[t].sp = Sp(stack[t], depth[t])
        /\ call[t].base \in Int /\ call[t].sp \in Int
    BY <1>7, <2>1, Frames DEF Update, IInv, CallInv, CallType
  <2>3. SUFFICES ASSUME NEW u \in Threads, NEW d \in announced'[u]
                 PROVE  /\ Running(u) /\ 1 <= d /\ d <= depth[u]
                        /\ u \in DOMAIN m_stack_ranges'
                        /\ Covers(m_stack_ranges'[u], Local(stack[u], d))
    BY <1>7 DEF Update, Left, CoverInv, runtime, Running, Local, Rbp, Top
  <2>4. CASE u /= t
    BY <1>7, <2>3, <2>4 DEF Update, Left, IInv, TypeInv, CoverInv
  <2>5. CASE u = t
    <3>1. /\ t \in DOMAIN m_stack_ranges'
          /\ m_stack_ranges'[t] = Widened(m_stack_ranges[t], call[t])
      BY <1>7 DEF Update, IInv, CallInv
    <3>2. announced'[t] = announced[t] \cup
            {x \in 1 .. depth[t] : Rbp(stack[t], x) <= call[t].base}
      BY <1>7 DEF Update, Left, IInv, TypeInv
    <3>3. d \in Nat /\ 1 <= d /\ d <= depth[t]
      BY <2>2, <2>3, <2>5, <3>2 DEF IInv, TypeInv, CoverInv
    <3>4. /\ call[t].sp <= Local(stack[t], d)
          /\ Local(stack[t], d) + 2 = Rbp(stack[t], d)
      BY <2>1, <2>2, <3>3, Below
    <3>5. Rbp(stack[t], d) \in Int /\ Local(stack[t], d) \in Int
      BY <2>1, <3>3, Frames
    <3>6. /\ m_stack_ranges[t][1] \in Int
          /\ \/ Rbp(stack[t], d) <= call[t].base
             \/ Rbp(stack[t], d) <= m_stack_ranges[t][1]
      <4>1. m_stack_ranges[t] \in Int \X Int
        BY <1>7 DEF Update, IInv, TypeInv
      <4>2. CASE d \in announced[t]
        BY <3>4, <4>1, <4>2 DEF IInv, CoverInv, Covers
      <4>3. CASE d \notin announced[t]
        BY <2>3, <2>5, <3>2, <4>1, <4>3
      <4>q. QED
        BY <4>2, <4>3
    <3>q. QED
      BY <2>1, <2>2, <2>5, <3>1, <3>3, <3>4, <3>5, <3>6 DEF Covers, Widened
  <2>q. QED
    BY <2>4, <2>5
<1>8. ASSUME NEW t \in Threads, UpdateNew(t)
      PROVE  CoverInv'
  BY <1>8
     DEF UpdateNew, IInv, TypeInv, CoverInv, runtime, Running, Local, Rbp, Top
<1>9. ASSUME NEW t \in Threads, Insert(t)
      PROVE  CoverInv'
  <2>1. Running(t) /\ TypeInv /\ call[t] \in CallType
    BY <1>9 DEF Insert, IInv, TypeInv, CallInv
  <2>2. /\ stack[t] \in Stacks /\ depth[t] \in Nat
        /\ call[t].sp = Sp(stack[t], depth[t])
        /\ call[t].base \in Int /\ call[t].sp \in Int
    BY <1>9, <2>1, Frames DEF Insert, IInv, CallInv, CallType
  <2>3. SUFFICES ASSUME NEW u \in Threads, NEW d \in announced'[u]
                 PROVE  /\ Running(u) /\ 1 <= d /\ d <= depth[u]
                        /\ u \in DOMAIN m_stack_ranges'
                        /\ Covers(m_stack_ranges'[u], Local(stack[u], d))
    BY <1>9 DEF Insert, Left, CoverInv, runtime, Running, Local, Rbp, Top
  <2>4. CASE u /= t
    BY <1>9, <2>3, <2>4 DEF Insert, Left, IInv, TypeInv, CoverInv
  <2>5. CASE u = t
    <3>1. /\ t \in DOMAIN m_stack_ranges'
          /\ m_stack_ranges'[t] = <<call[t].base, call[t].sp>>
      BY <1>9 DEF Insert, IInv, CallInv
    <3>2. announced'[t] = announced[t] \cup
            {x \in 1 .. depth[t] : Rbp(stack[t], x) <= call[t].base}
      BY <1>9 DEF Insert, Left, IInv, TypeInv
    <3>3. d \in Nat /\ 1 <= d /\ d <= depth[t]
      BY <2>2, <2>3, <2>5, <3>2 DEF IInv, TypeInv, CoverInv
    <3>4. /\ call[t].sp <= Local(stack[t], d)
          /\ Local(stack[t], d) + 2 = Rbp(stack[t], d)
      BY <2>1, <2>2, <3>3, Below
    <3>5. Rbp(stack[t], d) \in Int /\ Local(stack[t], d) \in Int
      BY <2>1, <3>3, Frames
    <3>6. Rbp(stack[t], d) <= call[t].base
      BY <1>9, <2>3, <2>5, <3>2 DEF Insert, IInv, CallInv, CoverInv
    <3>q. QED
      BY <2>1, <2>2, <2>5, <3>1, <3>3, <3>4, <3>5, <3>6 DEF Covers
  <2>q. QED
    BY <2>4, <2>5
<1>10. ASSUME NEW t \in Threads, LockForScan(t)
      PROVE  CoverInv'
  BY <1>10
     DEF LockForScan, IInv, TypeInv, CoverInv, runtime, Running, Local, Rbp,
         Top
<1>11. ASSUME NEW t \in Threads, ScanThread(t)
      PROVE  CoverInv'
  BY <1>11
     DEF ScanThread, IInv, TypeInv, CoverInv, runtime, Running, Local, Rbp, Top
<1>12. ASSUME NEW t \in Threads, Merge(t)
      PROVE  CoverInv'
  BY <1>12
     DEF Merge, IInv, TypeInv, CoverInv, runtime, Running, Local, Rbp, Top
<1>13. ASSUME ScanWord PROVE CoverInv'
  BY <1>13
     DEF ScanWord, IInv, TypeInv, CoverInv, runtime, Running, Local, Rbp, Top
<1>14. ASSUME UnlockAfterScan PROVE CoverInv'
  BY <1>14
     DEF UnlockAfterScan, IInv, TypeInv, CoverInv, runtime, Running, Local,
         Rbp, Top
<1>15. CASE UNCHANGED vars
  BY <1>15 DEF IInv, TypeInv, CoverInv, runtime, Running, vars, Local, Rbp, Top
<1>q. QED
  BY <1>1, <1>2, <1>3, <1>4, <1>5, <1>6, <1>7, <1>8, <1>9, <1>10, <1>11,
     <1>12, <1>13, <1>14, <1>15
     DEF Next, Program, Locks, Scan

(* No thread loses its entry.                                               *)
LEMMA TodoStep == IInv /\ [Next]_vars => TodoInv'
<1> SUFFICES ASSUME IInv, [Next]_vars PROVE TodoInv'
  OBVIOUS
<1>1. ASSUME NEW t \in Threads, NEW s \in Stacks, StartThread(t, s)
      PROVE  TodoInv'
  BY <1>1 DEF StartThread, IInv, TodoInv, runtime
<1>2. ASSUME NEW t \in Threads, NEW unmap \in BOOLEAN, EndThread(t, unmap)
      PROVE  TodoInv'
  BY <1>2 DEF EndThread, IInv, TodoInv, runtime
<1>3. ASSUME NEW t \in Threads, PushFrame(t)
      PROVE  TodoInv'
  BY <1>3 DEF PushFrame, IInv, TodoInv, runtime
<1>4. ASSUME NEW t \in Threads, PopFrame(t)
      PROVE  TodoInv'
  BY <1>4 DEF PopFrame, IInv, TodoInv, runtime
<1>5. ASSUME NEW t \in Threads, NEW is \in BOOLEAN, SetLocal(t, is)
      PROVE  TodoInv'
  BY <1>5 DEF SetLocal, IInv, TodoInv, runtime
<1>6. ASSUME NEW t \in Threads, Enters(t)
      PROVE  TodoInv'
  BY <1>6 DEF Enters, Enter, IInv, TodoInv, runtime
<1>7. ASSUME NEW t \in Threads, Update(t)
      PROVE  TodoInv'
  BY <1>7 DEF Update, Left, IInv, TodoInv, runtime
<1>8. ASSUME NEW t \in Threads, UpdateNew(t)
      PROVE  TodoInv'
  BY <1>8 DEF UpdateNew, IInv, TodoInv, runtime
<1>9. ASSUME NEW t \in Threads, Insert(t)
      PROVE  TodoInv'
  BY <1>9 DEF Insert, Left, IInv, TodoInv, runtime
<1>10. ASSUME NEW t \in Threads, LockForScan(t)
      PROVE  TodoInv'
  BY <1>10 DEF LockForScan, NoScan, IInv, TodoInv, runtime
<1>11. ASSUME NEW t \in Threads, ScanThread(t)
      PROVE  TodoInv'
  BY <1>11 DEF ScanThread, IInv, TypeInv, ScanType, TodoInv, runtime
<1>12. ASSUME NEW t \in Threads, Merge(t)
      PROVE  TodoInv'
  BY <1>12 DEF Merge, IInv, TodoInv, runtime
<1>13. ASSUME ScanWord PROVE TodoInv'
  BY <1>13 DEF ScanWord, IInv, TypeInv, ScanType, TodoInv, runtime
<1>14. ASSUME UnlockAfterScan PROVE TodoInv'
  BY <1>14 DEF UnlockAfterScan, NoScan, IInv, TodoInv, runtime
<1>15. CASE UNCHANGED vars
  BY <1>15 DEF IInv, TodoInv, vars
<1>q. QED
  BY <1>1, <1>2, <1>3, <1>4, <1>5, <1>6, <1>7, <1>8, <1>9, <1>10, <1>11,
     <1>12, <1>13, <1>14, <1>15
     DEF Next, Program, Locks, Scan

(* The scan loses no variable it must find.                                 *)
LEMMA ScanStep == IInv /\ [Next]_vars => ScanInv'
<1> SUFFICES ASSUME IInv, [Next]_vars PROVE ScanInv'
  OBVIOUS
<1>1. ASSUME NEW t \in Threads, NEW s \in Stacks, StartThread(t, s)
      PROVE  ScanInv'
  BY <1>1 DEF StartThread, IInv, ScanInv, Ahead, Covers, runtime
<1>2. ASSUME NEW t \in Threads, NEW unmap \in BOOLEAN, EndThread(t, unmap)
      PROVE  ScanInv'
  BY <1>2 DEF EndThread, IInv, ScanInv, Ahead, Covers, runtime
<1>3. ASSUME NEW t \in Threads, PushFrame(t)
      PROVE  ScanInv'
  BY <1>3 DEF PushFrame, IInv, ScanInv, Ahead, Covers, runtime
<1>4. ASSUME NEW t \in Threads, PopFrame(t)
      PROVE  ScanInv'
  BY <1>4 DEF PopFrame, IInv, ScanInv, Ahead, Covers, runtime
<1>5. ASSUME NEW t \in Threads, NEW is \in BOOLEAN, SetLocal(t, is)
      PROVE  ScanInv'
  BY <1>5 DEF SetLocal, IInv, ScanInv, Ahead, Covers, runtime
<1>6. ASSUME NEW t \in Threads, Enters(t)
      PROVE  ScanInv'
  BY <1>6 DEF Enters, Enter, IInv, ScanInv, Ahead, Covers, runtime
<1>7. ASSUME NEW t \in Threads, Update(t)
      PROVE  ScanInv'
  BY <1>7 DEF Update, Left, Unlocked, IInv, ScanInv, Ahead, Covers, runtime
<1>8. ASSUME NEW t \in Threads, UpdateNew(t)
      PROVE  ScanInv'
  BY <1>8 DEF UpdateNew, IInv, ScanInv, Ahead, Covers, runtime
<1>9. ASSUME NEW t \in Threads, Insert(t)
      PROVE  ScanInv'
  BY <1>9 DEF Insert, Left, Unlocked, IInv, ScanInv, Ahead, Covers, runtime
<1>10. ASSUME NEW t \in Threads, LockForScan(t)
      PROVE  ScanInv'
  <2>1. w'.todo = DOMAIN m_stack_ranges /\ must' \subseteq fat
    BY <1>10 DEF LockForScan, NoScan
  <2>2. ASSUME NEW l \in must'
        PROVE  \E u \in DOMAIN m_stack_ranges : Covers(m_stack_ranges[u], l)
    BY <1>10 DEF LockForScan, IInv, CoverInv
  <2>q. QED
    BY <1>10, <2>1, <2>2 DEF LockForScan, ScanInv, Ahead
<1>11. ASSUME NEW t \in Threads, ScanThread(t)
      PROVE  ScanInv'
  <2>1. /\ m_stack_ranges[t] \in Int \X Int /\ w.a \in Int /\ w.to \in Int
        /\ must \subseteq Int /\ RedZone \in Nat
    BY <1>11, StackAssumption
       DEF ScanThread, IInv, TypeInv, TodoInv, ScanInv, ScanType
  <2>2. /\ w'.pc = "scan" /\ w'.todo = w.todo \ {t}
        /\ w'.a = m_stack_ranges[t][2] - RedZone
        /\ w'.to = m_stack_ranges[t][1]
        /\ UNCHANGED <<must, found, fat, m_stack_ranges>>
    BY <1>11 DEF ScanThread, ScanFrom, runtime, IInv, TypeInv, ScanType
  <2>3. ASSUME NEW l \in must PROVE Ahead(l)'
    <3>1. Ahead(l) /\ ~ (w.a <= l /\ l + 2 <= w.to)
      BY <1>11, <2>1 DEF ScanThread, IInv, ScanInv, InRange
    <3>2. CASE Covers(m_stack_ranges[t], l)
      BY <2>1, <2>2, <3>2 DEF Covers, Ahead
    <3>3. CASE ~ Covers(m_stack_ranges[t], l)
      BY <2>2, <3>1, <3>3 DEF Ahead
    <3>q. QED
      BY <3>2, <3>3
  <2>q. QED
    BY <2>2, <2>3 DEF IInv, ScanInv
<1>12. ASSUME NEW t \in Threads, Merge(t)
      PROVE  ScanInv'
  BY <1>12 DEF Merge, IInv, ScanInv, Ahead, Covers, runtime
<1>13. ASSUME ScanWord PROVE ScanInv'
  <2>1. w.a \in Int /\ w.to \in Int /\ must \subseteq Int
    BY DEF IInv, TypeInv, ScanInv, ScanType
  <2>2. CASE Mapped(w.a) /\ Mapped(w.a + 1)
    <3>1. /\ w'.todo = w.todo /\ w'.a = w.a + 1 /\ w'.to = w.to
          /\ found' = IF w.a \in fat THEN found \cup {w.a} ELSE found
          /\ UNCHANGED <<must, fat, m_stack_ranges>>
      BY <1>13, <2>2 DEF ScanWord, runtime, IInv, TypeInv, ScanType
    <3>2. ASSUME NEW l \in must PROVE Ahead(l)'
      <4>1. Ahead(l) /\ l \in fat
        BY <1>13 DEF ScanWord, IInv, ScanInv
      <4>2. CASE w.a <= l /\ l + 2 <= w.to
        BY <2>1, <3>1, <4>1, <4>2 DEF Ahead
      <4>3. CASE ~ (w.a <= l /\ l + 2 <= w.to)
        BY <3>1, <4>1, <4>3 DEF Ahead
      <4>q. QED
        BY <4>2, <4>3
    <3>q. QED
      BY <3>1, <3>2 DEF IInv, ScanInv
  <2>3. CASE ~ (Mapped(w.a) /\ Mapped(w.a + 1))
    BY <1>13, <2>3 DEF ScanWord, runtime, IInv, TypeInv, ScanType, ScanInv
  <2>q. QED
    BY <2>2, <2>3
<1>14. ASSUME UnlockAfterScan PROVE ScanInv'
  BY <1>14 DEF UnlockAfterScan, NoScan, IInv, ScanInv, Ahead, Covers, runtime
<1>15. CASE UNCHANGED vars
  BY <1>15 DEF IInv, ScanInv, Ahead, Covers, vars, runtime
<1>q. QED
  BY <1>1, <1>2, <1>3, <1>4, <1>5, <1>6, <1>7, <1>8, <1>9, <1>10, <1>11,
     <1>12, <1>13, <1>14, <1>15
     DEF Next, Program, Locks, Scan

(* The three parts together.                                                *)
LEMMA Inductive == IInv /\ [Next]_vars => IInv'
  BY TypeStep, CallStep, CoverStep, TodoStep, ScanStep DEF IInv

(* As long as no thread ends, ranges stay inside mapped stacks.             *)
LEMMA RangeStep == IInv /\ RangeInv /\ [Next]_vars => RangeInv'
<1> SUFFICES ASSUME IInv /\ RangeInv, [Next]_vars PROVE RangeInv'
  OBVIOUS
<1>1. ASSUME NEW t \in Threads, NEW s \in Stacks, StartThread(t, s)
      PROVE  RangeInv'
  <2>0. SUFFICES ASSUME ~ ended PROVE RangeInv'
    BY <1>1 DEF StartThread, RangeInv
  <2>1. /\ \A u \in Threads :
             u /= t => stack'[u] = stack[u] /\ depth'[u] = depth[u]
        /\ stack'[t] = s /\ depth'[t] = 1 /\ mapped' = mapped \cup {s}
        /\ ~ Running(t) /\ UNCHANGED <<m_stack_ranges, call, w>>
    BY <1>1 DEF StartThread, IInv, TypeInv
  <2>2. MaxDepth[t] >= 1
    BY StackAssumption
  <2>3. t \notin DOMAIN m_stack_ranges
    BY <2>0, <2>1 DEF RangeInv
  <2>4. call[t].pc \notin {"update", "insert"}
    BY <2>1 DEF IInv, CallInv
  <2>5. DOMAIN m_stack_ranges \subseteq Threads
    BY DEF IInv, TypeInv
  <2>6. Within(w.a, w.to) => Within(w.a, w.to)'
    BY <2>1 DEF Within, Words, Top
  <2>q. QED
    BY <2>0, <2>1, <2>2, <2>3, <2>4, <2>5, <2>6
       DEF RangeInv, Running, InRange, ScanFrom, Words, Top
<1>2. ASSUME NEW t \in Threads, NEW unmap \in BOOLEAN, EndThread(t, unmap)
      PROVE  RangeInv'
  BY <1>2 DEF EndThread, RangeInv
<1>3. ASSUME NEW t \in Threads, PushFrame(t)
      PROVE  RangeInv'
  <2>1. /\ \A u \in Threads : u /= t => depth'[u] = depth[u]
        /\ depth'[t] = depth[t] + 1 /\ depth[t] < MaxDepth[t]
        /\ depth[t] \in Nat
        /\ UNCHANGED <<ended, stack, mapped, m_stack_ranges, call, w>>
    BY <1>3 DEF PushFrame, IInv, TypeInv
  <2>2. MaxDepth[t] \in Nat
    BY StackAssumption
  <2>q. QED
    BY <2>1, <2>2 DEF RangeInv, Running, InRange, Within, ScanFrom, Words, Top
<1>4. ASSUME NEW t \in Threads, PopFrame(t)
      PROVE  RangeInv'
  <2>1. /\ \A u \in Threads : u /= t => depth'[u] = depth[u]
        /\ depth'[t] = depth[t] - 1 /\ depth[t] > 1
        /\ depth[t] \in Nat
        /\ UNCHANGED <<ended, stack, mapped, m_stack_ranges, call, w>>
    BY <1>4 DEF PopFrame, IInv, TypeInv
  <2>2. MaxDepth[t] \in Nat
    BY StackAssumption
  <2>q. QED
    BY <2>1, <2>2 DEF RangeInv, Running, InRange, Within, ScanFrom, Words, Top
<1>5. ASSUME NEW t \in Threads, NEW is \in BOOLEAN, SetLocal(t, is)
      PROVE  RangeInv'
  BY <1>5
     DEF SetLocal, runtime, RangeInv, Running, InRange, Within, ScanFrom,
         Words, Top
<1>6. ASSUME NEW t \in Threads, Enters(t)
      PROVE  RangeInv'
  <2>0. SUFFICES ASSUME ~ ended PROVE RangeInv'
    BY <1>6 DEF Enters, Enter, runtime, RangeInv
  <2>1. Running(t) /\ depth[t] \in Nat /\ depth[t] >= 1
    BY <1>6, <2>0 DEF Enters, Enter, IInv, TypeInv, RangeInv
  <2>2. PICK d \in Nat, get \in BOOLEAN : d >= 1 /\ Enter(t, d, get)
    <3>1. depth[t] > 1 => depth[t] - 1 \in Nat /\ depth[t] - 1 >= 1
      BY <2>1
    <3>q. QED
      BY <1>6, <2>1, <3>1 DEF Enters
  <2>3. Rbp(stack[t], d) <= Top(stack[t])
    <3>1. Top(stack[t]) \in Int
      BY <2>1, Frames, Numbers DEF IInv
    <3>q. QED
      BY <2>2, <3>1 DEF Rbp
  <2>4. /\ \A u \in Threads : u /= t => call'[u] = call[u]
        /\ call'[t].base = Rbp(stack[t], d)
        /\ UNCHANGED <<runtime, m_stack_ranges, w>>
    BY <2>2 DEF Enter, IInv, TypeInv
  <2>q. QED
    BY <2>3, <2>4
       DEF runtime, RangeInv, Running, InRange, Within, ScanFrom, Words, Top
<1>7. ASSUME NEW t \in Threads, Update(t)
      PROVE  RangeInv'
  <2>0. SUFFICES ASSUME ~ ended PROVE RangeInv'
    BY <1>7 DEF Update, Left, runtime, RangeInv
  <2>1. /\ Running(t) /\ TypeInv /\ ~ ended /\ UNCHANGED ended
        /\ call[t] \in CallType /\ w.pc /= "scan" /\ UNCHANGED w
        /\ UNCHANGED <<stack, depth, mapped>>
    BY <1>7, <2>0 DEF Update, Left, Unlocked, IInv, TypeInv, CallInv, runtime
  <2>2. /\ stack[t] \in Stacks /\ depth[t] \in Nat /\ Top(stack[t]) \in Int
        /\ call[t].sp = Top(stack[t]) - 3 * depth[t]
    <3>1. stack[t] \in Stacks /\ depth[t] \in Nat /\ Top(stack[t]) \in Int
      BY <2>1, Frames, Numbers
    <3>2. call[t].sp = Sp(stack[t], depth[t])
      BY <1>7 DEF Update, IInv, CallInv
    <3>q. QED
      BY <3>1, <3>2 DEF Sp, Local, Rbp
  <2>3. /\ StackSize \in Nat /\ RedZone \in Nat /\ MaxDepth[t] \in Nat
        /\ StackSize > 3 * MaxDepth[t] + RedZone
        /\ depth[t] <= MaxDepth[t] /\ call[t].base \in Int
        /\ call[t].base <= Top(stack[t])
    BY <1>7, <2>1, StackAssumption DEF Update, RangeInv, CallType
  <2>4. ASSUME NEW r \in Int \X Int, r[2] = call[t].sp
        PROVE  ScanFrom(r) \in Words(stack[t])
    <3>1. ScanFrom(r) = Top(stack[t]) - 3 * depth[t] - RedZone
      BY <2>2, <2>4 DEF ScanFrom
    <3>2. /\ 3 * depth[t] + RedZone <= StackSize - 1
          /\ 3 * depth[t] + RedZone >= 0
      BY <2>2, <2>3
    <3>q. QED
      BY <2>2, <2>3, <3>1, <3>2 DEF Words
  <2>5. /\ t \in DOMAIN m_stack_ranges'
        /\ m_stack_ranges'[t] \in Int \X Int
        /\ m_stack_ranges'[t][2] = call[t].sp
        /\ m_stack_ranges'[t][1] <= Top(stack[t])
    <3>1. /\ m_stack_ranges[t] \in Int \X Int
          /\ m_stack_ranges[t][1] <= Top(stack[t])
      BY <1>7, <2>1 DEF Update, IInv, TypeInv, RangeInv
    <3>2. m_stack_ranges'[t] = Widened(m_stack_ranges[t], call[t])
      BY <1>7 DEF Update
    <3>q. QED
      BY <1>7, <2>2, <2>3, <3>1, <3>2 DEF Update, Widened
  <2>6. /\ \A u \in DOMAIN m_stack_ranges' \ {t} :
             /\ u \in DOMAIN m_stack_ranges
             /\ m_stack_ranges'[u] = m_stack_ranges[u]
        /\ \A u \in Threads : call'[u].pc \in {"update", "insert"} =>
                              call'[u] = call[u]
    <3>1. \A u \in DOMAIN m_stack_ranges' \ {t} :
            /\ u \in DOMAIN m_stack_ranges
            /\ m_stack_ranges'[u] = m_stack_ranges[u]
      BY <1>7 DEF Update
    <3>2. \A u \in Threads : u /= t => call'[u] = call[u]
      BY <1>7 DEF Update, Left, IInv, TypeInv
    <3>3. call'[t].pc \in {"lock", "run"}
      <4>1. call'[t] = IF call[t].get THEN [call[t] EXCEPT !.pc = "lock"]
                        ELSE NoCall
        BY <1>7 DEF Update, Left, IInv, TypeInv
      <4>q. QED
        BY <2>1, <4>1 DEF NoCall, CallType
    <3>q. QED
      BY <3>1, <3>2, <3>3
  <2>7. ASSUME NEW u \in DOMAIN m_stack_ranges'
        PROVE  /\ Running(u)
               /\ ScanFrom(m_stack_ranges'[u]) \in Words(stack[u])
               /\ m_stack_ranges'[u][1] <= Top(stack[u])
    <3>1. CASE u = t
      BY <2>1, <2>4, <2>5, <3>1
    <3>2. CASE u /= t
      BY <2>1, <2>6, <3>2 DEF RangeInv
    <3>q. QED
      BY <3>1, <3>2
  <2>q. QED
    BY <2>1, <2>6, <2>7 DEF RangeInv, Running, ScanFrom, Words, Top
<1>8. ASSUME NEW t \in Threads, UpdateNew(t)
      PROVE  RangeInv'
  <2>1. /\ \A u \in Threads : call'[u].base = call[u].base
        /\ \A u \in Threads : call'[u].pc \in {"update", "insert"} =>
                              call[u].pc \in {"update", "insert"}
        /\ UNCHANGED <<runtime, m_stack_ranges, w>>
    BY <1>8 DEF UpdateNew, IInv, TypeInv, CallType
  <2>q. QED
    BY <2>1
       DEF runtime, RangeInv, Running, InRange, Within, ScanFrom, Words, Top
<1>9. ASSUME NEW t \in Threads, Insert(t)
      PROVE  RangeInv'
  <2>0. SUFFICES ASSUME ~ ended PROVE RangeInv'
    BY <1>9 DEF Insert, Left, runtime, RangeInv
  <2>1. /\ Running(t) /\ TypeInv /\ ~ ended /\ UNCHANGED ended
        /\ call[t] \in CallType /\ w.pc /= "scan" /\ UNCHANGED w
        /\ UNCHANGED <<stack, depth, mapped>>
    BY <1>9, <2>0 DEF Insert, Left, Unlocked, IInv, TypeInv, CallInv, runtime
  <2>2. /\ stack[t] \in Stacks /\ depth[t] \in Nat /\ Top(stack[t]) \in Int
        /\ call[t].sp = Top(stack[t]) - 3 * depth[t]
    <3>1. stack[t] \in Stacks /\ depth[t] \in Nat /\ Top(stack[t]) \in Int
      BY <2>1, Frames, Numbers
    <3>2. call[t].sp = Sp(stack[t], depth[t])
      BY <1>9 DEF Insert, IInv, CallInv
    <3>q. QED
      BY <3>1, <3>2 DEF Sp, Local, Rbp
  <2>3. /\ StackSize \in Nat /\ RedZone \in Nat /\ MaxDepth[t] \in Nat
        /\ StackSize > 3 * MaxDepth[t] + RedZone
        /\ depth[t] <= MaxDepth[t] /\ call[t].base \in Int
        /\ call[t].base <= Top(stack[t])
    BY <1>9, <2>1, StackAssumption DEF Insert, RangeInv, CallType
  <2>4. ASSUME NEW r \in Int \X Int, r[2] = call[t].sp
        PROVE  ScanFrom(r) \in Words(stack[t])
    <3>1. ScanFrom(r) = Top(stack[t]) - 3 * depth[t] - RedZone
      BY <2>2, <2>4 DEF ScanFrom
    <3>2. /\ 3 * depth[t] + RedZone <= StackSize - 1
          /\ 3 * depth[t] + RedZone >= 0
      BY <2>2, <2>3
    <3>q. QED
      BY <2>2, <2>3, <3>1, <3>2 DEF Words
  <2>5. /\ t \in DOMAIN m_stack_ranges'
        /\ m_stack_ranges'[t] \in Int \X Int
        /\ m_stack_ranges'[t][2] = call[t].sp
        /\ m_stack_ranges'[t][1] <= Top(stack[t])
    <3>1. t \notin DOMAIN m_stack_ranges
      BY <1>9 DEF Insert, IInv, CallInv
    <3>q. QED
      BY <1>9, <2>2, <2>3, <3>1 DEF Insert
  <2>6. /\ \A u \in DOMAIN m_stack_ranges' \ {t} :
             /\ u \in DOMAIN m_stack_ranges
             /\ m_stack_ranges'[u] = m_stack_ranges[u]
        /\ \A u \in Threads : call'[u].pc \in {"update", "insert"} =>
                              call'[u] = call[u]
    <3>1. \A u \in DOMAIN m_stack_ranges' \ {t} :
            /\ u \in DOMAIN m_stack_ranges
            /\ m_stack_ranges'[u] = m_stack_ranges[u]
      BY <1>9 DEF Insert
    <3>2. \A u \in Threads : u /= t => call'[u] = call[u]
      BY <1>9 DEF Insert, Left, IInv, TypeInv
    <3>3. call'[t].pc \in {"lock", "run"}
      <4>1. call'[t] = IF call[t].get THEN [call[t] EXCEPT !.pc = "lock"]
                        ELSE NoCall
        BY <1>9 DEF Insert, Left, IInv, TypeInv
      <4>q. QED
        BY <2>1, <4>1 DEF NoCall, CallType
    <3>q. QED
      BY <3>1, <3>2, <3>3
  <2>7. ASSUME NEW u \in DOMAIN m_stack_ranges'
        PROVE  /\ Running(u)
               /\ ScanFrom(m_stack_ranges'[u]) \in Words(stack[u])
               /\ m_stack_ranges'[u][1] <= Top(stack[u])
    <3>1. CASE u = t
      BY <2>1, <2>4, <2>5, <3>1
    <3>2. CASE u /= t
      BY <2>1, <2>6, <3>2 DEF RangeInv
    <3>q. QED
      BY <3>1, <3>2
  <2>q. QED
    BY <2>1, <2>6, <2>7 DEF RangeInv, Running, ScanFrom, Words, Top
<1>10. ASSUME NEW t \in Threads, LockForScan(t)
      PROVE  RangeInv'
  <2>1. ~ InRange'
    BY <1>10 DEF LockForScan, NoScan, InRange
  <2>q. QED
    BY <1>10, <2>1
       DEF LockForScan, runtime, RangeInv, Running, ScanFrom, Words, Top
<1>11. ASSUME NEW t \in Threads, ScanThread(t)
      PROVE  RangeInv'
  <2>0. SUFFICES ASSUME ~ ended PROVE RangeInv'
    BY <1>11 DEF ScanThread, runtime, RangeInv
  <2>1. t \in DOMAIN m_stack_ranges
    BY <1>11 DEF ScanThread, IInv, TodoInv
  <2>2. /\ stack[t] \in mapped
        /\ ScanFrom(m_stack_ranges[t]) \in Words(stack[t])
        /\ m_stack_ranges[t][1] <= Top(stack[t])
    BY <2>0, <2>1 DEF RangeInv
  <2>3. /\ w'.a = ScanFrom(m_stack_ranges[t]) /\ w'.to = m_stack_ranges[t][1]
        /\ UNCHANGED <<runtime, m_stack_ranges, call>>
    BY <1>11 DEF ScanThread, IInv, TypeInv, ScanType
  <2>4. Within(w.a, w.to)'
    BY <2>2, <2>3 DEF Within, runtime, Words, Top
  <2>q. QED
    BY <2>3, <2>4 DEF runtime, RangeInv, Running, ScanFrom, Words, Top
<1>12. ASSUME NEW t \in Threads, Merge(t)
      PROVE  RangeInv'
  <2>1. \A u \in Threads :
          call'[u].pc \in {"update", "insert"} => call'[u] = call[u]
    BY <1>12 DEF Merge, NoCall, IInv, TypeInv
  <2>q. QED
    BY <1>12, <2>1
       DEF Merge, runtime, RangeInv, Running, InRange, Within, ScanFrom, Words,
           Top
<1>13. ASSUME ScanWord PROVE RangeInv'
  <2>0. SUFFICES ASSUME ~ ended PROVE RangeInv'
    BY <1>13 DEF ScanWord, runtime, RangeInv
  <2>1. CASE Mapped(w.a) /\ Mapped(w.a + 1)
    <3>1. PICK s \in mapped : w.a \in Words(s) /\ w.to <= Top(s)
      BY <1>13, <2>0 DEF ScanWord, RangeInv, Within
    <3>2. /\ w'.a = w.a + 1 /\ w'.to = w.to /\ w.a \in Int /\ w.to \in Int
          /\ UNCHANGED <<runtime, m_stack_ranges, call>>
      BY <1>13, <2>1 DEF ScanWord, IInv, TypeInv, ScanType
    <3>3. InRange' => w.a + 1 \in Words(s)
      <4>1. Top(s) \in Int /\ StackSize \in Nat
        BY <3>1, Numbers, StackAssumption DEF IInv, TypeInv
      <4>q. QED
        BY <3>1, <3>2, <4>1 DEF InRange, Words
    <3>4. InRange' => Within(w.a, w.to)'
      BY <3>1, <3>2, <3>3 DEF Within, runtime, Words, Top
    <3>q. QED
      BY <3>2, <3>4 DEF runtime, RangeInv, Running, ScanFrom, Words, Top
  <2>2. CASE ~ (Mapped(w.a) /\ Mapped(w.a + 1))
    BY <1>13, <2>2
       DEF ScanWord, IInv, TypeInv, ScanType, runtime, RangeInv, Running,
           ScanFrom, Words, Top
  <2>q. QED
    BY <2>1, <2>2
<1>14. ASSUME UnlockAfterScan PROVE RangeInv'
  <2>1. w'.pc /= "scan" /\ UNCHANGED <<runtime, m_stack_ranges>>
    BY <1>14 DEF UnlockAfterScan, NoScan
  <2>2. \A u \in Threads :
          call'[u].pc \in {"update", "insert"} => call'[u] = call[u]
    BY <1>14 DEF UnlockAfterScan, IInv, TypeInv, CallType
  <2>q. QED
    BY <2>1, <2>2 DEF runtime, RangeInv, Running, ScanFrom, Words, Top
<1>15. CASE UNCHANGED vars
  BY <1>15
     DEF vars, runtime, RangeInv, Running, InRange, Within, ScanFrom, Words,
         Top
<1>q. QED
  BY <1>1, <1>2, <1>3, <1>4, <1>5, <1>6, <1>7, <1>8, <1>9, <1>10, <1>11,
     <1>12, <1>13, <1>14, <1>15
     DEF Next, Program, Locks, Scan

(* A scan stays in mapped memory while no thread has ended.                 *)
LEMMA FaultStep ==
  IInv /\ RangeInv /\ FaultOnlyAfterEnd /\ [Next]_vars => FaultOnlyAfterEnd'
<1> SUFFICES ASSUME IInv, RangeInv, FaultOnlyAfterEnd, [Next]_vars
             PROVE  FaultOnlyAfterEnd'
  OBVIOUS
<1>1. ASSUME ScanWord, ~ ended PROVE ~ Crashed'
  <2>1. PICK s \in mapped : w.a \in Words(s) /\ w.to <= Top(s)
    BY <1>1 DEF ScanWord, RangeInv, Within
  <2>2. /\ Top(s) \in Int /\ StackSize \in Nat /\ w.a \in Int /\ w.to \in Int
        /\ w.a + 2 <= w.to
    BY <1>1, <2>1, Numbers, StackAssumption
       DEF ScanWord, InRange, IInv, TypeInv, ScanType
  <2>3. w.a + 1 \in Words(s)
    BY <2>1, <2>2 DEF Words
  <2>4. Mapped(w.a) /\ Mapped(w.a + 1)
    BY <2>1, <2>3 DEF Mapped
  <2>q. QED
    BY <1>1, <2>4 DEF ScanWord, Crashed, IInv, TypeInv, ScanType
<1>2. ended => ended'
  BY DEF Next, Program, Enters, Enter, Locks, Scan, StartThread, EndThread,
         PushFrame, PopFrame, SetLocal, Update, UpdateNew, Insert, Merge, Left,
         LockForScan, ScanThread, ScanWord, UnlockAfterScan, vars, runtime
<1>3. ~ ScanWord => (Crashed' => Crashed)
  <2>1. \A t \in Threads : ScanThread(t) => ~ Crashed'
    BY DEF ScanThread, Crashed, IInv, TypeInv, ScanType
  <2>2. \A t \in Threads : LockForScan(t) => ~ Crashed'
    BY DEF LockForScan, Crashed, NoScan
  <2>3. UnlockAfterScan => ~ Crashed'
    BY DEF UnlockAfterScan, Crashed, NoScan
  <2>q. QED
    BY <2>1, <2>2, <2>3
       DEF Next, Program, Enters, Enter, Locks, Scan, StartThread, EndThread,
           PushFrame, PopFrame, SetLocal, Update, UpdateNew, Insert, Merge, Left,
           Crashed, vars
<1>q. QED
  BY <1>1, <1>2, <1>3 DEF FaultOnlyAfterEnd

(* Type correctness, and the facts about ranges it takes to keep it.        *)
THEOREM Invariance == Spec => []IInv
<1>q. QED
  BY InitInv, Inductive, PTL DEF Spec

(* get_roots misses no variable that stays where it is in an announced frame.*)
THEOREM Completeness == Spec => []AnnouncedFound
<1>1. IInv => AnnouncedFound
  <2> SUFFICES ASSUME IInv, ScanOver, NEW l \in must PROVE l \in found
    BY DEF AnnouncedFound
  <2>1. w.a \in Int /\ w.to \in Int /\ l \in Int
    BY DEF IInv, TypeInv, ScanType, ScanInv
  <2>q. QED
    BY <2>1 DEF IInv, ScanInv, Ahead, ScanOver, InRange
<1>q. QED
  BY Invariance, <1>1, PTL

(* Only a range of a thread that has ended takes a scan out of its stacks.  *)
THEOREM ReadableMemory == Spec => []FaultOnlyAfterEnd
<1>1. Init => RangeInv /\ FaultOnlyAfterEnd
  BY DEF Init, RangeInv, FaultOnlyAfterEnd, Crashed, Running, NoCall, NoScan
<1>q. QED
  BY <1>1, Invariance, RangeStep, FaultStep, PTL DEF Spec
=============================================================================
