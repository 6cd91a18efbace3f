--------------------- MODULE CopyingCollectorProofs ---------------------
(***************************************************************************)
(* Proofs about the collector for any number of mutators, any heap size,   *)
(* any set of requests and both locking policies.                          *)
(***************************************************************************)
EXTENDS CopyingCollector, TLAPS

(* The space of an address and the flip are only names for expressions.     *)
USE DEF contains, get_space_num, flip_space

(* What an allocation knows about its request: alloc has turned away a      *)
(* request for nothing, and what it has reserved lies below the limit.      *)
ThreadInv ==
  \A t \in Threads :
    /\ \/ th[t].pc \in {"reserve", "retry", "emplace"}
       \/ th[t].ret = "retry"
       => th[t].req.size > 0
    /\ th[t].pc = "emplace" =>
         th[t].ptr \in Address /\ th[t].ptr[2] + th[t].req.size <= MaxAlloc
    /\ th[t].pc = "idle" => th[t].ret = "idle"

(* Managed objects have cells, and all of them lie in the heap.             *)
ObjectInv ==
  \A o \in DOMAIN m_metadata :
    m_metadata[o].size > 0 /\ o[2] + m_metadata[o].size <= HeapSize

Moving == {"scan", "check", "emplace", "copy", "swing", "erase"}

(* While an object is moved it stays managed, in the old space.             *)
WorkerInv ==
  /\ w.pc \in Moving => w.val \in DOMAIN m_metadata /\ w.val[1] # w.to
  /\ w.pc \in Moving \ {"scan"} => w.new \in Address
  /\ w.pc = "copy" => w.i < m_metadata[w.val].size

IInv == /\ TypeOK
        /\ ThreadInv
        /\ ObjectInv
        /\ WorkerInv
        /\ SingleCollection
        /\ InactiveSpaceReset

-----------------------------------------------------------------------------
(* Requests and the empty request have a size and a positive alignment.     *)
LEMMA RequestType ==
  ASSUME TypeOK, NEW t \in Threads
  PROVE  /\ th[t] \in ThreadState
         /\ th[t].req \in Metadata
         /\ th[t].req.size \in Nat
         /\ th[t].ptr \in FatPtrs
  BY RequestAssumption DEF TypeOK, ThreadState, NoRequest, Metadata

(* A request that fits is placed between the next free index and the limit. *)
LEMMA Placed ==
  ASSUME TypeOK, NEW s \in {0, 1}, NEW r \in Metadata, NEW limit \in Nat,
         Fits(s, r, limit)
  PROVE  /\ At(s, r) \in Nat
         /\ End(s, r) \in 0 .. limit
         /\ At(s, r) + r.size <= limit
  <1>1. m_nexts[s] \in Nat /\ r.size \in Nat /\ r.align \in Nat \ {0}
    BY SizeAssumption DEF TypeOK, Metadata
  <1>2. Padding(m_nexts[s], r.align) \in Nat
    <2>1. m_nexts[s] % r.align \in 0 .. (r.align - 1)
      BY <1>1
    <2>2. QED
      BY <1>1, <2>1 DEF Padding
  <1>3. QED
    BY <1>1, <1>2 DEF At, End, Fits

(* What a mutator looks like after collect returned.                        *)
LEMMA ResumedType ==
  ASSUME NEW x \in ThreadState
  PROVE  /\ Resumed(x) \in ThreadState
         /\ [x EXCEPT !.pc = "inline"] \in ThreadState
         /\ Woken(x) \in ThreadState
  <1>1. IdleThread \in ThreadState
    BY DEF IdleThread, ThreadState, FatPtrs
  <1>2. Resumed(x) \in ThreadState
    BY <1>1 DEF Resumed, ThreadState
  <1>3. QED
    BY <1>2 DEF Woken, ThreadState

(* The empty states of a mutator and of the collection.                     *)
LEMMA IdleType == IdleThread \in ThreadState /\ IdleWorker \in WorkerState
  BY DEF IdleThread, ThreadState, IdleWorker, WorkerState, FatPtrs

(* An access covers at most a word and stays inside the source's space,     *)
(* which is a whole number of words.                                        *)
LEMMA WidthBound ==
  ASSUME NEW index \in Nat, index < HeapSize
  PROVE  Width(index) \in 1 .. Word /\ index + Width(index) <= HeapSize
  <1>1. HeapSize \in Nat /\ HeapSize % Word = 0 /\ Word \in {1, 2, 4, 8}
    BY SizeAssumption, WordAssumption
  <1>2. CASE Word = 1
    BY <1>1, <1>2 DEF Width
  <1>3. CASE Word = 2
    BY <1>1, <1>3 DEF Width
  <1>4. CASE Word = 4
    BY <1>1, <1>4 DEF Width
  <1>5. CASE Word = 8
    BY <1>1, <1>5 DEF Width
  <1>6. QED
    BY <1>1, <1>2, <1>3, <1>4, <1>5

(* What one access of a copy does: it brings the next cells over, as far as *)
(* they lie in the space, and leaves everything else alone.                 *)
LEMMA CopyWordStep ==
  ASSUME TypeOK, ObjectInv, WorkerInv, CopyWord
  PROVE  /\ w.pc = "copy" /\ w.val \in DOMAIN m_metadata /\ w.val \in Address
         /\ w.val[1] # w.to /\ w.new \in Address /\ w.i \in Nat
         /\ old_data \in Metadata /\ old_data.size \in Nat
         /\ w.i < old_data.size /\ copied \in Nat /\ w.i < copied
         /\ mem' \in [Location -> Value]
         /\ \A i \in w.i .. copied - 1 :
              /\ Cell(w.val, i) \in Address
              /\ Cell(w.new, i) \in Address =>
                   mem'[Cell(w.new, i)] = mem[Cell(w.val, i)]
         /\ \A l \in Location :
              \/ mem'[l] = mem[l]
              \/ l \in Address /\ \E i \in w.i .. copied - 1 : l = Cell(w.new, i)
         /\ w' = [w EXCEPT !.i = copied,
                           !.pc = IF copied < old_data.size THEN "copy"
                                  ELSE "swing"]
         /\ UNCHANGED <<m_nexts, m_metadata, visited, Mutators>>
  <1>1. /\ w.pc = "copy" /\ w.val \in DOMAIN m_metadata /\ w.val \in Address
        /\ w.val[1] # w.to /\ w.new \in Address /\ w.i \in Nat
        /\ old_data \in Metadata /\ old_data.size \in Nat
        /\ w.i < old_data.size /\ w.val[2] + old_data.size <= HeapSize
    BY DEF CopyWord, TypeOK, ObjectInv, WorkerInv, WorkerState, Moving, old_data,
           Metadata
  <1>2. /\ w.val[1] \in {0, 1} /\ w.val[2] \in Nat /\ w.new[1] \in {0, 1}
        /\ w.new[2] \in Nat /\ w.new = <<w.new[1], w.new[2]>>
        /\ HeapSize \in Nat
    BY <1>1, SizeAssumption DEF Address
  <1>3. /\ copied \in Nat /\ w.i < copied /\ w.val[2] + copied <= HeapSize
    <2>1. PICK n : n = Width(w.val[2] + w.i)
      OBVIOUS
    <2>2. n \in 1 .. Word /\ w.val[2] + w.i + n <= HeapSize /\ Word \in Nat
      BY <1>1, <1>2, <2>1, WidthBound, WordAssumption
    <2>3. QED
      BY <1>1, <1>2, <2>1, <2>2 DEF copied
  <1>4. PICK e : e = copied
    OBVIOUS
  <1> DEFINE M == [l \in Location |->
                    IF l \in Address /\ l \in Cells(Cell(w.new, w.i), e - w.i)
                    THEN mem[Cell(w.val, l[2] - w.new[2])] ELSE mem[l]]
  <1>5. mem' = M
    BY <1>4 DEF CopyWord
  <1>6. ASSUME NEW i \in w.i .. e - 1
        PROVE  Cell(w.val, i) \in Address
    BY <1>1, <1>2, <1>3, <1>4, <1>6 DEF Cell, Address
  <1>7. \A l \in Address :
          l \in Cells(Cell(w.new, w.i), e - w.i) <=>
            \E i \in w.i .. e - 1 : l = Cell(w.new, i)
    <2> TAKE l \in Address
    <2>1. l = <<l[1], l[2]>> /\ l[1] \in {0, 1} /\ l[2] \in Nat
      BY <1>2 DEF Address
    <2>2. ASSUME l \in Cells(Cell(w.new, w.i), e - w.i)
          PROVE  \E i \in w.i .. e - 1 : l = Cell(w.new, i)
      <3>1. l[1] = w.new[1] /\ l[2] - w.new[2] \in w.i .. e - 1
        BY <1>1, <1>2, <1>3, <1>4, <2>1, <2>2 DEF Cells, Cell
      <3>2. l = Cell(w.new, l[2] - w.new[2])
        BY <1>2, <2>1, <3>1 DEF Cell
      <3>3. QED
        BY <3>1, <3>2
    <2>3. ASSUME NEW i \in w.i .. e - 1, l = Cell(w.new, i)
          PROVE  l \in Cells(Cell(w.new, w.i), e - w.i)
      BY <1>1, <1>2, <1>3, <1>4, <2>3 DEF Cells, Cell
    <2>4. QED
      BY <2>2, <2>3
  <1>8. \A i \in w.i .. e - 1 : Cell(w.new, i)[2] - w.new[2] = i
    BY <1>1, <1>2, <1>3, <1>4 DEF Cell
  <1>9. Address \subseteq Location
    BY DEF Location
  <1>10. \A l \in Location :
           \/ M[l] = mem[l]
           \/ l \in Address /\ \E i \in w.i .. e - 1 : l = Cell(w.new, i)
    BY <1>7
  <1>11. ASSUME NEW i \in w.i .. e - 1, Cell(w.new, i) \in Address
         PROVE  M[Cell(w.new, i)] = mem[Cell(w.val, i)]
    BY <1>7, <1>8, <1>9, <1>11
  <1>12. M \in [Location -> Value]
    <2>1. mem \in [Location -> Value]
      BY DEF TypeOK
    <2> SUFFICES ASSUME NEW l \in Location PROVE M[l] \in Value
      OBVIOUS
    <2>2. CASE l \in Address /\ \E i \in w.i .. e - 1 : l = Cell(w.new, i)
      <3>1. PICK i \in w.i .. e - 1 : l = Cell(w.new, i)
        BY <2>2
      <3>2. M[l] = mem[Cell(w.val, i)]
        BY <1>11, <2>2, <3>1
      <3>3. QED
        BY <1>6, <1>9, <2>1, <3>2
    <2>3. QED
      BY <1>10, <2>1, <2>2
  <1>13. /\ w' = [w EXCEPT !.i = copied,
                           !.pc = IF copied < old_data.size THEN "copy"
                                  ELSE "swing"]
         /\ UNCHANGED <<m_nexts, m_metadata, visited, Mutators>>
    BY DEF CopyWord
  <1> HIDE DEF M
  <1>14. QED
    BY <1>1, <1>3, <1>4, <1>5, <1>6, <1>10, <1>11, <1>12, <1>13

-----------------------------------------------------------------------------
(* Initially there are no objects, no tasks and no calls.                   *)
LEMMA InitIInv == Init => IInv
  <1> SUFFICES ASSUME Init PROVE IInv
    OBVIOUS
  <1>1. mem \in [Location -> Value]
    BY DEF Init, Value, FatPtrs
  <1>2. m_nexts \in [{0, 1} -> 0 .. HeapSize]
    BY SizeAssumption DEF Init
  <1>3. TypeOK
    BY <1>1, <1>2, IdleType DEF Init, TypeOK
  <1>4. ThreadInv /\ ObjectInv /\ WorkerInv
    BY DEF Init, ThreadInv, ObjectInv, WorkerInv, IdleThread, IdleWorker, Moving
  <1>5. SingleCollection /\ InactiveSpaceReset
    BY DEF Init, SingleCollection, InactiveSpaceReset, IdleWorker
  <1>6. QED
    BY <1>3, <1>4, <1>5 DEF IInv

(* Mutator steps that change only the thread that takes them.               *)
LEMMA ThreadOnlyType ==
  ASSUME TypeOK, NEW t \in Threads,
         \/ \E r \in Requests : CallAlloc(t, r)
         \/ CallCollect(t) \/ FrontCheck(t) \/ NoRoom(t) \/ Catch(t)
         \/ CollectLoop(t) \/ SkipCollection(t)
         \/ \E k \in Slots : LoadPtr(t, k)
  PROVE  TypeOK'
  <1>1. th[t] \in ThreadState /\ Resumed(th[t]) \in ThreadState
    BY RequestType, ResumedType
  <1>2. UNCHANGED <<m_nexts, m_space_num, m_metadata, m_collect_result, tasks,
                    mem, w, visited>>
    BY DEF CallAlloc, CallCollect, FrontCheck, NoRoom, Catch, CollectLoop,
           SkipCollection, LoadPtr, heap, collection, Uses
  <1>3. th' \in [Threads -> ThreadState]
    <2>1. CASE \E r \in Requests : CallAlloc(t, r)
      <3>1. PICK r \in Requests : CallAlloc(t, r)
        BY <2>1
      <3> DEFINE p == IF FrontEnd THEN "front" ELSE Entry(r)
      <3>2. p \in {"front", "reserve"} \cup Errors
        BY DEF Entry, Errors
      <3>3. th' = [th EXCEPT ![t] = [th[t] EXCEPT !.req = r, !.pc = p]]
        BY <3>1 DEF CallAlloc, TypeOK, ThreadState
      <3> HIDE DEF p
      <3>4. [th[t] EXCEPT !.req = r, !.pc = p] \in ThreadState
        BY <1>1, <3>2 DEF ThreadState
      <3>5. QED
        BY <3>3, <3>4 DEF TypeOK
    <2>2. CASE CallCollect(t)
      BY <1>1, <2>2 DEF TypeOK, CallCollect, ThreadState
    <2>3. CASE FrontCheck(t)
      BY <1>1, <2>3 DEF TypeOK, FrontCheck, Entry, ThreadState, Errors
    <2>4. CASE NoRoom(t)
      BY <1>1, <2>4 DEF TypeOK, NoRoom, ThreadState, Errors
    <2>5. CASE Catch(t)
      BY <2>5, IdleType DEF TypeOK, Catch
    <2>6. CASE CollectLoop(t)
      BY <1>1, <2>6 DEF TypeOK, CollectLoop, ThreadState
    <2>7. CASE SkipCollection(t)
      BY <1>1, <2>7 DEF TypeOK, SkipCollection
    <2>8. CASE \E k \in Slots : LoadPtr(t, k)
      <3>1. PICK k \in Slots : LoadPtr(t, k)
        BY <2>8
      <3>2. mem[<<t, k>>] \in FatPtrs
        BY <3>1 DEF LoadPtr, FatPtrs
      <3>3. th' = [th EXCEPT ![t] =
                     [th[t] EXCEPT !.pc = "use", !.ptr = mem[<<t, k>>]]]
        BY <3>1 DEF LoadPtr, TypeOK, ThreadState
      <3>4. [th[t] EXCEPT !.pc = "use", !.ptr = mem[<<t, k>>]] \in ThreadState
        BY <1>1, <3>2 DEF ThreadState
      <3>5. QED
        BY <3>3, <3>4 DEF TypeOK
    <2>9. QED
      BY <2>1, <2>2, <2>3, <2>4, <2>5, <2>6, <2>7, <2>8
  <1>4. QED
    BY <1>2, <1>3 DEF TypeOK

(* Mutator steps on the heap, the queue and the memory.                     *)
LEMMA MutatorType ==
  ASSUME IInv, NEW t \in Threads, Mutator(t)
  PROVE  TypeOK'
  <1>0. TypeOK /\ ThreadInv
    BY DEF IInv
  <1>1. th[t] \in ThreadState /\ th[t].req \in Metadata /\ th[t].ptr \in FatPtrs
    BY <1>0, RequestType
  <1>2. CASE Reserve(t)
    <2> DEFINE p == <<m_space_num, At(m_space_num, th[t].req)>>
    <2>1. /\ At(m_space_num, th[t].req) \in Nat
          /\ End(m_space_num, th[t].req) \in 0 .. MaxAlloc
          /\ At(m_space_num, th[t].req) + th[t].req.size <= MaxAlloc
      BY <1>0, <1>1, <1>2, Placed, SizeAssumption DEF Reserve, TypeOK
    <2>2. p \in Address
      <3>1. At(m_space_num, th[t].req) <= HeapSize - 1
        BY <1>1, <2>1, SizeAssumption DEF Metadata
      <3>2. QED
        BY <1>0, <2>1, <3>1, SizeAssumption DEF Address, TypeOK
    <2>3. m_nexts' \in [{0, 1} -> 0 .. HeapSize]
      <3>1. End(m_space_num, th[t].req) \in 0 .. HeapSize
        BY <2>1, SizeAssumption
      <3>2. QED
        BY <1>0, <1>2, <3>1 DEF Reserve, TypeOK
    <2>4. th' \in [Threads -> ThreadState]
      <3> HIDE DEF p
      <3>1. \/ th' = [th EXCEPT ![t] = [th[t] EXCEPT !.pc = "heap_corruption"]]
            \/ th' = [th EXCEPT ![t] = [th[t] EXCEPT !.pc = "emplace", !.ptr = p]]
        BY <1>0, <1>2 DEF Reserve, TypeOK, ThreadState, p
      <3>2. /\ [th[t] EXCEPT !.pc = "heap_corruption"] \in ThreadState
            /\ [th[t] EXCEPT !.pc = "emplace", !.ptr = p] \in ThreadState
        BY <1>1, <2>2 DEF ThreadState, Errors, FatPtrs
      <3>3. QED
        BY <1>0, <3>1, <3>2 DEF TypeOK
    <2>5. QED
      BY <1>0, <1>2, <2>3, <2>4 DEF Reserve, TypeOK, collection
  <1>3. CASE Emplace(t)
    <2>1. th[t].ptr \in Address
      BY <1>0, <1>3 DEF Emplace, ThreadInv
    <2>2. /\ DOMAIN m_metadata' \subseteq Address
          /\ \A o \in DOMAIN m_metadata' : m_metadata'[o] \in Metadata
      <3>1. m_metadata' = Emplaced(m_metadata, th[t].ptr, th[t].req)
        BY <1>3 DEF Emplace
      <3> DEFINE p == th[t].ptr  r == th[t].req
      <3>2. p \in Address /\ r \in Metadata
        BY <1>1, <2>1
      <3> HIDE DEF p, r
      <3>3. m_metadata' = Emplaced(m_metadata, p, r)
        BY <3>1 DEF p, r
      <3>4. QED
        BY <1>0, <3>2, <3>3 DEF Emplaced, TypeOK
    <2>3. th' \in [Threads -> ThreadState]
      BY <1>0, <1>1, <1>3 DEF Emplace, TypeOK, ThreadState
    <2>4. QED
      BY <1>0, <1>3, <2>2, <2>3 DEF Emplace, TypeOK, collection
  <1>4. CASE \E k \in Slots, v \in Fresh : Construct(t, k, v)
    <2>1. PICK k \in Slots, v \in Fresh : Construct(t, k, v)
      BY <1>4
    <2>2. v \in Value /\ th[t].ptr \in Value
      BY <1>1, FreshAssumption DEF Value, FatPtrs
    <2>3. mem' \in [Location -> Value]
      BY <1>0, <2>1, <2>2 DEF Construct, TypeOK
    <2>4. th' \in [Threads -> ThreadState]
      BY <1>0, <2>1, IdleType DEF Construct, TypeOK
    <2>5. QED
      BY <1>0, <2>1, <2>3, <2>4 DEF Construct, TypeOK, heap, collection
  <1>5. CASE StartCollection(t)
    <2>1. th' \in [Threads -> ThreadState]
      BY <1>0, <1>1, <1>5, ResumedType DEF StartCollection, TypeOK
    <2>2. m_nexts' \in [{0, 1} -> 0 .. HeapSize]
      BY <1>0, <1>5, SizeAssumption DEF StartCollection, NextsAfterFlip, TypeOK
    <2>3. m_space_num' \in {0, 1} /\ tasks' \in Seq({0, 1})
      BY <1>0, <1>5 DEF StartCollection, TypeOK
    <2>4. QED
      BY <1>0, <1>5, <2>1, <2>2, <2>3 DEF StartCollection, TypeOK, collection
  <1>6. CASE Use(t)
    <2>1. th' = [th EXCEPT ![t] = IdleThread]
      BY <1>6 DEF Use, StorePtr, WriteData, WriteField
    <2>2. th' \in [Threads -> ThreadState]
      BY <1>0, <2>1, IdleType DEF TypeOK
    <2>3. mem' \in [Location -> Value]
      <3>1. ASSUME NEW k \in Slots
            PROVE  mem[<<t, k>>] \in Value /\ th[t].ptr \in Value
        BY <1>0, <1>1 DEF TypeOK, Location, Stack, Value
      <3>2. CASE \E k \in Slots : StorePtr(t, k) \/ WriteField(t, k)
        BY <1>0, <3>1, <3>2 DEF StorePtr, WriteField, TypeOK
      <3>3. CASE \E d \in Data : WriteData(t, d)
        BY <1>0, <3>3 DEF WriteData, TypeOK, Value
      <3>4. QED
        BY <1>6, <3>2, <3>3 DEF Use
    <2>4. UNCHANGED Uses
      BY <1>6 DEF Use, StorePtr, WriteData, WriteField
    <2>5. QED
      BY <1>0, <2>2, <2>3, <2>4 DEF TypeOK, Uses, heap, collection
  <1>7. CASE \E k \in Slots : ClearSlot(t, k)
    <2>1. mem' \in [Location -> Value]
      BY <1>0, <1>7 DEF ClearSlot, TypeOK, Value, FatPtrs
    <2>2. QED
      BY <1>0, <1>7, <2>1 DEF ClearSlot, TypeOK, Uses, heap, collection
  <1>8. QED
    BY <1>0, <1>2, <1>3, <1>4, <1>5, <1>6, <1>7, ThreadOnlyType
       DEF Mutator, Call

(* Steps of the collection that change only its own locals.                 *)
LEMMA LocalType ==
  ASSUME IInv,
         \/ TaskStart \/ (\E l \in w.roots : TakeRoot(l)) \/ ReadTop \/ Ignore
         \/ Scan \/ ScanMember \/ CopyCheck \/ CopyAbort
  PROVE  TypeOK'
  <1>0. TypeOK /\ WorkerInv /\ ObjectInv /\ w \in WorkerState
    BY DEF IInv, TypeOK
  <1>1. UNCHANGED <<m_nexts, m_space_num, m_metadata, m_collect_result, tasks,
                    mem, th>>
    BY DEF TaskStart, TakeRoot, ReadTop, Ignore, Scan, ScanMember, CopyCheck,
           CopyAbort, Mutators
  <1>2. visited' = visited \/ visited' = <<>>
    BY DEF TaskStart, TakeRoot, ReadTop, Ignore, Scan, ScanMember, CopyCheck,
           CopyAbort
  <1>3. w' \in WorkerState
    <2>1. CASE TaskStart
      <3>1. Head(tasks) \in {0, 1}
        BY <1>0, <2>1 DEF TaskStart, TypeOK
      <3>2. Roots \in SUBSET Stack
        BY DEF Roots
      <3>3. QED
        BY <2>1, <3>1, <3>2, IdleType DEF TaskStart, WorkerState
    <2>2. CASE \E l \in w.roots : TakeRoot(l)
      <3>1. PICK l \in w.roots : TakeRoot(l)
        BY <2>2
      <3>2. l \in Location /\ w.roots \ {l} \in SUBSET Stack
        BY <1>0 DEF WorkerState, Location
      <3>3. (IF mem[l] \in Address THEN <<l>> ELSE <<>>) \in Seq(Location)
        BY <3>2
      <3>4. QED
        BY <1>0, <3>1, <3>2, <3>3 DEF TakeRoot, WorkerState
    <2>3. CASE ReadTop
      <3>1. Head(w.stack) \in Location /\ Tail(w.stack) \in Seq(Location)
        BY <1>0, <2>3 DEF ReadTop, WorkerState
      <3>2. QED
        BY <1>0, <2>3, <3>1 DEF ReadTop, WorkerState
    <2>4. CASE Ignore \/ Scan \/ CopyCheck \/ CopyAbort
      <3>1. CASE Scan
        <4>1. w' = [w EXCEPT !.pc = "scan", !.i = 0]
          BY <3>1 DEF Scan
        <4>2. QED
          BY <1>0, <4>1 DEF WorkerState
      <3>2. CASE Ignore \/ CopyCheck \/ CopyAbort
        <4>1. PICK p \in {"trace", "emplace", "aborted"} : w' = [w EXCEPT !.pc = p]
          BY <3>2 DEF Ignore, CopyCheck, CopyAbort
        <4>2. QED
          BY <1>0, <4>1 DEF WorkerState
      <3>3. QED
        BY <2>4, <3>1, <3>2
    <2>5. CASE ScanMember
      <3> DEFINE l == Cell(w.val, w.i)
      <3>1. l \in Location
        <4>1. /\ w.val \in Address /\ w.val[2] + old_data.size <= HeapSize
              /\ w.i + 1 < old_data.size /\ w.i \in Nat /\ old_data.size \in Nat
          BY <1>0, <2>5 DEF ScanMember, Scanning, WorkerInv, ObjectInv, TypeOK,
                            WorkerState, Moving, old_data, Metadata
        <4>2. QED
          BY <4>1, SizeAssumption DEF Cell, Location, Address
      <3>2. (IF mem[l] \in FatPtrs THEN <<l>> \o w.stack ELSE w.stack)
              \in Seq(Location)
        BY <1>0, <3>1 DEF WorkerState
      <3> HIDE DEF l
      <3>3. w.i + 1 \in Nat
        BY <1>0 DEF WorkerState
      <3>4. w' = [w EXCEPT !.i = w.i + 1,
                           !.stack = IF mem[l] \in FatPtrs THEN <<l>> \o w.stack
                                     ELSE w.stack]
        BY <2>5 DEF ScanMember, l
      <3>5. QED
        BY <1>0, <3>2, <3>3, <3>4 DEF WorkerState
    <2>6. QED
      BY <2>1, <2>2, <2>3, <2>4, <2>5
  <1>4. QED
    BY <1>0, <1>1, <1>2, <1>3 DEF TypeOK

(* Steps of the collection on the heap and the memory.                      *)
LEMMA HeapType ==
  ASSUME IInv,
         \/ Redirect \/ CopyReserve \/ CopyEmplace \/ CopyWord \/ Swing
         \/ EraseOld \/ Sweep \/ Finish
  PROVE  TypeOK'
  <1>0. TypeOK /\ WorkerInv /\ ObjectInv /\ w \in WorkerState
    BY DEF IInv, TypeOK
  <1>1. ASSUME w.pc \in Moving
        PROVE  /\ w.val \in Address /\ old_data \in Metadata
               /\ w.val \in DOMAIN m_metadata
               /\ old_data.size \in Nat /\ old_data.size > 0
               /\ w.val[2] + old_data.size <= HeapSize
    BY <1>0, <1>1 DEF WorkerInv, ObjectInv, TypeOK, old_data, Metadata
  <1>2. ASSUME NEW p \in Address PROVE Exchanged(p) \in [Location -> Value]
    BY <1>0, <1>2 DEF Exchanged, TypeOK, Value, FatPtrs
  <1>3. CASE Redirect
    <2>1. visited[w.val] \in Address
      BY <1>0, <1>3 DEF Redirect, TypeOK
    <2>2. mem' \in [Location -> Value]
      BY <1>2, <1>3, <2>1 DEF Redirect
    <2>3. w' \in WorkerState
      BY <1>0, <1>3 DEF Redirect, WorkerState
    <2>4. QED
      BY <1>0, <1>3, <2>2, <2>3 DEF Redirect, TypeOK, Mutators
  <1>4. CASE CopyReserve
    <2>1. w.pc \in Moving /\ w.to \in {0, 1}
      BY <1>0, <1>4 DEF CopyReserve, Moving, WorkerState
    <2>2. /\ At(w.to, old_data) \in Nat
          /\ End(w.to, old_data) \in 0 .. HeapSize
          /\ At(w.to, old_data) + old_data.size <= HeapSize
      BY <1>0, <1>1, <1>4, <2>1, Placed, SizeAssumption DEF CopyReserve
    <2>3. <<w.to, At(w.to, old_data)>> \in FatPtrs
      <3>1. At(w.to, old_data) \in 0 .. (HeapSize - 1)
        BY <1>1, <2>1, <2>2, SizeAssumption
      <3>2. QED
        BY <2>1, <3>1 DEF FatPtrs, Address
    <2>4. w' \in WorkerState
      BY <1>0, <1>4, <2>3 DEF CopyReserve, WorkerState
    <2>5. m_nexts' \in [{0, 1} -> 0 .. HeapSize]
      BY <1>0, <1>4, <2>2 DEF CopyReserve, TypeOK
    <2>6. QED
      BY <1>0, <1>4, <2>4, <2>5 DEF CopyReserve, TypeOK, Mutators
  <1>5. CASE CopyEmplace
    <2>1. w.pc \in Moving /\ w.new \in Address
      BY <1>0, <1>5 DEF CopyEmplace, Moving, WorkerInv
    <2>2. old_data \in Metadata
      BY <1>1, <2>1
    <2>3. m_metadata' = Emplaced(m_metadata, w.new, old_data)
      BY <1>5 DEF CopyEmplace
    <2> DEFINE r == old_data
    <2> HIDE DEF r
    <2>4. /\ DOMAIN m_metadata' \subseteq Address
          /\ \A o \in DOMAIN m_metadata' : m_metadata'[o] \in Metadata
      <3>1. m_metadata' = Emplaced(m_metadata, w.new, r) /\ r \in Metadata
        BY <2>2, <2>3 DEF r
      <3>2. QED
        BY <1>0, <2>1, <3>1 DEF Emplaced, TypeOK
    <2>5. w' \in WorkerState
      BY <1>0, <1>5 DEF CopyEmplace, WorkerState
    <2>6. QED
      BY <1>0, <1>5, <2>4, <2>5 DEF CopyEmplace, TypeOK, Mutators
  <1>6. CASE CopyWord
    <2>1. mem' \in [Location -> Value] /\ copied \in Nat
      BY <1>0, <1>6, CopyWordStep
    <2>2. w' \in WorkerState
      <3>1. PICK p \in {"swing", "copy"}, n \in Nat :
              w' = [w EXCEPT !.i = n, !.pc = p]
        BY <1>6, <2>1 DEF CopyWord
      <3>2. QED
        BY <1>0, <3>1 DEF WorkerState
    <2>3. QED
      BY <1>0, <1>6, <2>1, <2>2 DEF CopyWord, TypeOK, Mutators
  <1>7. CASE Swing
    <2>1. mem' \in [Location -> Value]
      BY <1>0, <1>2, <1>7 DEF Swing, WorkerInv, Moving
    <2>2. w' \in WorkerState
      BY <1>0, <1>7 DEF Swing, WorkerState
    <2>3. QED
      BY <1>0, <1>7, <2>1, <2>2 DEF Swing, TypeOK, Mutators
  <1>8. CASE EraseOld
    <2>1. w.val \in Address /\ w.new \in Address
      BY <1>0, <1>1, <1>8 DEF EraseOld, WorkerInv, Moving
    <2>2. /\ DOMAIN visited' \subseteq Address
          /\ \A o \in DOMAIN visited' : visited'[o] \in Address
      BY <1>0, <1>8, <2>1 DEF EraseOld, Emplaced, TypeOK
    <2>3. /\ DOMAIN m_metadata' \subseteq Address
          /\ \A o \in DOMAIN m_metadata' : m_metadata'[o] \in Metadata
      BY <1>0, <1>8 DEF EraseOld, Restrict, TypeOK
    <2>4. w' \in WorkerState
      BY <1>0, <1>8 DEF EraseOld, WorkerState
    <2>5. QED
      BY <1>0, <1>8, <2>2, <2>3, <2>4 DEF EraseOld, TypeOK, Mutators
  <1>9. CASE Sweep
    <2>1. /\ DOMAIN m_metadata' \subseteq Address
          /\ \A o \in DOMAIN m_metadata' : m_metadata'[o] \in Metadata
      BY <1>0, <1>9 DEF Sweep, Restrict, TypeOK
    <2>2. w' \in WorkerState
      BY <1>0, <1>9 DEF Sweep, WorkerState
    <2>3. QED
      BY <1>0, <1>9, <2>1, <2>2 DEF Sweep, TypeOK, Mutators
  <1>10. CASE Finish
    <2>1. th' \in [Threads -> ThreadState]
      BY <1>0, <1>10, ResumedType DEF Finish, TypeOK
    <2>2. tasks' \in Seq({0, 1})
      <3>1. tasks # <<>>
        BY <1>10 DEF Finish, IInv, SingleCollection
      <3>2. QED
        BY <1>0, <1>10, <3>1 DEF Finish, TypeOK
    <2>3. QED
      BY <1>0, <1>10, <2>1, <2>2, IdleType DEF Finish, TypeOK, heap
  <1>11. QED
    BY <1>3, <1>4, <1>5, <1>6, <1>7, <1>8, <1>9, <1>10

-----------------------------------------------------------------------------
(* The part of ThreadInv that is about one thread.                          *)
ThreadOK(x) ==
  /\ (x.pc \in {"reserve", "retry", "emplace"} \/ x.ret = "retry")
       => x.req.size > 0
  /\ x.pc = "emplace" => x.ptr \in Address /\ x.ptr[2] + x.req.size <= MaxAlloc
  /\ x.pc = "idle" => x.ret = "idle"

(* Returning from collect, by itself or when the future becomes ready.      *)
LEMMA ResumedOK ==
  ASSUME NEW x \in ThreadState, ThreadOK(x)
  PROVE  ThreadOK(Resumed(x)) /\ ThreadOK(Woken(x))
  <1>1. ThreadOK(IdleThread)
    BY DEF ThreadOK, IdleThread
  <1>2. ThreadOK(Resumed(x))
    BY <1>1 DEF Resumed, ThreadOK, ThreadState
  <1>3. ThreadOK([x EXCEPT !.pc = "collect"])
    BY DEF ThreadOK, ThreadState
  <1>4. QED
    BY <1>2, <1>3 DEF Woken

(* A step of a mutator leaves it with a request it may reserve room for, or *)
(* with a reservation below the limit.                                      *)
LEMMA MutatorThread ==
  ASSUME IInv, NEW t \in Threads, Mutator(t)
  PROVE  ThreadOK(th'[t]) /\ \A s \in Threads \ {t} : th'[s] = th[s]
  <1>0. TypeOK /\ ThreadOK(th[t]) /\ th[t] \in ThreadState
        /\ th \in [Threads -> ThreadState]
    BY DEF IInv, ThreadInv, ThreadOK, TypeOK
  <1>1. ThreadOK(IdleThread)
    BY DEF ThreadOK, IdleThread
  <1>2. CASE \E r \in Requests : CallAlloc(t, r)
    <2>1. PICK r \in Requests : CallAlloc(t, r)
      BY <1>2
    <2> DEFINE p == IF FrontEnd THEN "front" ELSE Entry(r)
    <2>2. th' = [th EXCEPT ![t] = [th[t] EXCEPT !.req = r, !.pc = p]]
          /\ th[t].pc = "idle"
      BY <1>0, <2>1 DEF CallAlloc, ThreadState
    <2>3. p \in {"front", "bad_alloc", "reserve"} /\ (p = "reserve" => r.size > 0)
      BY <2>1, RequestAssumption DEF Entry, Metadata
    <2> HIDE DEF p
    <2>4. QED
      BY <1>0, <2>2, <2>3 DEF ThreadOK, ThreadState
  <1>3. CASE CallCollect(t) \/ CollectLoop(t)
    BY <1>0, <1>3 DEF CallCollect, CollectLoop, ThreadOK, ThreadState
  <1>4. CASE FrontCheck(t)
    <2>1. th[t].req.size \in Nat
      BY <1>0, RequestType
    <2>2. Entry(th[t].req) \in {"bad_alloc", "reserve"}
          /\ (Entry(th[t].req) = "reserve" => th[t].req.size > 0)
      BY <2>1 DEF Entry
    <2>3. QED
      BY <1>0, <1>4, <2>2 DEF FrontCheck, ThreadOK, ThreadState
  <1>5. CASE Reserve(t)
    <2> DEFINE p == <<m_space_num, At(m_space_num, th[t].req)>>
    <2>1. th[t].req \in Metadata /\ th[t].req.size > 0
      BY <1>0, <1>5, RequestType DEF Reserve, ThreadOK
    <2>2. /\ At(m_space_num, th[t].req) \in Nat
          /\ At(m_space_num, th[t].req) + th[t].req.size <= MaxAlloc
      BY <1>0, <1>5, <2>1, Placed, SizeAssumption DEF Reserve, TypeOK
    <2>3. p \in Address /\ p[2] + th[t].req.size <= MaxAlloc
      <3>1. At(m_space_num, th[t].req) \in 0 .. (HeapSize - 1)
        BY <2>1, <2>2, SizeAssumption DEF Metadata
      <3>2. QED
        BY <1>0, <2>2, <3>1 DEF Address, TypeOK
    <2> HIDE DEF p
    <2>4. \/ th' = [th EXCEPT ![t] = [th[t] EXCEPT !.pc = "heap_corruption"]]
          \/ th' = [th EXCEPT ![t] = [th[t] EXCEPT !.pc = "emplace", !.ptr = p]]
      BY <1>0, <1>5 DEF Reserve, ThreadState, p
    <2>5. ThreadOK([th[t] EXCEPT !.pc = "heap_corruption"])
      BY <1>0 DEF ThreadOK, ThreadState
    <2>6. ThreadOK([th[t] EXCEPT !.pc = "emplace", !.ptr = p])
      BY <1>0, <2>1, <2>3 DEF ThreadOK, ThreadState
    <2>7. QED
      BY <1>0, <2>4, <2>5, <2>6
  <1>6. CASE NoRoom(t)
    BY <1>0, <1>6 DEF NoRoom, ThreadOK, ThreadState
  <1>7. CASE Emplace(t)
    BY <1>0, <1>7 DEF Emplace, ThreadOK, ThreadState
  <1>8. CASE \/ \E k \in Slots, v \in Fresh : Construct(t, k, v)
             \/ Catch(t) \/ Use(t)
    <2>1. th' = [th EXCEPT ![t] = IdleThread]
      BY <1>8 DEF Construct, Catch, Use, StorePtr, WriteData, WriteField
    <2>2. QED
      BY <1>0, <1>1, <2>1
  <1>9. CASE StartCollection(t)
    <2>1. ThreadOK([th[t] EXCEPT !.pc = "inline"])
      BY <1>0 DEF ThreadOK, ThreadState
    <2>2. th' = [th EXCEPT ![t] = IF Serial THEN [th[t] EXCEPT !.pc = "inline"]
                                  ELSE Resumed(th[t])]
      BY <1>0, <1>9 DEF StartCollection
    <2>3. QED
      BY <1>0, <2>1, <2>2, ResumedOK
  <1>10. CASE SkipCollection(t)
    BY <1>0, <1>10, ResumedOK DEF SkipCollection
  <1>11. CASE \E k \in Slots : LoadPtr(t, k)
    <2>1. PICK k \in Slots : LoadPtr(t, k)
      BY <1>11
    <2> DEFINE p == mem[<<t, k>>]
    <2>2. th' = [th EXCEPT ![t] = [th[t] EXCEPT !.pc = "use", !.ptr = p]]
      BY <1>0, <2>1 DEF LoadPtr, ThreadState
    <2> HIDE DEF p
    <2>3. ThreadOK([th[t] EXCEPT !.pc = "use", !.ptr = p])
      BY <1>0 DEF ThreadOK, ThreadState
    <2>4. QED
      BY <1>0, <2>2, <2>3
  <1>12. CASE \E k \in Slots : ClearSlot(t, k)
    BY <1>0, <1>12 DEF ClearSlot
  <1>13. QED
    BY <1>2, <1>3, <1>4, <1>5, <1>6, <1>7, <1>8, <1>9, <1>10, <1>11, <1>12
       DEF Mutator, Call

(* No step lets a mutator hold a reservation or a request it may not have.  *)
LEMMA ThreadStep ==
  ASSUME IInv, [Next]_vars
  PROVE  ThreadInv'
  <1>0. /\ \A t \in Threads : ThreadOK(th[t])
        /\ th \in [Threads -> ThreadState]
    BY DEF IInv, ThreadInv, ThreadOK, TypeOK
  <1>1. \A t \in Threads : ThreadOK(th'[t])
    <2>1. CASE \E t \in Threads : Mutator(t)
      BY <1>0, <2>1, MutatorThread
    <2>2. CASE Finish
      BY <1>0, <2>2, ResumedOK DEF Finish
    <2>3. CASE UNCHANGED th
      BY <1>0, <2>3
    <2>4. Collection => Finish \/ UNCHANGED th
      BY DEF Collection, TaskStart, TakeRoot, ReadTop, Redirect, Ignore, Scan,
             ScanMember, CopyReserve, CopyCheck, CopyEmplace, CopyAbort,
             CopyWord, Swing, EraseOld, Sweep, Mutators
    <2>5. QED
      BY <2>1, <2>2, <2>3, <2>4 DEF Next, vars
  <1>2. QED
    BY <1>1 DEF ThreadInv, ThreadOK

(* Mutators add objects and never remove or resize one.                     *)
LEMMA MutatorObjects ==
  ASSUME IInv, NEW t \in Threads, Mutator(t)
  PROVE  ObjectInv' /\ WorkerInv'
  <1>0. TypeOK /\ ThreadInv /\ ObjectInv /\ WorkerInv
    BY DEF IInv
  <1>1. UNCHANGED w
    BY DEF Mutator, Call, Use, CallAlloc, CallCollect, FrontCheck, Reserve,
           NoRoom, Emplace, Construct, Catch, CollectLoop, StartCollection,
           SkipCollection, LoadPtr, ClearSlot, StorePtr, WriteField, WriteData,
           Uses, collection
  <1>2. CASE UNCHANGED m_metadata
    BY <1>0, <1>1, <1>2 DEF ObjectInv, WorkerInv
  <1>3. CASE Emplace(t)
    <2> DEFINE p == th[t].ptr  r == th[t].req
    <2>1. r.size > 0 /\ p[2] + r.size <= MaxAlloc /\ r.size \in Nat /\ p \in Address
      BY <1>0, <1>3, RequestType DEF Emplace, ThreadInv
    <2>2. p[2] + r.size <= HeapSize
      BY <2>1, SizeAssumption DEF Address
    <2>3. m_metadata' = Emplaced(m_metadata, p, r)
      BY <1>3 DEF Emplace
    <2> HIDE DEF p, r
    <2>4. ObjectInv'
      BY <1>0, <2>1, <2>2, <2>3 DEF ObjectInv, Emplaced
    <2>5. WorkerInv'
      BY <1>0, <1>1, <2>3 DEF WorkerInv, Moving, Emplaced
    <2>6. QED
      BY <2>4, <2>5
  <1>4. Emplace(t) \/ UNCHANGED m_metadata
    BY DEF Mutator, Call, Use, CallAlloc, CallCollect, FrontCheck, Reserve,
           NoRoom, Construct, Catch, CollectLoop, StartCollection,
           SkipCollection, LoadPtr, ClearSlot, StorePtr, WriteField, WriteData,
           Uses, heap
  <1>5. QED
    BY <1>2, <1>3, <1>4

(* The collection removes an object only after it has been moved.           *)
LEMMA CollectionObjects ==
  ASSUME IInv, Collection
  PROVE  ObjectInv' /\ WorkerInv'
  <1>0. TypeOK /\ ObjectInv /\ WorkerInv /\ w \in WorkerState
    BY DEF IInv, TypeOK
  <1>1. CASE \/ TaskStart \/ (\E l \in w.roots : TakeRoot(l)) \/ ReadTop
             \/ Redirect \/ Ignore \/ CopyAbort \/ Finish
    <2>1. UNCHANGED m_metadata
      BY <1>1 DEF TaskStart, TakeRoot, ReadTop, Redirect, Ignore, CopyAbort,
                  Finish, heap
    <2>2. w'.pc \notin Moving
      <3>1. CASE TaskStart \/ Finish
        <4>1. TaskStart => w'.pc = "trace"
          BY DEF TaskStart, IdleWorker
        <4>2. Finish => w'.pc = "idle"
          BY DEF Finish, IdleWorker
        <4>3. QED
          BY <3>1, <4>1, <4>2 DEF Moving
      <3>2. CASE (\E l \in w.roots : TakeRoot(l)) \/ ReadTop
        BY <1>0, <3>2 DEF TakeRoot, ReadTop, Moving, WorkerState
      <3>3. CASE Redirect \/ Ignore \/ CopyAbort
        BY <1>0, <3>3 DEF Redirect, Ignore, CopyAbort, Moving, WorkerState
      <3>4. QED
        BY <1>1, <3>1, <3>2, <3>3
    <2>3. QED
      BY <1>0, <2>1, <2>2 DEF ObjectInv, WorkerInv, Moving
  <1>2. CASE Scan
    <2>1. w' = [w EXCEPT !.pc = "scan", !.i = 0] /\ UNCHANGED m_metadata
      BY <1>2 DEF Scan
    <2>2. QED
      BY <1>0, <1>2, <2>1 DEF Scan, Managed, ObjectInv, WorkerInv, Moving,
                              WorkerState
  <1>3. CASE ScanMember
    <2>1. w'.pc = "scan" /\ w'.val = w.val /\ w'.to = w.to /\ UNCHANGED m_metadata
      BY <1>0, <1>3 DEF ScanMember, WorkerState
    <2>2. QED
      BY <1>0, <1>3, <2>1 DEF ScanMember, ObjectInv, WorkerInv, Moving
  <1>4. CASE CopyReserve
    <2>1. <<w.to, At(w.to, old_data)>> \in Address
      <3>1. old_data \in Metadata /\ old_data.size > 0 /\ w.to \in {0, 1}
        BY <1>0, <1>4 DEF CopyReserve, WorkerInv, ObjectInv, TypeOK, old_data,
                          Moving, WorkerState
      <3>2. /\ At(w.to, old_data) \in Nat
            /\ At(w.to, old_data) + old_data.size <= HeapSize
        BY <1>0, <1>4, <3>1, Placed, SizeAssumption DEF CopyReserve
      <3>3. At(w.to, old_data) \in 0 .. (HeapSize - 1)
        BY <3>1, <3>2, SizeAssumption DEF Metadata
      <3>4. QED
        BY <3>1, <3>3 DEF Address
    <2>2. /\ w'.pc = "check" /\ w'.val = w.val /\ w'.to = w.to
          /\ w'.new = <<w.to, At(w.to, old_data)>> /\ UNCHANGED m_metadata
      BY <1>0, <1>4 DEF CopyReserve, WorkerState
    <2>3. QED
      BY <1>0, <1>4, <2>1, <2>2 DEF CopyReserve, ObjectInv, WorkerInv, Moving
  <1>5. CASE CopyCheck \/ Swing
    <2>1. /\ w'.pc \in {"emplace", "erase"} /\ w'.val = w.val /\ w'.to = w.to
          /\ w'.new = w.new /\ UNCHANGED m_metadata
      BY <1>0, <1>5 DEF CopyCheck, Swing, WorkerState
    <2>2. QED
      BY <1>0, <1>5, <2>1 DEF CopyCheck, Swing, ObjectInv, WorkerInv, Moving
  <1>6. CASE CopyEmplace
    <2> DEFINE r == old_data
    <2>1. /\ w.val \in DOMAIN m_metadata /\ w.val[1] # w.to /\ w.new \in Address
          /\ r.size > 0 /\ r.size \in Nat
      BY <1>0, <1>6 DEF CopyEmplace, WorkerInv, ObjectInv, TypeOK, old_data,
                        Moving, Metadata
    <2>2. w.new[2] + r.size <= HeapSize
      BY <1>6, <2>1, SizeAssumption DEF CopyEmplace, Address
    <2>3. m_metadata' = Emplaced(m_metadata, w.new, r)
      BY <1>6 DEF CopyEmplace
    <2>4. /\ w'.pc = "copy" /\ w'.val = w.val /\ w'.to = w.to /\ w'.new = w.new
          /\ w'.i = 0
      BY <1>0, <1>6 DEF CopyEmplace, WorkerState
    <2>5. r = m_metadata[w.val]
      BY DEF old_data
    <2> HIDE DEF r
    <2>6. ObjectInv'
      BY <1>0, <2>1, <2>2, <2>3 DEF ObjectInv, Emplaced
    <2>7. m_metadata'[w.val] = r /\ w.val \in DOMAIN m_metadata'
      BY <2>1, <2>3, <2>5 DEF Emplaced
    <2>8. WorkerInv'
      BY <2>1, <2>4, <2>7 DEF WorkerInv, Moving
    <2>9. QED
      BY <2>6, <2>8
  <1>7. CASE CopyWord
    <2>1. PICK n : n = copied
      OBVIOUS
    <2>2. /\ w' = [w EXCEPT !.i = n,
                            !.pc = IF n < old_data.size THEN "copy" ELSE "swing"]
          /\ UNCHANGED m_metadata
          /\ w.val \in DOMAIN m_metadata /\ w.val[1] # w.to /\ w.new \in Address
      BY <1>0, <1>7, <2>1, CopyWordStep
    <2>3. /\ w'.val = w.val /\ w'.to = w.to /\ w'.new = w.new
          /\ w'.pc \in {"copy", "swing"}
          /\ w'.pc = "copy" => w'.i < m_metadata'[w'.val].size
      BY <1>0, <2>2 DEF WorkerState, old_data
    <2>4. QED
      BY <1>0, <2>2, <2>3 DEF ObjectInv, WorkerInv, Moving
  <1>8. CASE EraseOld \/ Sweep
    <2>1. /\ DOMAIN m_metadata' \subseteq DOMAIN m_metadata
          /\ \A o \in DOMAIN m_metadata' : m_metadata'[o] = m_metadata[o]
      BY <1>8 DEF EraseOld, Sweep, Restrict
    <2>2. w'.pc \notin Moving
      BY <1>0, <1>8 DEF EraseOld, Sweep, Moving, WorkerState
    <2>3. QED
      BY <1>0, <2>1, <2>2 DEF ObjectInv, WorkerInv, Moving
  <1>9. QED
    BY <1>1, <1>2, <1>3, <1>4, <1>5, <1>6, <1>7, <1>8 DEF Collection

(* The flag under the lock keeps collections apart: starting one needs the  *)
(* queue to be empty, and only its end makes the future ready again.        *)
LEMMA ProtocolStep ==
  ASSUME IInv, [Next]_vars
  PROVE  SingleCollection' /\ InactiveSpaceReset'
  <1>0. /\ TypeOK /\ SingleCollection /\ InactiveSpaceReset
        /\ w \in WorkerState /\ m_space_num \in {0, 1}
        /\ m_nexts \in [{0, 1} -> 0 .. HeapSize]
    BY DEF IInv, TypeOK
  <1>1. ASSUME NEW t \in Threads, Mutator(t)
        PROVE  SingleCollection' /\ InactiveSpaceReset'
    <2>1. CASE StartCollection(t)
      <3>1. /\ tasks = <<>> /\ w.pc = "idle" /\ UNCHANGED w
            /\ m_space_num' = 1 - m_space_num /\ m_collect_result' = "pending"
        BY <1>0, <2>1 DEF StartCollection, MayStart, SingleCollection, collection
      <3>2. tasks' = <<m_space_num'>>
        BY <2>1, <3>1 DEF StartCollection
      <3>3. m_nexts'[m_space_num] = 0 /\ 1 - m_space_num' = m_space_num
        BY <1>0, <2>1, <3>1 DEF StartCollection, NextsAfterFlip
      <3>4. QED
        BY <3>1, <3>2, <3>3 DEF SingleCollection, InactiveSpaceReset
    <2>2. CASE Reserve(t)
      <3>1. /\ m_nexts'[1 - m_space_num] = m_nexts[1 - m_space_num]
            /\ UNCHANGED <<m_space_num, m_collect_result, tasks, w>>
        BY <1>0, <2>2 DEF Reserve, collection
      <3>2. QED
        BY <1>0, <3>1 DEF SingleCollection, InactiveSpaceReset
    <2>3. \/ StartCollection(t) \/ Reserve(t)
          \/ UNCHANGED <<m_nexts, m_space_num, m_collect_result, tasks, w>>
      BY <1>1 DEF Mutator, Call, Use, CallAlloc, CallCollect, FrontCheck,
             NoRoom, Emplace, Construct, Catch, CollectLoop, SkipCollection,
             LoadPtr, ClearSlot, StorePtr, WriteField, WriteData, Uses,
             collection, heap
    <2>4. QED
      BY <1>0, <2>1, <2>2, <2>3 DEF SingleCollection, InactiveSpaceReset
  <1>2. CASE TaskStart
    <2>1. /\ w'.pc = "trace" /\ w'.to = Head(tasks)
          /\ UNCHANGED <<m_nexts, m_space_num, m_collect_result, tasks>>
      BY <1>2 DEF TaskStart, IdleWorker, Mutators
    <2>2. m_collect_result = "pending" /\ tasks = <<m_space_num>>
      BY <1>0, <1>2 DEF TaskStart, SingleCollection
    <2>3. Head(tasks) = m_space_num
      BY <2>2
    <2>4. QED
      BY <1>0, <2>1, <2>2, <2>3 DEF SingleCollection, InactiveSpaceReset
  <1>3. CASE Finish
    <2>1. tasks = <<m_space_num>>
      BY <1>0, <1>3 DEF Finish, SingleCollection
    <2>2. tasks' = <<>>
      BY <1>3, <2>1 DEF Finish
    <2>3. /\ m_collect_result' = "ready" /\ w'.pc = "idle"
          /\ UNCHANGED <<m_nexts, m_space_num>>
      BY <1>3 DEF Finish, IdleWorker, heap
    <2>4. QED
      BY <1>0, <2>2, <2>3 DEF SingleCollection, InactiveSpaceReset
  <1>4. CASE CopyReserve
    <2>1. w.to = m_space_num /\ w'.to = w.to /\ w'.pc = "check" /\ w.pc = "scan"
      BY <1>0, <1>4 DEF CopyReserve, SingleCollection, WorkerState
    <2>2. /\ m_nexts'[1 - m_space_num] = m_nexts[1 - m_space_num]
          /\ UNCHANGED <<m_space_num, m_collect_result, tasks>>
      BY <1>0, <1>4, <2>1 DEF CopyReserve, Mutators
    <2>3. QED
      BY <1>0, <2>1, <2>2 DEF SingleCollection, InactiveSpaceReset
  <1>5. CASE \/ (\E l \in w.roots : TakeRoot(l)) \/ ReadTop \/ Redirect
             \/ Ignore \/ Scan \/ ScanMember \/ CopyCheck \/ CopyEmplace
             \/ CopyAbort \/ CopyWord \/ Swing \/ EraseOld \/ Sweep
    <2>1. UNCHANGED <<m_nexts, m_space_num, m_collect_result, tasks>>
      BY <1>5 DEF TakeRoot, ReadTop, Redirect, Ignore, Scan, ScanMember,
                  CopyCheck, CopyEmplace, CopyAbort, CopyWord, Swing, EraseOld,
                  Sweep, Mutators
    <2>2. w'.to = w.to /\ w.pc # "idle"
      BY <1>0, <1>5
         DEF TakeRoot, ReadTop, Redirect, Ignore, Scan, ScanMember, CopyCheck,
             CopyEmplace, CopyAbort, CopyWord, Swing, EraseOld, Sweep,
             WorkerState
    <2>3. QED
      BY <1>0, <2>1, <2>2 DEF SingleCollection, InactiveSpaceReset
  <1>6. CASE UNCHANGED vars
    BY <1>0, <1>6 DEF vars, SingleCollection, InactiveSpaceReset
  <1>7. QED
    BY <1>1, <1>2, <1>3, <1>4, <1>5, <1>6 DEF Next, Collection

-----------------------------------------------------------------------------
(* Every step preserves the inductive invariant.                            *)
LEMMA StepIInv == IInv /\ [Next]_vars => IInv'
  <1> SUFFICES ASSUME IInv, [Next]_vars PROVE IInv'
    OBVIOUS
  <1>1. ThreadInv' /\ SingleCollection' /\ InactiveSpaceReset'
    BY ThreadStep, ProtocolStep
  <1>2. TypeOK'
    <2>1. CASE Next
      BY <2>1, MutatorType, LocalType, HeapType DEF Next, Collection
    <2>2. CASE UNCHANGED vars
      BY <2>2 DEF vars, IInv, TypeOK
    <2>3. QED
      BY <2>1, <2>2
  <1>3. ObjectInv' /\ WorkerInv'
    <2>1. CASE Next
      BY <2>1, MutatorObjects, CollectionObjects DEF Next
    <2>2. CASE UNCHANGED vars
      BY <2>2 DEF vars, IInv, ObjectInv, WorkerInv
    <2>3. QED
      BY <2>1, <2>2
  <1>4. QED
    BY <1>1, <1>2, <1>3 DEF IInv

(* The invariant of the collector for every heap, request set and policy.   *)
THEOREM Invariance == Spec => []IInv
  BY InitIInv, StepIInv, PTL DEF Spec

(* Every reservation stays in its space and every pointer, object and       *)
(* queue entry has its type, for every heap size and number of mutators.    *)
THEOREM TypeCorrect == Spec => []TypeOK
  <1>1. IInv => TypeOK
    BY DEF IInv
  <1>2. QED
    BY <1>1, Invariance, PTL

(* Two collections never run or wait at the same time, however many         *)
(* mutators call collect: the second look at the future, under the lock,    *)
(* is enough.                                                               *)
THEOREM OneCollection == Spec => []SingleCollection
  <1>1. IInv => SingleCollection
    BY DEF IInv
  <1>2. QED
    BY <1>1, Invariance, PTL

(* A flip always leads into a space whose reservations start at its first   *)
(* cell, whatever was reserved between the flips.                           *)
THEOREM InactiveReset == Spec => []InactiveSpaceReset
  <1>1. IInv => InactiveSpaceReset
    BY DEF IInv
  <1>2. QED
    BY <1>1, Invariance, PTL

(* A step of the collection or of a mutator never drops an object of the    *)
(* space in use.                                                            *)
LEMMA SpaceKept ==
  IInv /\ [Next]_vars =>
    \A o \in DOMAIN m_metadata : o[1] = m_space_num => o \in DOMAIN m_metadata'
  <1> SUFFICES ASSUME IInv, [Next]_vars, NEW o \in DOMAIN m_metadata,
                      o[1] = m_space_num
               PROVE  o \in DOMAIN m_metadata'
    OBVIOUS
  <1>0. TypeOK /\ WorkerInv /\ SingleCollection
    BY DEF IInv
  <1>1. CASE UNCHANGED m_metadata
    BY <1>1
  <1>2. CASE (\E t \in Threads : Emplace(t)) \/ CopyEmplace
    <2>1. PICK k, v : m_metadata' = Emplaced(m_metadata, k, v)
      BY <1>2 DEF Emplace, CopyEmplace
    <2>2. QED
      BY <2>1 DEF Emplaced
  <1>3. CASE EraseOld
    <2>1. w.val[1] # m_space_num
      BY <1>0, <1>3 DEF EraseOld, WorkerInv, Moving, SingleCollection
    <2>2. DOMAIN m_metadata' = DOMAIN m_metadata \ {w.val}
      BY <1>3 DEF EraseOld, Restrict
    <2>3. QED
      BY <2>1, <2>2
  <1>4. CASE Sweep
    <2>1. w.to = m_space_num
      BY <1>0, <1>4 DEF Sweep, SingleCollection
    <2>2. Survives(o)
      BY <2>1 DEF Survives
    <2>3. DOMAIN m_metadata' = {p \in DOMAIN m_metadata : Survives(p)}
      BY <1>4 DEF Sweep, Restrict
    <2>4. QED
      BY <2>2, <2>3
  <1>5. \/ UNCHANGED m_metadata \/ (\E t \in Threads : Emplace(t))
        \/ CopyEmplace \/ EraseOld \/ Sweep
    BY DEF Next, Mutator, Call, Use, CallAlloc, CallCollect, FrontCheck,
           Reserve, NoRoom, Construct, Catch, CollectLoop, StartCollection,
           SkipCollection, LoadPtr, ClearSlot, StorePtr, WriteField, WriteData,
           Uses, heap, Collection, TaskStart, TakeRoot, ReadTop, Redirect,
           Ignore, Scan, ScanMember, CopyReserve, CopyCheck, CopyAbort,
           CopyWord, Swing, Finish, vars
  <1>6. QED
    BY <1>1, <1>2, <1>3, <1>4, <1>5

(* The collector never drops an object of the space the mutators allocate   *)
(* in: objects allocated during a collection, by any number of mutators,    *)
(* outlive it.                                                              *)
THEOREM CurrentSpace == Spec => CurrentSpaceKept
  BY Invariance, SpaceKept, PTL DEF Spec, CurrentSpaceKept
=============================================================================
