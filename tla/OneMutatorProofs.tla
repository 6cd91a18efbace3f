-------------------------- MODULE OneMutatorProofs --------------------------
(***************************************************************************)
(* Proofs about the collector beside a single mutator, for either locking  *)
(* policy, any heap, requests and operations.                              *)
(***************************************************************************)
EXTENDS CopyingCollectorProofs

USE DEF contains, get_space_num, flip_space

OneMutator == \A s, t \in Threads : s = t

(* n cells at p and m cells at q have none in common. *)
Apart(p, n, q, m) == p[1] = q[1] => p[2] + n <= q[2] \/ q[2] + m <= p[2]

(* No managed object has one of the n cells at p. *)
ClearOf(p, n) == \A o \in DOMAIN m_metadata : Apart(o, m_metadata[o].size, p, n)

(* What a mutator and the collection have reserved and not yet entered into *)
(* m_metadata lies below the next free index of the space in use, and apart *)
(* from each other.  What has been checked for overlaps stays apart from    *)
(* every object.                                                            *)
PendingInv ==
  /\ \A t \in Threads : th[t].pc = "emplace" =>
       /\ th[t].ptr[1] = m_space_num
       /\ th[t].ptr[2] + th[t].req.size <= m_nexts[m_space_num]
       /\ ClearOf(th[t].ptr, th[t].req.size)
       /\ w.pc \in {"check", "emplace"} =>
            Apart(th[t].ptr, th[t].req.size, w.new, old_data.size)
  /\ w.pc \in {"check", "emplace"} =>
       /\ w.new[1] = w.to
       /\ w.new[2] + old_data.size <= m_nexts[w.to]
  /\ w.pc = "emplace" => ClearOf(w.new, old_data.size)

(* What has been moved is gone from the old space, and its copy is managed  *)
(* in the new one.                                                          *)
MovedInv ==
  /\ w.pc = "idle" => visited = <<>>
  /\ \A o \in DOMAIN visited :
       /\ o[1] # w.to /\ o \notin DOMAIN m_metadata
       /\ visited[o][1] = w.to /\ visited[o] \in DOMAIN m_metadata
  /\ w.pc \in {"copy", "swing", "erase"} =>
       /\ w.new[1] = w.to /\ w.new \in DOMAIN m_metadata
       /\ m_metadata[w.new] = old_data

DInv == PendingInv /\ MetadataDisjoint /\ MovedInv /\ OldSpaceEmptied

-----------------------------------------------------------------------------
(* The collection works in the space in use.                                *)
LEMMA WorkerType ==
  ASSUME IInv
  PROVE  /\ w \in WorkerState
         /\ w.pc # "idle" => w.to = m_space_num
         /\ m_space_num \in {0, 1}
         /\ m_nexts[m_space_num] \in 0 .. HeapSize
         /\ \A o \in DOMAIN m_metadata :
              /\ o \in Address /\ o[1] \in {0, 1} /\ o[2] \in Nat
              /\ m_metadata[o] \in Metadata
              /\ m_metadata[o].size \in Nat /\ m_metadata[o].size > 0
         /\ w.pc \in Moving =>
              /\ w.val \in DOMAIN m_metadata /\ w.val[1] # w.to
              /\ old_data \in Metadata
              /\ old_data.size \in Nat /\ old_data.size > 0
         /\ w.pc \in Moving \ {"scan"} => w.new \in Address /\ w.new[2] \in Nat
  BY SizeAssumption DEF IInv, TypeOK, SingleCollection, ObjectInv, WorkerInv,
     Metadata, Address, old_data, Moving

(* An object that does not overlap is apart from every other, and new.      *)
LEMMA Unmanaged ==
  ASSUME IInv, NEW p \in Address, NEW n \in Nat, n > 0
  PROVE  /\ ~ Overlaps(p, n) <=> ClearOf(p, n)
         /\ ClearOf(p, n) => p \notin DOMAIN m_metadata
  <1>1. p[2] \in Nat
    BY SizeAssumption DEF Address
  <1>2. ASSUME NEW o \in DOMAIN m_metadata
        PROVE  /\ (\/ o[2] <= p[2] /\ o[2] + m_metadata[o].size > p[2]
                   \/ p[2] <= o[2] /\ p[2] + n > o[2])
                 <=> ~ (o[2] + m_metadata[o].size <= p[2] \/ p[2] + n <= o[2])
    BY <1>1, WorkerType
  <1>3. ~ Overlaps(p, n) <=> ClearOf(p, n)
    BY <1>2 DEF Overlaps, ClearOf, Apart
  <1>4. ASSUME ClearOf(p, n), p \in DOMAIN m_metadata PROVE FALSE
    BY <1>1, <1>4, WorkerType DEF ClearOf, Apart
  <1>5. QED
    BY <1>3, <1>4

(* A reservation begins where the last one ended or behind it.              *)
LEMMA NotBefore ==
  ASSUME TypeOK, NEW s \in {0, 1}, NEW r \in Metadata
  PROVE  At(s, r) \in Nat /\ At(s, r) >= m_nexts[s]
  <1>1. m_nexts[s] \in Nat /\ r.align \in Nat \ {0}
    BY SizeAssumption DEF TypeOK, Metadata
  <1>2. m_nexts[s] % r.align \in 0 .. (r.align - 1)
    BY <1>1
  <1>3. QED
    BY <1>1, <1>2 DEF At, Padding

(* Steps of a mutator that neither reserve, enter an object nor flip.       *)
LEMMA NothingPlaced ==
  ASSUME IInv, DInv, UNCHANGED <<m_nexts, m_space_num, m_metadata, w, visited>>,
         \A u \in Threads : th'[u].pc = "emplace" => th'[u] = th[u]
  PROVE  DInv'
  <1>1. PendingInv'
    BY DEF DInv, PendingInv, ClearOf, old_data
  <1>2. MetadataDisjoint' /\ MovedInv' /\ OldSpaceEmptied'
    BY DEF DInv, MetadataDisjoint, MovedInv, OldSpaceEmptied, old_data
  <1>3. QED
    BY <1>1, <1>2 DEF DInv

(* A mutator that neither reserves, enters an object nor starts a           *)
(* collection leaves the spaces and the collection alone.                   *)
LEMMA OtherMutatorSteps ==
  ASSUME IInv, NEW t \in Threads, Mutator(t),
         ~ Reserve(t), ~ Emplace(t), ~ StartCollection(t)
  PROVE  /\ UNCHANGED <<m_nexts, m_space_num, m_metadata, w, visited>>
         /\ \A u \in Threads : th'[u].pc = "emplace" => th'[u] = th[u]
  <1>0. th \in [Threads -> ThreadState]
    BY DEF IInv, TypeOK
  <1>1. UNCHANGED <<m_nexts, m_space_num, m_metadata, w, visited>>
    BY DEF Mutator, Call, Use, CallAlloc, CallCollect, FrontCheck, NoRoom,
           Construct, Catch, CollectLoop, SkipCollection, LoadPtr, ClearSlot,
           StorePtr, WriteField, WriteData, Uses, collection, heap
  <1> SUFFICES \A u \in Threads : th'[u].pc = "emplace" => th'[u] = th[u]
    BY <1>1
  <1>2. ASSUME NEW x, th' = [th EXCEPT ![t] = x], x.pc # "emplace"
        PROVE  \A u \in Threads : th'[u].pc = "emplace" => th'[u] = th[u]
    BY <1>0, <1>2
  <1>3. CASE (\E r \in Requests : CallAlloc(t, r)) \/ CallCollect(t)
    <2>1. CASE CallCollect(t)
      BY <1>0, <2>1 DEF CallCollect, ThreadState
    <2>2. CASE \E r \in Requests : CallAlloc(t, r)
      <3>1. PICK r \in Requests : CallAlloc(t, r)
        BY <2>2
      <3> DEFINE p == IF FrontEnd THEN "front" ELSE Entry(r)
      <3>2. p # "emplace"
        BY DEF Entry
      <3>3. th' = [th EXCEPT ![t] = [th[t] EXCEPT !.req = r, !.pc = p]]
        BY <1>0, <3>1 DEF CallAlloc, ThreadState
      <3> HIDE DEF p
      <3>4. [th[t] EXCEPT !.req = r, !.pc = p].pc # "emplace"
        BY <1>0, <3>2 DEF ThreadState
      <3>5. QED
        BY <1>2, <3>3, <3>4
    <2>3. QED
      BY <1>3, <2>1, <2>2
  <1>4. CASE FrontCheck(t) \/ NoRoom(t) \/ CollectLoop(t)
    BY <1>0, <1>4 DEF FrontCheck, NoRoom, CollectLoop, Entry, ThreadState
  <1>5. CASE \/ \E k \in Slots, v \in Fresh : Construct(t, k, v)
             \/ Catch(t) \/ Use(t)
    <2>1. th' = [th EXCEPT ![t] = IdleThread] /\ IdleThread.pc # "emplace"
      BY <1>5 DEF Construct, Catch, Use, StorePtr, WriteData, WriteField,
                  IdleThread
    <2>2. QED
      BY <1>2, <2>1
  <1>6. CASE SkipCollection(t)
    <2>1. Resumed(th[t]).pc # "emplace"
      BY <1>0 DEF Resumed, IdleThread, ThreadState
    <2>2. QED
      BY <1>2, <1>6, <2>1 DEF SkipCollection
  <1>7. CASE \E k \in Slots : LoadPtr(t, k) \/ ClearSlot(t, k)
    <2>1. PICK k \in Slots : LoadPtr(t, k) \/ ClearSlot(t, k)
      BY <1>7
    <2>2. CASE ClearSlot(t, k)
      BY <2>2 DEF ClearSlot
    <2>3. CASE LoadPtr(t, k)
      <3> DEFINE p == mem[<<t, k>>]
      <3>1. th' = [th EXCEPT ![t] = [th[t] EXCEPT !.pc = "use", !.ptr = p]]
        BY <1>0, <2>3 DEF LoadPtr, ThreadState
      <3> HIDE DEF p
      <3>2. [th[t] EXCEPT !.pc = "use", !.ptr = p].pc # "emplace"
        BY <1>0 DEF ThreadState
      <3>3. QED
        BY <1>2, <3>1, <3>2
    <2>4. QED
      BY <2>1, <2>2, <2>3
  <1>8. QED
    BY <1>1, <1>3, <1>4, <1>5, <1>6, <1>7 DEF Mutator, Call

-----------------------------------------------------------------------------
(* Under the lock the new reservation is looked at beside every object; the *)
(* collection's own lies below it.                                          *)
LEMMA ReserveStep ==
  ASSUME OneMutator, IInv, DInv, NEW t \in Threads, Reserve(t)
  PROVE  DInv'
  <1> DEFINE r == th[t].req  p == <<m_space_num, At(m_space_num, r)>>
  <1>0. /\ TypeOK /\ ThreadInv /\ th \in [Threads -> ThreadState]
        /\ \A u \in Threads : u = t
    BY DEF IInv, TypeOK, OneMutator
  <1>1. /\ r \in Metadata /\ r.size \in Nat /\ r.size > 0
        /\ m_space_num \in {0, 1} /\ m_nexts[m_space_num] \in Nat
    BY <1>0, RequestType, WorkerType DEF Reserve, ThreadInv
  <1>2. /\ At(m_space_num, r) \in Nat /\ At(m_space_num, r) >= m_nexts[m_space_num]
        /\ At(m_space_num, r) + r.size <= MaxAlloc
    BY <1>0, <1>1, NotBefore, Placed, SizeAssumption DEF Reserve
  <1>3. p \in Address
    BY <1>1, <1>2, SizeAssumption DEF Address
  <1>4. /\ UNCHANGED <<m_space_num, m_metadata, w, visited>>
        /\ m_nexts'[m_space_num] = At(m_space_num, r) + r.size
    BY <1>0, <1>1 DEF Reserve, collection, TypeOK, End
  <1>5. ASSUME th'[t].pc = "emplace"
        PROVE  th'[t].ptr = p /\ th'[t].req = r /\ ClearOf(p, r.size)
    <2>1. CASE Overlaps(p, r.size)
      BY <1>0, <1>5, <2>1 DEF Reserve, ThreadState
    <2>2. CASE ~ Overlaps(p, r.size)
      <3>1. th' = [th EXCEPT ![t] = [th[t] EXCEPT !.pc = "emplace", !.ptr = p]]
        BY <1>0, <2>2 DEF Reserve, ThreadState
      <3> HIDE DEF p
      <3>2. th'[t].ptr = p /\ th'[t].req = r
        BY <1>0, <3>1 DEF ThreadState
      <3>3. QED
        BY <1>1, <1>3, <2>2, <3>2, Unmanaged
    <2>3. QED
      BY <2>1, <2>2
  <1>6. ASSUME w.pc \in {"check", "emplace"}
        PROVE  /\ w.new[1] = m_space_num
               /\ w.new[2] + old_data.size <= m_nexts[m_space_num]
               /\ w.new[2] + old_data.size <= m_nexts'[m_space_num]
               /\ Apart(p, r.size, w.new, old_data.size)
    <2>1. /\ w.new[1] = m_space_num /\ w.to = m_space_num
          /\ w.new[2] + old_data.size <= m_nexts[m_space_num]
      BY <1>6, WorkerType DEF DInv, PendingInv
    <2>2. w.new[2] + old_data.size \in Nat
      BY <1>6, WorkerType DEF Moving
    <2>3. QED
      BY <1>1, <1>2, <1>4, <2>1, <2>2 DEF Apart
  <1> HIDE DEF p, r
  <1>7. p[1] = m_space_num /\ p[2] + r.size <= m_nexts'[m_space_num]
    BY <1>1, <1>2, <1>4 DEF p
  <1>8. PendingInv'
    <2>1. ASSUME NEW u \in Threads, th'[u].pc = "emplace"
          PROVE  /\ th'[u].ptr[1] = m_space_num'
                 /\ th'[u].ptr[2] + th'[u].req.size <= m_nexts'[m_space_num']
                 /\ ClearOf(th[u].ptr, th[u].req.size)'
                 /\ w'.pc \in {"check", "emplace"} =>
                      Apart(th'[u].ptr, th'[u].req.size, w.new, old_data.size)
      <3>1. th'[u].ptr = p /\ th'[u].req = r /\ ClearOf(p, r.size)
        BY <1>0, <1>5, <2>1
      <3>2. \A o \in DOMAIN m_metadata' : Apart(o, m_metadata'[o].size, p, r.size)
        BY <1>4, <3>1 DEF ClearOf
      <3>3. QED
        BY <1>4, <1>6, <1>7, <3>1, <3>2 DEF ClearOf
    <2>2. w.pc \in {"check", "emplace"} => w.to = m_space_num
      BY WorkerType
    <2>3. w.pc = "emplace" => ClearOf(w.new, old_data.size)'
      BY <1>4 DEF DInv, PendingInv, ClearOf, old_data
    <2>4. old_data' = old_data
      BY <1>4 DEF old_data
    <2>5. QED
      BY <1>4, <1>6, <2>1, <2>2, <2>3, <2>4 DEF PendingInv
  <1>9. MetadataDisjoint' /\ MovedInv' /\ OldSpaceEmptied'
    BY <1>4 DEF DInv, MetadataDisjoint, MovedInv, OldSpaceEmptied, old_data
  <1>10. QED
    BY <1>8, <1>9 DEF DInv

(* An object of p and r becomes managed; it shares no cell with the others. *)
LEMMA EmplaceDisjoint ==
  ASSUME IInv, MetadataDisjoint, NEW p \in Address, NEW r \in Metadata,
         r.size > 0, ClearOf(p, r.size),
         m_metadata' = Emplaced(m_metadata, p, r)
  PROVE  /\ MetadataDisjoint'
         /\ DOMAIN m_metadata' = DOMAIN m_metadata \cup {p}
         /\ m_metadata'[p] = r
         /\ \A o \in DOMAIN m_metadata : m_metadata'[o] = m_metadata[o]
         /\ \A q, n : ClearOf(q, n) /\ Apart(p, r.size, q, n) => ClearOf(q, n)'
  <1>1. r.size \in Nat /\ p \notin DOMAIN m_metadata
    BY Unmanaged DEF Metadata
  <1>2. /\ DOMAIN m_metadata' = DOMAIN m_metadata \cup {p}
        /\ m_metadata'[p] = r
        /\ \A o \in DOMAIN m_metadata : m_metadata'[o] = m_metadata[o]
    BY <1>1 DEF Emplaced
  <1>3. \A o \in DOMAIN m_metadata : o[1] = p[1] =>
          \/ o[2] + m_metadata[o].size <= p[2]
          \/ p[2] + r.size <= o[2]
    BY DEF ClearOf, Apart
  <1>4. MetadataDisjoint'
    BY <1>2, <1>3 DEF MetadataDisjoint
  <1>5. \A q, n : ClearOf(q, n) /\ Apart(p, r.size, q, n) => ClearOf(q, n)'
    BY <1>2 DEF ClearOf
  <1>6. QED
    BY <1>2, <1>4, <1>5

(* What a mutator enters was apart from every object when it was reserved,  *)
(* and still is; it is in the space the collection copies to.               *)
LEMMA EmplaceStep ==
  ASSUME OneMutator, IInv, DInv, NEW t \in Threads, Emplace(t)
  PROVE  DInv'
  <1> DEFINE r == th[t].req  p == th[t].ptr
  <1>0. /\ TypeOK /\ ThreadInv /\ th \in [Threads -> ThreadState]
        /\ \A u \in Threads : u = t
    BY DEF IInv, TypeOK, OneMutator
  <1>1. /\ r \in Metadata /\ r.size > 0 /\ p \in Address
        /\ p[1] = m_space_num /\ ClearOf(p, r.size)
        /\ w.pc \in {"check", "emplace"} => Apart(p, r.size, w.new, old_data.size)
    BY <1>0, RequestType DEF Emplace, ThreadInv, DInv, PendingInv
  <1>2. UNCHANGED <<m_nexts, m_space_num, w, visited>>
    BY DEF Emplace, collection
  <1>3. m_metadata' = Emplaced(m_metadata, p, r)
    BY DEF Emplace
  <1>4. \A u \in Threads : th'[u].pc # "emplace"
    BY <1>0 DEF Emplace, ThreadState
  <1> HIDE DEF p, r
  <1>5. /\ MetadataDisjoint' /\ DOMAIN m_metadata' = DOMAIN m_metadata \cup {p}
        /\ \A o \in DOMAIN m_metadata : m_metadata'[o] = m_metadata[o]
        /\ \A q, n : ClearOf(q, n) /\ Apart(p, r.size, q, n) => ClearOf(q, n)'
    BY <1>1, <1>3, EmplaceDisjoint DEF DInv
  <1>6. w.pc \in Moving => old_data' = old_data
    BY <1>2, <1>5, WorkerType DEF old_data
  <1>7. PendingInv'
    BY <1>1, <1>2, <1>4, <1>5, <1>6 DEF DInv, PendingInv, Moving
  <1>8. w.pc # "idle" => p[1] = w.to
    BY <1>1, WorkerType
  <1>9. MovedInv'
    BY <1>2, <1>5, <1>6, <1>8 DEF DInv, MovedInv, Moving
  <1>10. OldSpaceEmptied'
    BY <1>2, <1>5, <1>8 DEF DInv, OldSpaceEmptied
  <1>11. QED
    BY <1>5, <1>7, <1>9, <1>10 DEF DInv

(* A flip happens only when nothing is pending.                             *)
LEMMA FlipStep ==
  ASSUME OneMutator, IInv, DInv, NEW t \in Threads, StartCollection(t)
  PROVE  DInv'
  <1>0. th \in [Threads -> ThreadState] /\ \A u \in Threads : u = t
    BY DEF IInv, TypeOK, OneMutator
  <1>1. w.pc = "idle" /\ UNCHANGED <<m_metadata, w, visited>>
    BY DEF StartCollection, MayStart, IInv, SingleCollection, collection
  <1>2. \A u \in Threads : th'[u].pc # "emplace"
    BY <1>0 DEF StartCollection, Resumed, IdleThread, ThreadState
  <1>3. QED
    BY <1>1, <1>2 DEF DInv, PendingInv, MetadataDisjoint, MovedInv,
                      OldSpaceEmptied

(* So every step of the mutator keeps objects apart.                        *)
LEMMA MutatorPlaces ==
  ASSUME OneMutator, IInv, DInv, NEW t \in Threads, Mutator(t)
  PROVE  DInv'
  BY NothingPlaced, OtherMutatorSteps, ReserveStep, EmplaceStep, FlipStep

-----------------------------------------------------------------------------
(* Steps of the collection that move no object along.                       *)
LEMMA TraceStep ==
  ASSUME IInv, DInv,
         \/ TaskStart \/ (\E l \in w.roots : TakeRoot(l)) \/ ReadTop
         \/ Redirect \/ Ignore \/ Scan \/ ScanMember \/ CopyAbort
  PROVE  DInv'
  <1>0. w \in WorkerState
    BY WorkerType
  <1>1. UNCHANGED <<m_nexts, m_space_num, m_metadata, th>>
    BY DEF TaskStart, TakeRoot, ReadTop, Redirect, Ignore, Scan, ScanMember,
           CopyAbort, Mutators
  <1>2. w'.pc \in {"trace", "forward", "scan", "aborted"}
    <2>1. TaskStart => w'.pc = "trace"
      BY DEF TaskStart, IdleWorker
    <2>2. CASE (\E l \in w.roots : TakeRoot(l)) \/ ReadTop
      BY <1>0, <2>2 DEF TakeRoot, ReadTop, WorkerState
    <2>3. CASE Redirect \/ Ignore \/ Scan \/ ScanMember \/ CopyAbort
      BY <1>0, <2>3 DEF Redirect, Ignore, Scan, ScanMember, CopyAbort,
                        WorkerState
    <2>4. QED
      BY <2>1, <2>2, <2>3
  <1>3. \/ visited' = <<>>
        \/ visited' = visited /\ w'.to = w.to /\ w.pc # "idle"
    <2>1. TaskStart => visited' = <<>>
      BY DEF TaskStart
    <2>2. CASE (\E l \in w.roots : TakeRoot(l)) \/ ReadTop
      BY <1>0, <2>2 DEF TakeRoot, ReadTop, WorkerState
    <2>3. CASE Redirect \/ Ignore \/ Scan \/ ScanMember \/ CopyAbort
      BY <1>0, <2>3 DEF Redirect, Ignore, Scan, ScanMember, CopyAbort,
                        WorkerState
    <2>4. QED
      BY <2>1, <2>2, <2>3
  <1>4. PendingInv'
    BY <1>1, <1>2 DEF DInv, PendingInv, ClearOf
  <1>5. MovedInv'
    BY <1>1, <1>2, <1>3 DEF DInv, MovedInv
  <1>6. MetadataDisjoint' /\ OldSpaceEmptied'
    BY <1>1, <1>2 DEF DInv, MetadataDisjoint, OldSpaceEmptied
  <1>7. QED
    BY <1>4, <1>5, <1>6 DEF DInv

(* The room for a copy begins behind what the mutator has reserved.         *)
LEMMA CopyReserveStep ==
  ASSUME IInv, DInv, CopyReserve
  PROVE  DInv'
  <1> DEFINE p == <<w.to, At(w.to, old_data)>>
  <1>0. /\ w \in WorkerState /\ TypeOK /\ w.pc = "scan"
        /\ th \in [Threads -> ThreadState]
    BY DEF CopyReserve, IInv, TypeOK
  <1>1. /\ w.to = m_space_num /\ m_space_num \in {0, 1}
        /\ old_data \in Metadata /\ old_data.size \in Nat
        /\ m_nexts[m_space_num] \in Nat
    BY <1>0, WorkerType DEF Moving
  <1>2. /\ At(w.to, old_data) \in Nat
        /\ At(w.to, old_data) >= m_nexts[m_space_num]
    BY <1>0, <1>1, NotBefore
  <1>3. /\ m_nexts'[m_space_num] = At(w.to, old_data) + old_data.size
        /\ UNCHANGED <<m_metadata, visited, m_space_num, th>>
        /\ w' = [w EXCEPT !.pc = "check", !.new = p]
    BY <1>0, <1>1 DEF CopyReserve, End, TypeOK, Mutators
  <1> HIDE DEF p
  <1>4. /\ w'.pc = "check" /\ w'.new = p /\ w'.to = w.to /\ w'.val = w.val
        /\ p[1] = w.to /\ p[2] = At(w.to, old_data)
    BY <1>0, <1>3 DEF WorkerState, p
  <1>5. old_data' = old_data
    BY <1>3, <1>4 DEF old_data
  <1>6. ASSUME NEW t \in Threads, th[t].pc = "emplace"
        PROVE  /\ th[t].ptr[1] = m_space_num
               /\ th[t].ptr[2] + th[t].req.size <= m_nexts'[m_space_num]
               /\ Apart(th[t].ptr, th[t].req.size, p, old_data.size)
               /\ ClearOf(th[t].ptr, th[t].req.size)'
    <2>1. /\ th[t].ptr[1] = m_space_num
          /\ th[t].ptr[2] + th[t].req.size <= m_nexts[m_space_num]
          /\ ClearOf(th[t].ptr, th[t].req.size)
      BY <1>6 DEF DInv, PendingInv
    <2>2. th[t].ptr[2] + th[t].req.size \in Nat
      BY <1>0, <1>6, RequestType, SizeAssumption DEF IInv, ThreadInv, Address
    <2>3. QED
      BY <1>1, <1>2, <1>3, <1>4, <2>1, <2>2 DEF Apart, ClearOf
  <1>7. PendingInv'
    BY <1>1, <1>2, <1>3, <1>4, <1>5, <1>6 DEF PendingInv
  <1>8. MovedInv' /\ MetadataDisjoint' /\ OldSpaceEmptied'
    BY <1>0, <1>3, <1>4 DEF DInv, MovedInv, MetadataDisjoint, OldSpaceEmptied
  <1>9. QED
    BY <1>7, <1>8 DEF DInv

(* What is copied to is compared with every object once.                    *)
LEMMA CopyCheckStep ==
  ASSUME IInv, DInv, CopyCheck
  PROVE  DInv'
  <1>0. w \in WorkerState /\ w.pc = "check"
    BY WorkerType DEF CopyCheck
  <1>1. /\ UNCHANGED <<m_nexts, m_space_num, m_metadata, visited, th>>
        /\ w'.pc = "emplace" /\ w'.new = w.new /\ w'.to = w.to /\ w'.val = w.val
    BY <1>0 DEF CopyCheck, Mutators, WorkerState
  <1>2. old_data' = old_data
    BY <1>1 DEF old_data
  <1>3. ClearOf(w.new, old_data.size)
    BY <1>0, Unmanaged, WorkerType DEF CopyCheck, Moving
  <1>4. PendingInv'
    BY <1>0, <1>1, <1>2, <1>3 DEF DInv, PendingInv, ClearOf
  <1>5. MovedInv' /\ MetadataDisjoint' /\ OldSpaceEmptied'
    BY <1>0, <1>1 DEF DInv, MovedInv, MetadataDisjoint, OldSpaceEmptied
  <1>6. QED
    BY <1>4, <1>5 DEF DInv

(* The copy is entered; what the mutator has reserved stays apart from it.  *)
LEMMA CopyEmplaceStep ==
  ASSUME IInv, DInv, CopyEmplace
  PROVE  DInv'
  <1> DEFINE r == old_data  p == w.new
  <1>0. w \in WorkerState /\ w.pc = "emplace"
    BY WorkerType DEF CopyEmplace
  <1>1. /\ r \in Metadata /\ r.size \in Nat /\ r.size > 0 /\ p \in Address
        /\ w.val \in DOMAIN m_metadata /\ w.val[1] # w.to
        /\ r = m_metadata[w.val]
    BY <1>0, WorkerType DEF Moving, old_data
  <1>2. /\ ClearOf(p, r.size) /\ p[1] = w.to
        /\ \A t \in Threads : th[t].pc = "emplace" =>
             Apart(th[t].ptr, th[t].req.size, p, r.size)
    BY <1>0 DEF DInv, PendingInv
  <1>3. /\ UNCHANGED <<m_nexts, m_space_num, visited, th>>
        /\ m_metadata' = Emplaced(m_metadata, p, r)
        /\ w'.pc = "copy" /\ w'.new = p /\ w'.to = w.to /\ w'.val = w.val
    BY <1>0 DEF CopyEmplace, Mutators, WorkerState
  <1> HIDE DEF r, p
  <1>4. /\ MetadataDisjoint' /\ DOMAIN m_metadata' = DOMAIN m_metadata \cup {p}
        /\ m_metadata'[p] = r
        /\ \A o \in DOMAIN m_metadata : m_metadata'[o] = m_metadata[o]
        /\ \A q, n : ClearOf(q, n) /\ Apart(p, r.size, q, n) => ClearOf(q, n)'
    BY <1>1, <1>2, <1>3, EmplaceDisjoint DEF DInv
  <1>5. old_data' = r
    BY <1>1, <1>3, <1>4 DEF old_data
  <1>6. ASSUME NEW t \in Threads, th[t].pc = "emplace"
        PROVE  ClearOf(th[t].ptr, th[t].req.size)'
    <2>1. Apart(p, r.size, th[t].ptr, th[t].req.size)
      BY <1>2, <1>6 DEF Apart
    <2>2. ClearOf(th[t].ptr, th[t].req.size)
      BY <1>6 DEF DInv, PendingInv
    <2>3. QED
      BY <1>3, <1>4, <2>1, <2>2
  <1>7. PendingInv'
    BY <1>3, <1>6 DEF DInv, PendingInv
  <1>8. MovedInv'
    BY <1>0, <1>2, <1>3, <1>4, <1>5 DEF DInv, MovedInv
  <1>9. OldSpaceEmptied'
    BY <1>3 DEF OldSpaceEmptied
  <1>10. QED
    BY <1>4, <1>7, <1>8, <1>9 DEF DInv

(* Copying cells and redirecting the pointer move no object.                *)
LEMMA CopyStep ==
  ASSUME IInv, DInv, CopyWord \/ Swing
  PROVE  DInv'
  <1>0. w \in WorkerState /\ w.pc \in {"copy", "swing"}
    BY WorkerType DEF CopyWord, Swing
  <1>1. /\ UNCHANGED <<m_nexts, m_space_num, m_metadata, visited, th>>
        /\ w'.pc \in {"copy", "swing", "erase"}
        /\ w'.new = w.new /\ w'.to = w.to /\ w'.val = w.val
    <2>1. CASE CopyWord
      BY <1>0, <2>1 DEF CopyWord, Mutators, WorkerState
    <2>2. CASE Swing
      BY <1>0, <2>2 DEF Swing, Mutators, WorkerState
    <2>3. QED
      BY <2>1, <2>2
  <1>2. old_data' = old_data
    BY <1>1 DEF old_data
  <1>3. PendingInv'
    BY <1>1 DEF DInv, PendingInv, ClearOf
  <1>4. MovedInv' /\ MetadataDisjoint' /\ OldSpaceEmptied'
    BY <1>0, <1>1, <1>2 DEF DInv, MovedInv, MetadataDisjoint, OldSpaceEmptied
  <1>5. QED
    BY <1>3, <1>4 DEF DInv

(* An access of a copy writes no variable and only to the space in use.     *)
LEMMA CopyWordHeap ==
  ASSUME IInv, CopyWord
  PROVE  /\ \A l \in Stack : mem'[l] = mem[l]
         /\ \A l \in Address : \E d \in Address : mem'[l] = mem[d]
         /\ \A l \in Address : l[1] # w.new[1] => mem'[l] = mem[l]
         /\ UNCHANGED <<m_nexts, m_metadata, visited, Mutators>>
         /\ w.pc = "copy" /\ w'.pc \in {"copy", "swing"}
         /\ w'.to = w.to /\ w'.roots = w.roots /\ w'.stack = w.stack
         /\ w'.at = w.at /\ w'.val = w.val /\ w'.new = w.new
         /\ w'.i = copied
  <1>0. /\ w \in WorkerState /\ Stack \cap Address = {}
        /\ Location = Stack \cup Address /\ TypeOK /\ ObjectInv /\ WorkerInv
    BY NameAssumption DEF IInv, TypeOK, Location
  <1>1. PICK n : n = copied
    OBVIOUS
  <1>2. /\ w.pc = "copy"
        /\ \A l \in Location :
             \/ mem'[l] = mem[l]
             \/ l \in Address /\ \E i \in w.i .. n - 1 : l = Cell(w.new, i)
        /\ \A i \in w.i .. n - 1 :
             /\ Cell(w.val, i) \in Address
             /\ Cell(w.new, i) \in Address =>
                  mem'[Cell(w.new, i)] = mem[Cell(w.val, i)]
        /\ w' = [w EXCEPT !.i = n,
                          !.pc = IF n < old_data.size THEN "copy" ELSE "swing"]
        /\ UNCHANGED <<m_nexts, m_metadata, visited, Mutators>>
    BY <1>0, <1>1, CopyWordStep
  <1>3. \A i : Cell(w.new, i)[1] = w.new[1]
    BY DEF Cell
  <1>4. /\ \A l \in Stack : mem'[l] = mem[l]
        /\ \A l \in Address : \E d \in Address : mem'[l] = mem[d]
        /\ \A l \in Address : l[1] # w.new[1] => mem'[l] = mem[l]
    BY <1>0, <1>2, <1>3
  <1>5. /\ w'.pc \in {"copy", "swing"}
        /\ w'.to = w.to /\ w'.roots = w.roots /\ w'.stack = w.stack
        /\ w'.at = w.at /\ w'.val = w.val /\ w'.new = w.new
        /\ w'.i = copied
    BY <1>0, <1>1, <1>2 DEF WorkerState
  <1>6. QED
    BY <1>2, <1>4, <1>5

(* Removing objects disturbs nothing that is reserved.                      *)
LEMMA Removal ==
  ASSUME DInv, UNCHANGED <<m_nexts, m_space_num, th>>,
         w'.pc \in {"trace", "swept"},
         DOMAIN m_metadata' \subseteq DOMAIN m_metadata,
         \A o \in DOMAIN m_metadata' : m_metadata'[o] = m_metadata[o]
  PROVE  PendingInv' /\ MetadataDisjoint'
  BY DEF DInv, PendingInv, MetadataDisjoint, ClearOf

(* Erasing the old object turns it into one that has been moved.            *)
LEMMA EraseStep ==
  ASSUME IInv, DInv, EraseOld
  PROVE  DInv'
  <1>0. w \in WorkerState /\ w.pc = "erase"
    BY WorkerType DEF EraseOld
  <1>1. /\ UNCHANGED <<m_nexts, m_space_num, th>>
        /\ w'.pc = "trace" /\ w'.to = w.to
    BY <1>0 DEF EraseOld, Mutators, WorkerState
  <1>2. /\ DOMAIN m_metadata' = DOMAIN m_metadata \ {w.val}
        /\ \A o \in DOMAIN m_metadata' : m_metadata'[o] = m_metadata[o]
    BY DEF EraseOld, Restrict
  <1>3. /\ w.val \in DOMAIN m_metadata /\ w.val[1] # w.to
        /\ w.new[1] = w.to /\ w.new \in DOMAIN m_metadata
    BY <1>0, WorkerType DEF DInv, MovedInv, Moving
  <1>4. /\ DOMAIN visited' = DOMAIN visited \cup {w.val}
        /\ visited'[w.val] = w.new
        /\ \A o \in DOMAIN visited : visited'[o] = visited[o] /\ o # w.val
    BY <1>3 DEF EraseOld, Emplaced, DInv, MovedInv
  <1>5. MovedInv'
    BY <1>1, <1>2, <1>3, <1>4 DEF DInv, MovedInv
  <1>6. OldSpaceEmptied'
    BY <1>1 DEF OldSpaceEmptied
  <1>7. QED
    BY <1>1, <1>2, <1>5, <1>6, Removal DEF DInv

(* Nothing that has been moved is managed where it was, so only the new     *)
(* space survives.                                                          *)
LEMMA SweepStep ==
  ASSUME IInv, DInv, Sweep
  PROVE  DInv'
  <1>0. w \in WorkerState /\ w.pc = "trace"
    BY WorkerType DEF Sweep
  <1>1. /\ UNCHANGED <<m_nexts, m_space_num, visited, th>>
        /\ w'.pc = "swept" /\ w'.to = w.to
    BY <1>0 DEF Sweep, Mutators, WorkerState
  <1>2. /\ DOMAIN m_metadata' = {o \in DOMAIN m_metadata : Survives(o)}
        /\ \A o \in DOMAIN m_metadata' : m_metadata'[o] = m_metadata[o]
    BY DEF Sweep, Restrict
  <1>3. MovedInv'
    BY <1>0, <1>1, <1>2 DEF DInv, MovedInv, Survives
  <1>4. OldSpaceEmptied'
    BY <1>1, <1>2 DEF DInv, MovedInv, OldSpaceEmptied, Survives
  <1>5. QED
    BY <1>1, <1>2, <1>3, <1>4, Removal DEF DInv

(* A collection that ends forgets what it has moved.                        *)
LEMMA FinishStep ==
  ASSUME IInv, DInv, Finish
  PROVE  DInv'
  <1>0. th \in [Threads -> ThreadState]
    BY DEF IInv, TypeOK
  <1>1. /\ UNCHANGED <<m_nexts, m_space_num, m_metadata>> /\ visited' = <<>>
        /\ w'.pc = "idle"
    BY DEF Finish, heap, IdleWorker
  <1>2. \A t \in Threads : th'[t].pc = "emplace" => th'[t] = th[t]
    BY <1>0 DEF Finish, Woken, Resumed, IdleThread, ThreadState
  <1>3. PendingInv'
    BY <1>1, <1>2 DEF DInv, PendingInv, ClearOf
  <1>4. MetadataDisjoint' /\ MovedInv' /\ OldSpaceEmptied'
    BY <1>1 DEF DInv, MetadataDisjoint, MovedInv, OldSpaceEmptied
  <1>5. QED
    BY <1>3, <1>4 DEF DInv

-----------------------------------------------------------------------------
(* Every step keeps objects apart.                                          *)
LEMMA StepDInv ==
  ASSUME OneMutator, IInv, DInv, [Next]_vars
  PROVE  DInv'
  <1>1. CASE \E t \in Threads : Mutator(t)
    BY <1>1, MutatorPlaces
  <1>2. CASE Collection
    BY <1>2, TraceStep, CopyReserveStep, CopyCheckStep, CopyEmplaceStep,
       CopyStep, EraseStep, SweepStep, FinishStep DEF Collection
  <1>3. CASE UNCHANGED vars
    BY <1>3, NothingPlaced DEF vars
  <1>4. QED
    BY <1>1, <1>2, <1>3 DEF Next

(* There is no object at first.                                             *)
LEMMA InitDInv == Init => DInv
  BY DEF Init, DInv, PendingInv, MetadataDisjoint, MovedInv, OldSpaceEmptied,
         IdleThread, IdleWorker

(* Both invariants hold in every behaviour with one mutator.                *)
LEMMA PlacedApart == ASSUME OneMutator PROVE Spec => [](IInv /\ DInv)
  <1>1. IInv /\ DInv /\ [Next]_vars => (IInv /\ DInv)'
    BY StepIInv, StepDInv
  <1>2. Init => IInv /\ DInv
    BY InitIInv, InitDInv
  <1>3. QED
    BY <1>1, <1>2, PTL DEF Spec

(* Managed objects never share a cell, although the mutator and the         *)
(* collection reserve in the same space without a common lock and failed    *)
(* collections leave objects behind: for one mutator, any heap and requests.*)
THEOREM ObjectsApart == ASSUME OneMutator PROVE Spec => []MetadataDisjoint
  <1>1. DInv => MetadataDisjoint
    BY DEF DInv
  <1>2. QED
    BY <1>1, PlacedApart, PTL

(* A collection that runs to its end leaves nothing in the space it has     *)
(* declared empty, whatever a single mutator does meanwhile.                *)
THEOREM OldSpaceCleared == ASSUME OneMutator PROVE Spec => []OldSpaceEmptied
  <1>1. DInv => OldSpaceEmptied
    BY DEF DInv
  <1>2. QED
    BY <1>1, PlacedApart, PTL

-----------------------------------------------------------------------------
(* Variables of the program, and pointers kept in registers.  The program   *)
(* keeps its pointers in variables only ("field" is not in Ops); beside a   *)
(* running collection it does not copy them.                                *)
PointersInVariables == "field" \notin Ops /\ (Serial \/ "copy" \notin Ops)

Forwarding == {"forward"} \cup Moving

(* With the serial policy nothing runs beside a collection.                 *)
SerialInv ==
  Serial /\ m_collect_result = "pending" =>
    \A t \in Threads : th[t].pc = "inline"

(* A variable holds a pointer; no cell of the heap does.                    *)
PlainInv ==
  /\ \A l \in Stack : mem[l] \in FatPtrs
  /\ \A l \in Address : mem[l] \notin Address

(* Every pointer of the program refers to an object or to what has been     *)
(* moved; one that is not in a variable yet refers to a new object.         *)
LiveInv ==
  /\ \A l \in Stack : mem[l] \in Address =>
       mem[l] \in DOMAIN m_metadata \cup DOMAIN visited
  /\ \A t \in Threads : th[t].pc = "construct" =>
       /\ th[t].ptr \in DOMAIN m_metadata
       /\ m_metadata[th[t].ptr] = th[t].req
       /\ th[t].ptr[1] = m_space_num
       /\ \A l \in Stack : mem[l] # th[t].ptr
       /\ w.pc \in {"copy", "swing", "erase"} => th[t].ptr # w.new
       /\ \A o \in DOMAIN visited : visited[o] # th[t].ptr
  /\ \A t \in Threads : th[t].pc = "use" =>
       /\ th[t].ptr \in Address
       /\ Serial => \E l \in Stack : mem[l] = th[t].ptr

(* A pointer that is forwarded was read in a variable; nobody but the       *)
(* collection has seen the copy before it is swung in.                      *)
ForwardInv ==
  /\ w.pc \in Forwarding /\ w.val \in Address =>
       w.at \in Stack /\ w.val \in DOMAIN m_metadata \cup DOMAIN visited
  /\ w.pc \in {"copy", "swing"} => \A l \in Stack : mem[l] # w.new

(* Pointers into the old space are in variables still to be visited.        *)
RootsInv ==
  w.pc \in {"trace", "swept"} \cup Forwarding =>
    \A l \in Stack : mem[l] \in Address =>
      \/ mem[l][1] = w.to
      \/ w.pc # "swept" /\ l \in w.roots
      \/ w.pc = "trace" /\ w.stack = <<l>>
      \/ w.pc \in Forwarding \ {"erase"} /\ w.at = l /\ mem[l] = w.val

PtrInv == SerialInv /\ PlainInv /\ LiveInv /\ ForwardInv /\ RootsInv

(* Without copies of pointers every object is in one variable at most.      *)
AloneInv ==
  /\ \A l, k \in Stack : l # k /\ mem[l] \in Address => mem[l] # mem[k]
  /\ \A l \in Stack : mem[l] \notin DOMAIN visited
  /\ w.pc \in Forwarding /\ w.val \in Address =>
       /\ w.val \notin DOMAIN visited
       /\ \A l \in Stack \ {w.at} : mem[l] # w.val
  /\ w.pc = "erase" => \A l \in Stack : mem[l] # w.val
  /\ \A t \in Threads : th[t].pc = "construct" /\ w.pc = "forward" =>
       th[t].ptr # w.val

-----------------------------------------------------------------------------
(* The mutator waits inside do_collection until the collection is over.     *)
LEMMA SerialStep ==
  ASSUME IInv, SerialInv, [Next]_vars
  PROVE  SerialInv'
  <1>0. th \in [Threads -> ThreadState]
    BY DEF IInv, TypeOK
  <1> SUFFICES ASSUME Serial, m_collect_result' = "pending"
               PROVE  \A t \in Threads : th'[t].pc = "inline"
    BY DEF SerialInv
  <1>1. ASSUME NEW t \in Threads, Mutator(t)
        PROVE  \A u \in Threads : th'[u].pc = "inline"
    <2>1. CASE StartCollection(t)
      <3>1. th' = [th EXCEPT ![t] = [th[t] EXCEPT !.pc = "inline"]]
        BY <1>0, <2>1 DEF StartCollection
      <3>2. \A u \in Threads : u = t
        BY PolicyAssumption
      <3>3. QED
        BY <1>0, <3>1, <3>2 DEF ThreadState
    <2>2. CASE ~ StartCollection(t)
      <3>1. m_collect_result = "pending"
        BY <1>1, <2>2
           DEF Mutator, Call, Use, CallAlloc, CallCollect, FrontCheck, Reserve,
               NoRoom, Emplace, Construct, Catch, CollectLoop, SkipCollection,
               LoadPtr, ClearSlot, StorePtr, WriteField, WriteData, Uses
      <3>2. th[t].pc = "inline"
        BY <3>1 DEF SerialInv
      <3>3. QED
        BY <1>1, <2>2, <3>2
           DEF Mutator, Call, Use, CallAlloc, CallCollect, FrontCheck, Reserve,
               NoRoom, Emplace, Construct, Catch, CollectLoop, SkipCollection,
               LoadPtr, ClearSlot, StorePtr, WriteField, WriteData, Errors
    <2>3. QED
      BY <2>1, <2>2
  <1>2. CASE Finish
    BY <1>2 DEF Finish
  <1>3. CASE UNCHANGED <<th, m_collect_result>>
    BY <1>3 DEF SerialInv
  <1>4. Collection => Finish \/ UNCHANGED <<th, m_collect_result>>
    BY DEF Collection, TaskStart, TakeRoot, ReadTop, Redirect, Ignore, Scan,
           ScanMember, CopyReserve, CopyCheck, CopyEmplace, CopyAbort,
           CopyWord, Swing, EraseOld, Sweep, Mutators
  <1>5. QED
    BY <1>1, <1>2, <1>3, <1>4 DEF Next, vars

(* While a collection is at work, a mutator of the serial policy is not.    *)
LEMMA SerialQuiet ==
  ASSUME IInv, SerialInv, Serial, NEW t \in Threads, Mutator(t)
  PROVE  w.pc = "idle"
  <1>1. ASSUME th[t].pc = "inline" PROVE FALSE
    BY <1>1 DEF Mutator, Call, Use, CallAlloc, CallCollect, FrontCheck, Reserve,
           NoRoom, Emplace, Construct, Catch, CollectLoop, StartCollection,
           SkipCollection, LoadPtr, ClearSlot, StorePtr, WriteField, WriteData,
           Errors
  <1>2. QED
    BY <1>1 DEF IInv, SingleCollection, SerialInv

(* The cells of a managed object lie in the heap.                           *)
LEMMA ObjectCells ==
  ASSUME IInv, NEW o \in DOMAIN m_metadata
  PROVE  /\ Cells(o, m_metadata[o].size) \subseteq Address
         /\ \A i \in Nat : i < m_metadata[o].size =>
              Cell(o, i) \in Address /\ Cell(o, i) \in Cells(o, m_metadata[o].size)
  <1>1. /\ o[1] \in {0, 1} /\ o[2] \in Nat /\ m_metadata[o].size \in Nat
        /\ o[2] + m_metadata[o].size <= HeapSize
    BY WorkerType DEF IInv, ObjectInv
  <1>2. QED
    BY <1>1, SizeAssumption DEF Cells, Cell, Address

(* Steps of a mutator on itself only                                        *)
LEMMA CallSteps ==
  ASSUME IInv, NEW t \in Threads,
         \/ \E r \in Requests : CallAlloc(t, r)
         \/ CallCollect(t) \/ FrontCheck(t) \/ Reserve(t) \/ NoRoom(t)
         \/ Catch(t) \/ CollectLoop(t) \/ StartCollection(t) \/ SkipCollection(t)
  PROVE  /\ UNCHANGED <<m_metadata, mem, w, visited>>
         /\ th'[t].pc \notin {"construct", "use"}
  <1>0. th \in [Threads -> ThreadState] /\ th[t] \in ThreadState
    BY DEF IInv, TypeOK
  <1>1. UNCHANGED <<m_metadata, mem, w, visited>>
    BY DEF CallAlloc, CallCollect, FrontCheck, Reserve, NoRoom, Catch,
           CollectLoop, StartCollection, SkipCollection, collection, heap
  <1>2. th'[t].pc \notin {"construct", "use"}
    <2>1. CASE \E r \in Requests : CallAlloc(t, r)
      <3>1. PICK r \in Requests : CallAlloc(t, r)
        BY <2>1
      <3> DEFINE p == IF FrontEnd THEN "front" ELSE Entry(r)
      <3>2. p \notin {"construct", "use"}
        BY DEF Entry
      <3>3. th' = [th EXCEPT ![t] = [th[t] EXCEPT !.req = r, !.pc = p]]
        BY <1>0, <3>1 DEF CallAlloc, ThreadState
      <3> HIDE DEF p
      <3>4. [th[t] EXCEPT !.req = r, !.pc = p].pc = p
        BY <1>0 DEF ThreadState
      <3>5. QED
        BY <1>0, <3>2, <3>3, <3>4
    <2>2. CASE CallCollect(t) \/ FrontCheck(t) \/ NoRoom(t) \/ CollectLoop(t)
      BY <1>0, <2>2 DEF CallCollect, FrontCheck, NoRoom, CollectLoop, Entry,
                        ThreadState
    <2>3. CASE Reserve(t)
      <3> DEFINE p == <<m_space_num, At(m_space_num, th[t].req)>>
      <3>1. \/ th' = [th EXCEPT ![t] = [th[t] EXCEPT !.pc = "heap_corruption"]]
            \/ th' = [th EXCEPT ![t] = [th[t] EXCEPT !.pc = "emplace", !.ptr = p]]
        BY <1>0, <2>3 DEF Reserve, ThreadState
      <3> HIDE DEF p
      <3>2. /\ [th[t] EXCEPT !.pc = "heap_corruption"].pc = "heap_corruption"
            /\ [th[t] EXCEPT !.pc = "emplace", !.ptr = p].pc = "emplace"
        BY <1>0 DEF ThreadState
      <3>3. th'[t].pc \in {"heap_corruption", "emplace"}
        BY <1>0, <3>1, <3>2
      <3>4. QED
        BY <3>3
    <2>4. CASE Catch(t)
      BY <1>0, <2>4 DEF Catch, IdleThread
    <2>5. CASE StartCollection(t) \/ SkipCollection(t)
      <3>1. Resumed(th[t]).pc \in {"idle", "front2", "retry"}
        BY <1>0 DEF Resumed, IdleThread, ThreadState
      <3>2. [th[t] EXCEPT !.pc = "inline"].pc = "inline"
        BY <1>0 DEF ThreadState
      <3>3. th'[t] \in {Resumed(th[t]), [th[t] EXCEPT !.pc = "inline"]}
        BY <1>0, <2>5 DEF StartCollection, SkipCollection
      <3>4. QED
        BY <3>1, <3>2, <3>3
    <2>6. QED
      BY <2>1, <2>2, <2>3, <2>4, <2>5
  <1>3. QED
    BY <1>1, <1>2

(* A step that touches neither objects nor pointers keeps what is known of  *)
(* pointers.                                                                *)
LEMMA PtrUntouched ==
  ASSUME OneMutator, PtrInv, SerialInv', NEW t \in Threads,
         UNCHANGED <<m_metadata, mem, w, visited>>,
         th'[t].pc \notin {"construct", "use"}
  PROVE  PtrInv'
  <1>1. \A u \in Threads : th'[u].pc \notin {"construct", "use"}
    BY DEF OneMutator
  <1>2. PlainInv' /\ ForwardInv' /\ RootsInv'
    BY DEF PtrInv, PlainInv, ForwardInv, RootsInv
  <1>3. LiveInv'
    BY <1>1 DEF PtrInv, LiveInv
  <1>4. QED
    BY <1>2, <1>3 DEF PtrInv

(* A new object is unknown to the variables and to the collection.          *)
LEMMA PtrEmplace ==
  ASSUME OneMutator, IInv, DInv, PtrInv, SerialInv', NEW t \in Threads,
         Emplace(t)
  PROVE  PtrInv'
  <1> DEFINE r == th[t].req  p == th[t].ptr
  <1>0. /\ TypeOK /\ ThreadInv /\ th \in [Threads -> ThreadState]
        /\ \A u \in Threads : u = t
    BY DEF IInv, TypeOK, OneMutator
  <1>1. /\ r \in Metadata /\ r.size \in Nat /\ r.size > 0 /\ p \in Address
        /\ p[1] = m_space_num /\ ClearOf(p, r.size)
    BY <1>0, RequestType DEF Emplace, ThreadInv, DInv, PendingInv
  <1>2. UNCHANGED <<m_space_num, mem, w, visited>>
    BY DEF Emplace, collection
  <1>3. m_metadata' = Emplaced(m_metadata, p, r)
    BY DEF Emplace
  <1>4. th'[t].pc = "construct" /\ th'[t].ptr = p /\ th'[t].req = r
    BY <1>0 DEF Emplace, ThreadState
  <1> HIDE DEF p, r
  <1>5. p \notin DOMAIN m_metadata
    BY <1>1, Unmanaged
  <1>6. p \notin DOMAIN visited
    BY <1>1, WorkerType DEF DInv, MovedInv
  <1>7. /\ DOMAIN m_metadata' = DOMAIN m_metadata \cup {p} /\ m_metadata'[p] = r
    BY <1>3, <1>5 DEF Emplaced
  <1>8. /\ w.pc \in {"copy", "swing", "erase"} => w.new \in DOMAIN m_metadata
        /\ \A o \in DOMAIN visited : visited[o] \in DOMAIN m_metadata
    BY DEF DInv, MovedInv
  <1>9. LiveInv'
    BY <1>0, <1>1, <1>2, <1>4, <1>5, <1>6, <1>7, <1>8 DEF PtrInv, LiveInv
  <1>10. PlainInv' /\ ForwardInv' /\ RootsInv'
    BY <1>2, <1>7 DEF PtrInv, PlainInv, ForwardInv, RootsInv
  <1>11. QED
    BY <1>9, <1>10 DEF PtrInv

(* The new pointer leads into the space in use.                             *)
LEMMA PtrConstruct ==
  ASSUME OneMutator, IInv, PtrInv, SerialInv', NEW t \in Threads,
         NEW k \in Slots, NEW v \in Fresh, Construct(t, k, v)
  PROVE  PtrInv'
  <1> DEFINE p == th[t].ptr  new == Cells(p, th[t].req.size)
  <1>0. \A u \in Threads : u = t
    BY DEF OneMutator
  <1>1. /\ p \in DOMAIN m_metadata /\ m_metadata[p] = th[t].req
        /\ p[1] = m_space_num /\ p \in Address
        /\ w.pc \in {"copy", "swing"} => p # w.new
    BY WorkerType DEF Construct, PtrInv, LiveInv
  <1>2. new \subseteq Address
    BY <1>1, ObjectCells
  <1>3. v \notin Address /\ p \in FatPtrs /\ <<t, k>> \in Stack
    BY <1>1, FreshAssumption, NameAssumption DEF FatPtrs, Stack
  <1>4. /\ UNCHANGED <<m_metadata, w, visited>>
        /\ \A u \in Threads : th'[u].pc \notin {"construct", "use"}
    BY <1>0 DEF Construct, heap, collection, IdleThread, IInv, TypeOK
  <1>5. /\ \A l \in Stack : mem'[l] = IF l = <<t, k>> THEN p ELSE mem[l]
        /\ \A l \in Address : mem'[l] \in {v, mem[l]}
    BY <1>2, <1>3, NameAssumption DEF Construct, Location
  <1> HIDE DEF p, new
  <1>6. PlainInv'
    BY <1>3, <1>5 DEF PtrInv, PlainInv
  <1>7. LiveInv'
    BY <1>1, <1>4, <1>5 DEF PtrInv, LiveInv
  <1>8. ForwardInv'
    BY <1>1, <1>4, <1>5 DEF PtrInv, ForwardInv
  <1>9. w.pc # "idle" => p[1] = w.to
    BY <1>1, WorkerType
  <1>10. RootsInv'
    BY <1>4, <1>5, <1>9 DEF PtrInv, RootsInv, Forwarding, Moving
  <1>11. QED
    BY <1>6, <1>7, <1>8, <1>10 DEF PtrInv

(* Pointers are read, copied and cleared; they are copied only while no     *)
(* collection is at work.                                                   *)
LEMMA PtrUses ==
  ASSUME OneMutator, PointersInVariables, IInv, PtrInv, SerialInv',
         NEW t \in Threads, NEW k \in Slots,
         LoadPtr(t, k) \/ ClearSlot(t, k) \/ StorePtr(t, k)
  PROVE  PtrInv'
  <1>0. /\ \A u \in Threads : u = t
        /\ th \in [Threads -> ThreadState] /\ mem \in [Location -> Value]
        /\ <<t, k>> \in Stack /\ Stack \subseteq Location
        /\ Address \subseteq Location /\ Stack \cap Address = {}
    BY NameAssumption DEF OneMutator, IInv, TypeOK, Stack, Location
  <1>1. UNCHANGED <<m_metadata, w, visited>>
    BY DEF LoadPtr, ClearSlot, StorePtr, Uses, heap, collection
  <1>2. CASE LoadPtr(t, k)
    <2> DEFINE p == mem[<<t, k>>]
    <2>1. /\ UNCHANGED mem /\ p \in Address
          /\ th' = [th EXCEPT ![t] = [th[t] EXCEPT !.pc = "use", !.ptr = p]]
      BY <1>0, <1>2 DEF LoadPtr, ThreadState
    <2>2. th'[t].pc = "use" /\ th'[t].ptr = mem[<<t, k>>]
      BY <1>0, <2>1 DEF ThreadState
    <2>3. LiveInv'
      BY <1>0, <1>1, <2>1, <2>2 DEF PtrInv, LiveInv
    <2>4. PlainInv' /\ ForwardInv' /\ RootsInv'
      BY <1>1, <2>1 DEF PtrInv, PlainInv, ForwardInv, RootsInv
    <2>5. QED
      BY <2>3, <2>4 DEF PtrInv
  <1>3. CASE ClearSlot(t, k)
    <2>1. /\ th[t].pc = "idle" /\ UNCHANGED th
          /\ \A l \in Location : mem'[l] = IF l = <<t, k>> THEN Null ELSE mem[l]
      BY <1>0, <1>3 DEF ClearSlot
    <2>2. Null \in FatPtrs /\ Null \notin Address
      BY NameAssumption DEF FatPtrs
    <2>3. PlainInv' /\ LiveInv'
      BY <1>0, <1>1, <2>1, <2>2 DEF PtrInv, PlainInv, LiveInv
    <2>4. w.pc \in {"copy", "swing"} => w.new \in Address
      BY WorkerType DEF Moving
    <2>5. ForwardInv' /\ RootsInv'
      BY <1>0, <1>1, <2>1, <2>2, <2>4 DEF PtrInv, ForwardInv, RootsInv
    <2>6. QED
      BY <2>3, <2>5 DEF PtrInv
  <1>4. CASE StorePtr(t, k)
    <2>1. Serial /\ Mutator(t) /\ th[t].pc = "use"
      BY <1>4 DEF StorePtr, PointersInVariables, Mutator, Use
    <2>2. w.pc = "idle"
      BY <2>1, SerialQuiet DEF PtrInv
    <2>3. PICK x \in Stack : mem[x] = th[t].ptr
      BY <2>1 DEF PtrInv, LiveInv
    <2>4. /\ \A l \in Location : mem'[l] = IF l = <<t, k>> THEN mem[x] ELSE mem[l]
          /\ th'[t].pc = "idle"
      BY <1>0, <1>4, <2>3 DEF StorePtr, IdleThread
    <2>5. PlainInv' /\ LiveInv'
      BY <1>0, <1>1, <2>3, <2>4 DEF PtrInv, PlainInv, LiveInv
    <2>6. ForwardInv' /\ RootsInv'
      BY <1>1, <2>2 DEF ForwardInv, RootsInv, Forwarding, Moving
    <2>7. QED
      BY <2>5, <2>6 DEF PtrInv
  <1>5. QED
    BY <1>2, <1>3, <1>4

(* Data is written into the heap, where it is no pointer.                   *)
LEMMA PtrWrite ==
  ASSUME OneMutator, IInv, PtrInv, SerialInv', NEW t \in Threads,
         NEW d \in Data, WriteData(t, d)
  PROVE  PtrInv'
  <1>0. /\ \A u \in Threads : u = t
        /\ th \in [Threads -> ThreadState] /\ mem \in [Location -> Value]
        /\ Stack \subseteq Location /\ Address \subseteq Location
        /\ Stack \cap Address = {}
    BY NameAssumption DEF OneMutator, IInv, TypeOK, Location
  <1>1. UNCHANGED <<m_metadata, w, visited>>
    BY DEF WriteData, Uses, heap, collection
  <1>2. th[t].ptr \in Address
    BY DEF WriteData, PtrInv, LiveInv
  <1>3. /\ \A l \in Location : mem'[l] = IF l = th[t].ptr THEN d ELSE mem[l]
        /\ th'[t].pc = "idle"
    BY <1>0 DEF WriteData, IdleThread
  <1>4. d \notin Address
    BY NameAssumption DEF FatPtrs
  <1>5. \A l \in Stack : mem'[l] = mem[l]
    BY <1>0, <1>2, <1>3
  <1>6. PlainInv'
    BY <1>0, <1>3, <1>4, <1>5 DEF PtrInv, PlainInv
  <1>7. LiveInv' /\ ForwardInv' /\ RootsInv'
    BY <1>0, <1>1, <1>3, <1>5 DEF PtrInv, LiveInv, ForwardInv, RootsInv
  <1>8. QED
    BY <1>6, <1>7 DEF PtrInv

(* So does every step of the mutator.                                       *)
LEMMA PtrMutator ==
  ASSUME OneMutator, PointersInVariables, IInv, DInv, PtrInv, SerialInv',
         NEW t \in Threads, Mutator(t)
  PROVE  PtrInv'
  <1>1. \A k \in Slots : ~ WriteField(t, k)
    BY DEF PointersInVariables, WriteField
  <1>2. CASE Use(t) \/ \E k \in Slots : LoadPtr(t, k) \/ ClearSlot(t, k)
    BY <1>1, <1>2, PtrUses, PtrWrite DEF Use
  <1>3. CASE Emplace(t) \/ \E k \in Slots, v \in Fresh : Construct(t, k, v)
    BY <1>3, PtrEmplace, PtrConstruct
  <1>4. CASE \/ \E r \in Requests : CallAlloc(t, r)
             \/ CallCollect(t) \/ FrontCheck(t) \/ Reserve(t) \/ NoRoom(t)
             \/ Catch(t) \/ CollectLoop(t) \/ StartCollection(t)
             \/ SkipCollection(t)
    BY <1>4, CallSteps, PtrUntouched
  <1>5. QED
    BY <1>2, <1>3, <1>4 DEF Mutator, Call

-----------------------------------------------------------------------------
(* Steps that move nothing: what they read stays what the program holds.    *)
LEMMA PtrKept ==
  ASSUME PtrInv, SerialInv', ForwardInv', RootsInv',
         UNCHANGED <<m_space_num, m_metadata, mem, visited, th>>,
         w'.pc \notin {"copy", "swing", "erase"}
  PROVE  PtrInv'
  BY DEF PtrInv, PlainInv, LiveInv

(* Reading the next location, or passing one over, leaves no pointer        *)
(* behind that was to be forwarded.                                         *)
LEMMA PtrTrace ==
  ASSUME IInv, DInv, PtrInv, SerialInv',
         TaskStart \/ (\E l \in w.roots : TakeRoot(l)) \/ ReadTop \/ Ignore
  PROVE  PtrInv'
  <1>0. w \in WorkerState /\ Stack \cap Address = {}
    BY WorkerType, NameAssumption
  <1>1. UNCHANGED <<m_space_num, m_metadata, mem, visited, th>>
    BY DEF TaskStart, TakeRoot, ReadTop, Ignore, Mutators, DInv, MovedInv
  <1>2. CASE TaskStart
    <2>1. w'.pc = "trace" /\ w'.roots = Stack
      BY <1>2 DEF TaskStart, IdleWorker, Roots, PtrInv, PlainInv
    <2>2. ForwardInv' /\ RootsInv'
      BY <1>1, <2>1 DEF ForwardInv, RootsInv, Forwarding, Moving
    <2>3. QED
      BY <1>1, <2>1, <2>2, PtrKept
  <1>3. CASE \E l \in w.roots : TakeRoot(l)
    <2>1. PICK l \in w.roots : TakeRoot(l)
      BY <1>3
    <2>2. /\ w.pc = "trace" /\ w.stack = <<>> /\ w'.pc = "trace"
          /\ w'.to = w.to /\ w'.roots = w.roots \ {l}
          /\ mem[l] \in Address => w'.stack = <<l>>
      BY <1>0, <2>1 DEF TakeRoot, WorkerState
    <2>3. ForwardInv'
      BY <2>2 DEF ForwardInv, Forwarding, Moving
    <2>4. \A x : <<x>> # <<>>
      OBVIOUS
    <2>5. RootsInv'
      BY <1>1, <2>2, <2>4 DEF PtrInv, RootsInv, Forwarding, Moving
    <2>6. QED
      BY <1>1, <2>2, <2>3, <2>5, PtrKept
  <1>4. CASE ReadTop
    <2> DEFINE l == Head(w.stack)
    <2>1. l \in Location /\ \A x : w.stack = <<x>> => x = l
      BY <1>0, <1>4 DEF ReadTop, WorkerState
    <2>2. w.pc = "trace"
      BY <1>4 DEF ReadTop
    <2>3. CASE mem[l] \in FatPtrs
      <3>1. /\ w'.pc = "forward" /\ w'.to = w.to /\ w'.roots = w.roots
            /\ w'.at = l /\ w'.val = mem[l]
        BY <1>0, <1>4, <2>3 DEF ReadTop, WorkerState
      <3>2. mem[l] \in Address =>
              l \in Stack /\ mem[l] \in DOMAIN m_metadata \cup DOMAIN visited
        BY <2>1 DEF PtrInv, PlainInv, LiveInv, Location
      <3>3. ForwardInv'
        BY <1>1, <3>1, <3>2 DEF ForwardInv
      <3>4. RootsInv'
        BY <1>1, <2>1, <2>2, <3>1 DEF PtrInv, RootsInv, Forwarding, Moving
      <3>5. QED
        BY <1>1, <3>1, <3>3, <3>4, PtrKept
    <2>4. CASE mem[l] \notin FatPtrs
      <3>1. w'.pc = "trace" /\ w'.to = w.to /\ w'.roots = w.roots
        BY <1>0, <1>4, <2>2, <2>4 DEF ReadTop, WorkerState
      <3>2. l \notin Stack
        BY <2>4 DEF PtrInv, PlainInv
      <3>3. ForwardInv'
        BY <3>1 DEF ForwardInv, Forwarding, Moving
      <3>4. RootsInv'
        BY <1>1, <2>1, <2>2, <3>1, <3>2
           DEF PtrInv, RootsInv, Forwarding, Moving
      <3>5. QED
        BY <1>1, <3>1, <3>3, <3>4, PtrKept
    <2>5. QED
      BY <2>3, <2>4
  <1>5. CASE Ignore
    <2>1. /\ w.pc = "forward" /\ w'.pc = "trace" /\ w'.to = w.to
          /\ w'.roots = w.roots
          /\ w.val \in Address => w.val[1] = w.to
      BY <1>0, <1>5 DEF Ignore, Managed, WorkerState, PtrInv, ForwardInv,
                        Forwarding
    <2>2. ForwardInv'
      BY <2>1 DEF ForwardInv, Forwarding, Moving
    <2>3. RootsInv'
      BY <1>1, <2>1 DEF PtrInv, RootsInv, Forwarding, Moving
    <2>4. QED
      BY <1>1, <2>1, <2>2, <2>3, PtrKept
  <1>6. QED
    BY <1>2, <1>3, <1>4, <1>5

(* Nor does anything a collection does to an object before it is copied.    *)
LEMMA PtrScan ==
  ASSUME IInv, PtrInv, SerialInv',
         Scan \/ ScanMember \/ CopyReserve \/ CopyCheck \/ CopyAbort
  PROVE  PtrInv'
  <1>0. w \in WorkerState
    BY WorkerType
  <1>1. UNCHANGED <<m_space_num, m_metadata, mem, visited, th>>
    BY DEF Scan, ScanMember, CopyReserve, CopyCheck, CopyAbort, Mutators
  <1>2. CASE CopyAbort
    <2>1. w'.pc = "aborted"
      BY <1>0, <1>2 DEF CopyAbort, WorkerState
    <2>2. ForwardInv' /\ RootsInv'
      BY <2>1 DEF ForwardInv, RootsInv, Forwarding, Moving
    <2>3. QED
      BY <1>1, <2>1, <2>2, PtrKept
  <1>3. CASE ~ CopyAbort
    <2>1. /\ w.pc \in Forwarding \ {"copy", "swing", "erase"}
          /\ w'.pc \in Forwarding \ {"copy", "swing", "erase"}
          /\ w'.to = w.to /\ w'.roots = w.roots
          /\ w'.at = w.at /\ w'.val = w.val
      <3>1. CASE Scan \/ ScanMember
        BY <1>0, <3>1 DEF Scan, ScanMember, WorkerState, Forwarding, Moving
      <3>2. CASE CopyReserve
        <4> DEFINE p == <<w.to, At(w.to, old_data)>>
        <4>1. w.pc = "scan" /\ w' = [w EXCEPT !.pc = "check", !.new = p]
          BY <3>2 DEF CopyReserve
        <4> HIDE DEF p
        <4>2. QED
          BY <1>0, <4>1 DEF WorkerState, Forwarding, Moving
      <3>3. CASE CopyCheck
        BY <1>0, <3>3 DEF CopyCheck, WorkerState, Forwarding, Moving
      <3>4. QED
        BY <1>3, <3>1, <3>2, <3>3
    <2>2. ForwardInv' /\ RootsInv'
      BY <1>1, <2>1 DEF PtrInv, ForwardInv, RootsInv, Forwarding, Moving
    <2>3. QED
      BY <1>1, <2>1, <2>2, PtrKept DEF Forwarding, Moving
  <1>4. QED
    BY <1>2, <1>3

(* compare_exchange on the variable that is forwarded: it leads into the    *)
(* new space afterwards, or it has changed since it was read.               *)
LEMMA PtrExchange ==
  ASSUME IInv, DInv, PtrInv, SerialInv', w.pc \in {"forward", "swing"},
         w.at \in Stack, NEW p \in DOMAIN m_metadata, p[1] = w.to,
         mem' = Exchanged(p),
         UNCHANGED <<m_space_num, m_metadata, visited, th>>,
         w'.to = w.to, w'.roots = w.roots, ForwardInv',
         w.pc = "forward" => w'.pc = "trace" /\ p \in {visited[o] : o \in DOMAIN visited},
         w.pc = "swing" => w'.pc = "erase" /\ p = w.new /\ w'.new = w.new
  PROVE  PtrInv'
  <1>0. /\ mem \in [Location -> Value] /\ Stack \subseteq Location
        /\ Address \subseteq Location /\ Stack \cap Address = {}
    BY NameAssumption DEF IInv, TypeOK, Location
  <1>1. p \in Address /\ p \in FatPtrs
    BY WorkerType DEF FatPtrs
  <1>2. \A l \in Location : mem'[l] = IF l = w.at /\ mem[l] = w.val THEN p ELSE mem[l]
    BY <1>0 DEF Exchanged
  <1>3. PlainInv'
    BY <1>0, <1>1, <1>2 DEF PtrInv, PlainInv
  <1>4. \A t \in Threads : th[t].pc = "construct" => p # th[t].ptr
    BY DEF PtrInv, LiveInv
  <1>5. ASSUME Serial PROVE \A t \in Threads : th[t].pc = "inline"
    BY <1>5 DEF IInv, SingleCollection, PtrInv, SerialInv
  <1>6. LiveInv'
    BY <1>0, <1>2, <1>4, <1>5 DEF PtrInv, LiveInv
  <1>7. RootsInv'
    BY <1>0, <1>2 DEF PtrInv, RootsInv, Forwarding, Moving
  <1>8. QED
    BY <1>3, <1>6, <1>7 DEF PtrInv

(* The compare-exchange gives a location the address of the copy.           *)
LEMMA PtrSwing ==
  ASSUME IInv, DInv, PtrInv, SerialInv', Redirect \/ Swing
  PROVE  PtrInv'
  <1>0. w \in WorkerState
    BY WorkerType
  <1>1. CASE Redirect
    <2> DEFINE p == visited[w.val]
    <2>1. /\ w.pc = "forward" /\ w.val \in DOMAIN visited
          /\ w'.pc = "trace" /\ w'.to = w.to /\ w'.roots = w.roots
          /\ UNCHANGED <<m_space_num, m_metadata, visited, th>>
          /\ mem' = Exchanged(p)
      BY <1>0, <1>1 DEF Redirect, Mutators, WorkerState
    <2>2. p \in DOMAIN m_metadata /\ p[1] = w.to /\ w.val \in Address
      BY <2>1 DEF DInv, MovedInv, IInv, TypeOK
    <2>3. w.at \in Stack
      BY <2>1, <2>2 DEF PtrInv, ForwardInv, Forwarding
    <2>4. ForwardInv'
      BY <2>1 DEF ForwardInv, Forwarding, Moving
    <2>5. p \in {visited[o] : o \in DOMAIN visited}
      BY <2>1
    <2> HIDE DEF p
    <2>6. QED
      BY <2>1, <2>2, <2>3, <2>4, <2>5, PtrExchange
  <1>2. CASE Swing
    <2>1. /\ w.pc = "swing" /\ w'.pc = "erase" /\ w'.to = w.to
          /\ w'.roots = w.roots /\ w'.at = w.at /\ w'.val = w.val
          /\ w'.new = w.new /\ mem' = Exchanged(w.new)
          /\ UNCHANGED <<m_space_num, m_metadata, visited, th>>
      BY <1>0, <1>2 DEF Swing, Mutators, WorkerState
    <2>2. /\ w.new \in DOMAIN m_metadata /\ w.new[1] = w.to
          /\ w.val \in DOMAIN m_metadata /\ w.val \in Address
      BY <2>1, WorkerType DEF DInv, MovedInv, Moving
    <2>3. w.at \in Stack
      BY <2>1, <2>2 DEF PtrInv, ForwardInv, Forwarding, Moving
    <2>4. ForwardInv'
      BY <2>1, <2>2, <2>3 DEF ForwardInv
    <2>5. QED
      BY <2>1, <2>2, <2>3, <2>4, PtrExchange
  <1>3. QED
    BY <1>1, <1>2

(* The copy is entered and written; no variable knows it.                   *)
LEMMA PtrCopy ==
  ASSUME IInv, DInv, PtrInv, SerialInv', CopyEmplace \/ CopyWord
  PROVE  PtrInv'
  <1>0. /\ w \in WorkerState /\ mem \in [Location -> Value]
        /\ Stack \subseteq Location /\ Address \subseteq Location
        /\ Stack \cap Address = {}
    BY NameAssumption DEF IInv, TypeOK, Location
  <1>1. CASE CopyEmplace
    <2> DEFINE p == w.new  r == old_data
    <2>1. /\ UNCHANGED <<m_space_num, mem, visited, th>>
          /\ m_metadata' = Emplaced(m_metadata, p, r)
          /\ w.pc = "emplace" /\ w'.pc = "copy" /\ w'.new = p /\ w'.to = w.to
          /\ w'.roots = w.roots /\ w'.at = w.at /\ w'.val = w.val
      BY <1>0, <1>1 DEF CopyEmplace, Mutators, WorkerState
    <2>2. /\ p \in Address /\ p[1] = w.to /\ ClearOf(p, r.size)
          /\ r.size \in Nat /\ r.size > 0
      BY <2>1, WorkerType DEF Moving, DInv, PendingInv
    <2>3. p \notin DOMAIN m_metadata /\ p \notin DOMAIN visited
      BY <2>2, Unmanaged DEF DInv, MovedInv
    <2> HIDE DEF p, r
    <2>4. /\ DOMAIN m_metadata' = DOMAIN m_metadata \cup {p}
          /\ \A o \in DOMAIN m_metadata : m_metadata'[o] = m_metadata[o]
      BY <2>1 DEF Emplaced
    <2>5. \A o \in DOMAIN visited : visited[o] \in DOMAIN m_metadata
      BY DEF DInv, MovedInv
    <2>6. LiveInv'
      BY <2>1, <2>2, <2>3, <2>4, <2>5 DEF PtrInv, LiveInv
    <2>7. ForwardInv'
      BY <2>1, <2>2, <2>3, <2>4 DEF PtrInv, ForwardInv, LiveInv, Forwarding, Moving
    <2>8. PlainInv' /\ RootsInv'
      BY <2>1 DEF PtrInv, PlainInv, RootsInv, Forwarding, Moving
    <2>9. QED
      BY <2>6, <2>7, <2>8 DEF PtrInv
  <1>2. CASE CopyWord
    <2>1. /\ UNCHANGED <<m_space_num, m_metadata, visited, th>>
          /\ w.pc = "copy" /\ w'.pc \in {"copy", "swing"}
          /\ w'.new = w.new /\ w'.to = w.to
          /\ w'.roots = w.roots /\ w'.at = w.at /\ w'.val = w.val
          /\ \A l \in Stack : mem'[l] = mem[l]
          /\ \A l \in Address : \E d \in Address : mem'[l] = mem[d]
      BY <1>2, CopyWordHeap DEF Mutators
    <2>2. PlainInv'
      BY <2>1 DEF PtrInv, PlainInv
    <2>3. LiveInv' /\ ForwardInv'
      BY <2>1 DEF PtrInv, LiveInv, ForwardInv, Forwarding, Moving
    <2>4. RootsInv'
      BY <2>1 DEF PtrInv, RootsInv, Forwarding, Moving
    <2>5. QED
      BY <2>2, <2>3, <2>4 DEF PtrInv
  <1>3. QED
    BY <1>1, <1>2

(* What is erased has been moved; what is swept is in no variable.          *)
LEMMA PtrErase ==
  ASSUME IInv, DInv, PtrInv, SerialInv', EraseOld \/ Sweep
  PROVE  PtrInv'
  <1>0. w \in WorkerState
    BY WorkerType
  <1>1. UNCHANGED <<m_space_num, mem, th>>
    BY DEF EraseOld, Sweep, Mutators
  <1>2. CASE EraseOld
    <2>1. /\ w.pc = "erase" /\ w'.pc = "trace" /\ w'.to = w.to
          /\ w'.roots = w.roots
      BY <1>0, <1>2 DEF EraseOld, WorkerState
    <2>2. /\ DOMAIN m_metadata' = DOMAIN m_metadata \ {w.val}
          /\ \A o \in DOMAIN m_metadata' : m_metadata'[o] = m_metadata[o]
      BY <1>2 DEF EraseOld, Restrict
    <2>3. /\ w.val[1] # w.to /\ w.to = m_space_num /\ w.val \in DOMAIN m_metadata
      BY <2>1, WorkerType DEF Moving
    <2>4. /\ DOMAIN visited' = DOMAIN visited \cup {w.val}
          /\ \A o \in DOMAIN visited' : visited'[o] \in {w.new} \cup
               {visited[q] : q \in DOMAIN visited}
      BY <1>2 DEF EraseOld, Emplaced
    <2>5. LiveInv'
      BY <1>1, <2>1, <2>2, <2>3, <2>4 DEF PtrInv, LiveInv
    <2>6. ForwardInv' /\ PlainInv'
      BY <1>1, <2>1 DEF PtrInv, PlainInv, ForwardInv, Forwarding, Moving
    <2>7. RootsInv'
      BY <1>1, <2>1 DEF PtrInv, RootsInv, Forwarding, Moving
    <2>8. QED
      BY <2>5, <2>6, <2>7 DEF PtrInv
  <1>3. CASE Sweep
    <2>1. /\ w.pc = "trace" /\ w.stack = <<>> /\ w.roots = {}
          /\ w'.pc = "swept" /\ w'.to = w.to /\ UNCHANGED visited
      BY <1>0, <1>3 DEF Sweep, WorkerState
    <2>2. /\ DOMAIN m_metadata' = {o \in DOMAIN m_metadata : Survives(o)}
          /\ \A o \in DOMAIN m_metadata' : m_metadata'[o] = m_metadata[o]
      BY <1>3 DEF Sweep, Restrict
    <2>3. \A l \in Stack : mem[l] \in Address => mem[l][1] = w.to
      <3>1. \A x : <<x>> # <<>>
        OBVIOUS
      <3>2. QED
        BY <2>1, <3>1 DEF PtrInv, RootsInv, Forwarding, Moving
    <2>4. w.to = m_space_num
      BY <2>1, WorkerType
    <2>5. LiveInv'
      BY <1>1, <2>1, <2>2, <2>3, <2>4 DEF PtrInv, LiveInv, Survives
    <2>6. ForwardInv' /\ PlainInv'
      BY <1>1, <2>1 DEF PtrInv, PlainInv, ForwardInv, Forwarding, Moving
    <2>7. RootsInv'
      BY <1>1, <2>1, <2>3 DEF RootsInv
    <2>8. QED
      BY <2>5, <2>6, <2>7 DEF PtrInv
  <1>4. QED
    BY <1>2, <1>3

(* A collection may end when no variable leads to what it has moved.        *)
LEMMA PtrFinish ==
  ASSUME IInv, DInv, PtrInv, SerialInv', Finish,
         w.pc = "swept" \/ \A l \in Stack : mem[l] \notin DOMAIN visited
  PROVE  PtrInv'
  <1>0. th \in [Threads -> ThreadState]
    BY DEF IInv, TypeOK
  <1>1. /\ UNCHANGED <<m_space_num, m_metadata, mem>> /\ visited' = <<>>
        /\ w'.pc = "idle"
    BY DEF Finish, heap, IdleWorker
  <1>2. \A t \in Threads : th'[t].pc \in {"construct", "use"} => th'[t] = th[t]
    BY <1>0 DEF Finish, Woken, Resumed, IdleThread, ThreadState
  <1>3. \A l \in Stack : mem[l] \in Address => mem[l] \in DOMAIN m_metadata
    <2>1. CASE w.pc = "swept"
      <3>1. \A l \in Stack : mem[l] \in Address => mem[l][1] = w.to
        BY <2>1 DEF PtrInv, RootsInv, Forwarding, Moving
      <3>2. QED
        BY <3>1 DEF PtrInv, LiveInv, DInv, MovedInv
    <2>2. CASE \A l \in Stack : mem[l] \notin DOMAIN visited
      BY <2>2 DEF PtrInv, LiveInv
    <2>3. QED
      BY <2>1, <2>2
  <1>4. LiveInv'
    BY <1>1, <1>2, <1>3 DEF PtrInv, LiveInv
  <1>5. PlainInv' /\ ForwardInv' /\ RootsInv'
    BY <1>1 DEF PtrInv, PlainInv, ForwardInv, RootsInv, Forwarding, Moving
  <1>6. QED
    BY <1>4, <1>5 DEF PtrInv

(* Every step, unless a collection gives up while variables still lead to   *)
(* what it has moved.                                                       *)
LEMMA StepPtrInv ==
  ASSUME OneMutator, PointersInVariables, IInv, DInv, PtrInv, [Next]_vars,
         Finish => w.pc = "swept" \/ \A l \in Stack : mem[l] \notin DOMAIN visited
  PROVE  PtrInv'
  <1>1. SerialInv'
    BY SerialStep DEF PtrInv
  <1>2. CASE \E t \in Threads : Mutator(t)
    BY <1>1, <1>2, PtrMutator
  <1>3. CASE Collection
    BY <1>1, <1>3, PtrTrace, PtrScan, PtrSwing, PtrCopy, PtrErase, PtrFinish
       DEF Collection
  <1>4. CASE UNCHANGED vars
    BY <1>1, <1>4 DEF vars, PtrInv, PlainInv, LiveInv, ForwardInv, RootsInv
  <1>5. QED
    BY <1>2, <1>3, <1>4 DEF Next

(* At first every variable is null.                                         *)
LEMMA InitPtrInv == Init => PtrInv
  BY NameAssumption
     DEF Init, PtrInv, SerialInv, PlainInv, LiveInv, ForwardInv, RootsInv,
         Forwarding, Moving, IdleThread, IdleWorker, FatPtrs, Location

-----------------------------------------------------------------------------
(* Steps of a mutator that neither copies pointers nor stores them in the   *)
(* heap: a pointer that becomes known is that of a new object.              *)
LEMMA AloneMutator ==
  ASSUME OneMutator, PointersInVariables, "copy" \notin Ops,
         IInv, DInv, PtrInv, AloneInv, NEW t \in Threads, Mutator(t)
  PROVE  AloneInv'
  <1>0. /\ \A u \in Threads : u = t
        /\ th \in [Threads -> ThreadState] /\ mem \in [Location -> Value]
        /\ Stack \subseteq Location /\ Address \subseteq Location
        /\ Stack \cap Address = {}
    BY NameAssumption DEF OneMutator, IInv, TypeOK, Location
  <1>1. ASSUME UNCHANGED <<mem, w, visited>>, th'[t].pc # "construct"
        PROVE  AloneInv'
    BY <1>0, <1>1 DEF AloneInv
  <1>2. CASE Emplace(t)
    <2> DEFINE p == th[t].ptr
    <2>1. /\ p \in Address /\ p[1] = m_space_num /\ p \notin DOMAIN m_metadata
      <3>1. /\ th[t].req.size \in Nat /\ th[t].req.size > 0 /\ p \in Address
            /\ p[1] = m_space_num /\ ClearOf(p, th[t].req.size)
        BY <1>2, RequestType DEF Emplace, IInv, ThreadInv, DInv, PendingInv
      <3>2. QED
        BY <3>1, Unmanaged
    <2>2. p \notin DOMAIN visited
      BY <2>1, WorkerType DEF DInv, MovedInv
    <2>3. w.pc = "forward" => p # w.val
      BY <2>1, <2>2 DEF PtrInv, ForwardInv, Forwarding
    <2>4. UNCHANGED <<mem, w, visited>> /\ th'[t].ptr = p
      BY <1>0, <1>2 DEF Emplace, collection, ThreadState
    <2>5. QED
      BY <1>0, <2>3, <2>4 DEF AloneInv
  <1>3. CASE \E k \in Slots, v \in Fresh : Construct(t, k, v)
    <2>1. PICK k \in Slots, v \in Fresh : Construct(t, k, v)
      BY <1>3
    <2> DEFINE p == th[t].ptr
    <2>2. /\ p \in DOMAIN m_metadata /\ m_metadata[p] = th[t].req
          /\ p[1] = m_space_num /\ p \in Address
          /\ \A l \in Stack : mem[l] # p
          /\ w.pc = "forward" => p # w.val
      BY <2>1, WorkerType DEF Construct, PtrInv, LiveInv, AloneInv
    <2>3. w.pc \in Moving => p # w.val
      BY <2>2, WorkerType DEF Moving
    <2>4. UNCHANGED <<w, visited>> /\ th'[t].pc # "construct"
      BY <1>0, <2>1 DEF Construct, collection, IdleThread
    <2>5. Cells(p, th[t].req.size) \subseteq Address
      BY <2>2, ObjectCells
    <2>6. \A l \in Stack : mem'[l] = IF l = <<t, k>> THEN p ELSE mem[l]
      BY <1>0, <2>1, <2>5 DEF Construct, Location
    <2> HIDE DEF p
    <2>7. p \notin DOMAIN visited
      BY <2>2 DEF DInv, MovedInv
    <2>8. QED
      BY <1>0, <2>2, <2>3, <2>4, <2>6, <2>7 DEF AloneInv, Forwarding, Moving
  <1>4. CASE \E k \in Slots : ClearSlot(t, k)
    <2>1. PICK k \in Slots : ClearSlot(t, k)
      BY <1>4
    <2>2. /\ UNCHANGED <<th, w, visited>> /\ Null \notin Address
          /\ \A l \in Stack : mem'[l] = IF l = <<t, k>> THEN Null ELSE mem[l]
      BY <1>0, <2>1, NameAssumption DEF ClearSlot, Uses, collection
    <2>3. /\ \A o \in DOMAIN visited : o \in Address
          /\ w.pc \in Moving => w.val \in Address
      BY WorkerType DEF IInv, TypeOK
    <2>4. QED
      BY <2>2, <2>3 DEF AloneInv, Moving
  <1>5. CASE \E d \in Data : WriteData(t, d)
    <2>1. PICK d \in Data : WriteData(t, d)
      BY <1>5
    <2>2. /\ th[t].ptr \in Address /\ UNCHANGED <<w, visited>>
          /\ th'[t].pc # "construct"
      BY <1>0, <2>1 DEF WriteData, PtrInv, LiveInv, IdleThread, Uses, collection
    <2>3. \A l \in Stack : mem'[l] = mem[l]
      BY <1>0, <2>1, <2>2 DEF WriteData
    <2>4. QED
      BY <1>0, <2>2, <2>3 DEF AloneInv
  <1>6. CASE \E k \in Slots : LoadPtr(t, k)
    <2>1. PICK k \in Slots : LoadPtr(t, k)
      BY <1>6
    <2> DEFINE p == mem[<<t, k>>]
    <2>2. th' = [th EXCEPT ![t] = [th[t] EXCEPT !.pc = "use", !.ptr = p]]
      BY <1>0, <2>1 DEF LoadPtr, ThreadState
    <2> HIDE DEF p
    <2>3. [th[t] EXCEPT !.pc = "use", !.ptr = p].pc = "use"
      BY <1>0 DEF ThreadState
    <2>4. th'[t].pc # "construct"
      BY <1>0, <2>2, <2>3
    <2>5. QED
      BY <1>1, <2>1, <2>4 DEF LoadPtr, Uses, collection
  <1>7. CASE \/ \E r \in Requests : CallAlloc(t, r)
             \/ CallCollect(t) \/ FrontCheck(t) \/ Reserve(t) \/ NoRoom(t)
             \/ Catch(t) \/ CollectLoop(t) \/ StartCollection(t)
             \/ SkipCollection(t)
    BY <1>1, <1>7, CallSteps
  <1>8. \A k \in Slots : ~ StorePtr(t, k) /\ ~ WriteField(t, k)
    BY DEF StorePtr, WriteField, PointersInVariables
  <1>9. QED
    BY <1>2, <1>3, <1>4, <1>5, <1>6, <1>7, <1>8 DEF Mutator, Call, Use

(* Steps of the collection: what is moved leaves the one variable it is in. *)
LEMMA AloneCollection ==
  ASSUME IInv, DInv, PtrInv, AloneInv, Collection
  PROVE  AloneInv'
  <1>0. /\ w \in WorkerState /\ mem \in [Location -> Value]
        /\ th \in [Threads -> ThreadState]
        /\ Stack \subseteq Location /\ Address \subseteq Location
        /\ Stack \cap Address = {}
    BY NameAssumption DEF IInv, TypeOK, Location
  <1>1. CASE TaskStart \/ (\E l \in w.roots : TakeRoot(l)) \/ Ignore \/ CopyAbort \/ Sweep
    <2>1. UNCHANGED <<mem, th>> /\ visited' \in {visited, <<>>}
      BY <1>1 DEF TaskStart, TakeRoot, Ignore, CopyAbort, Sweep, Mutators
    <2>2. w'.pc \in {"trace", "aborted", "swept"}
      <3>1. TaskStart => w'.pc = "trace"
        BY DEF TaskStart, IdleWorker
      <3>2. QED
        BY <1>0, <1>1, <3>1 DEF TakeRoot, Ignore, CopyAbort, Sweep, WorkerState
    <2>3. QED
      BY <2>1, <2>2 DEF AloneInv, Forwarding, Moving
  <1>2. CASE ReadTop
    <2> DEFINE l == Head(w.stack)
    <2>1. l \in Location /\ UNCHANGED <<mem, th, visited>>
      BY <1>0, <1>2 DEF ReadTop, WorkerState, Mutators
    <2>2. CASE mem[l] \in FatPtrs
      <3>1. w'.pc = "forward" /\ w'.at = l /\ w'.val = mem[l]
        BY <1>0, <1>2, <2>2 DEF ReadTop, WorkerState
      <3>2. mem[l] \in Address => l \in Stack
        BY <2>1 DEF PtrInv, PlainInv, Location
      <3>3. \A t \in Threads : th[t].pc = "construct" => th[t].ptr # mem[l]
        <4>1. ASSUME NEW t \in Threads, th[t].pc = "construct"
              PROVE  th[t].ptr \in Address
          BY <4>1, WorkerType DEF PtrInv, LiveInv
        <4>2. QED
          BY <3>2, <4>1 DEF PtrInv, LiveInv
      <3>4. QED
        BY <2>1, <3>1, <3>2, <3>3 DEF AloneInv, Forwarding, Moving
    <2>3. CASE mem[l] \notin FatPtrs
      <3>1. w'.pc = "trace"
        BY <1>0, <1>2, <2>3 DEF ReadTop, WorkerState
      <3>2. QED
        BY <2>1, <3>1 DEF AloneInv, Forwarding, Moving
    <2>4. QED
      BY <2>2, <2>3
  <1>3. CASE Redirect
    <2>1. w.pc = "forward" /\ w.val \in DOMAIN visited /\ w.val \in Address
      BY <1>3 DEF Redirect, IInv, TypeOK
    <2>2. QED
      BY <2>1 DEF AloneInv, Forwarding
  <1>4. CASE Scan \/ ScanMember \/ CopyReserve \/ CopyCheck \/ CopyEmplace
    <2>1. UNCHANGED <<mem, th, visited>>
      BY <1>4 DEF Scan, ScanMember, CopyReserve, CopyCheck, CopyEmplace, Mutators
    <2>2. /\ w.pc \in Forwarding /\ w'.pc \in Moving \ {"erase"}
          /\ w'.at = w.at /\ w'.val = w.val
      <3>1. CASE Scan \/ ScanMember \/ CopyCheck \/ CopyEmplace
        BY <1>0, <3>1 DEF Scan, ScanMember, CopyCheck, CopyEmplace, WorkerState,
                          Forwarding, Moving
      <3>2. CASE CopyReserve
        <4> DEFINE p == <<w.to, At(w.to, old_data)>>
        <4>1. w.pc = "scan" /\ w' = [w EXCEPT !.pc = "check", !.new = p]
          BY <3>2 DEF CopyReserve
        <4> HIDE DEF p
        <4>2. QED
          BY <1>0, <4>1 DEF WorkerState, Forwarding, Moving
      <3>3. QED
        BY <1>4, <3>1, <3>2
    <2>3. QED
      BY <2>1, <2>2 DEF AloneInv, Moving, Forwarding
  <1>5. CASE CopyWord
    <2>1. /\ UNCHANGED <<th, visited>> /\ \A l \in Stack : mem'[l] = mem[l]
          /\ w.pc = "copy" /\ w'.pc \in {"copy", "swing"}
          /\ w'.at = w.at /\ w'.val = w.val
      BY <1>5, CopyWordHeap DEF Mutators
    <2>2. QED
      BY <2>1 DEF AloneInv, Forwarding, Moving
  <1>6. CASE Swing
    <2>1. /\ UNCHANGED <<th, visited>> /\ mem' = Exchanged(w.new)
          /\ w.pc = "swing" /\ w'.pc = "erase"
          /\ w'.at = w.at /\ w'.val = w.val
      BY <1>0, <1>6 DEF Swing, Mutators, WorkerState
    <2>2. /\ w.new \in DOMAIN m_metadata /\ w.new[1] = w.to
          /\ w.val \in Address /\ w.val[1] # w.to
          /\ w.new \notin DOMAIN visited
          /\ \A l \in Stack : mem[l] # w.new
      BY <2>1, WorkerType DEF DInv, MovedInv, Moving, PtrInv, ForwardInv
    <2>3. \A l \in Location :
            mem'[l] = IF l = w.at /\ mem[l] = w.val THEN w.new ELSE mem[l]
      BY <1>0, <2>1 DEF Exchanged
    <2>4. /\ w.val \notin DOMAIN visited
          /\ \A l \in Stack \ {w.at} : mem[l] # w.val
      BY <2>1, <2>2 DEF AloneInv, Forwarding, Moving
    <2>5. QED
      BY <1>0, <2>1, <2>2, <2>3, <2>4 DEF AloneInv
  <1>7. CASE EraseOld
    <2>1. /\ UNCHANGED <<th, mem>> /\ w.pc = "erase" /\ w'.pc = "trace"
          /\ DOMAIN visited' = DOMAIN visited \cup {w.val}
      BY <1>0, <1>7 DEF EraseOld, Mutators, WorkerState, Emplaced
    <2>2. QED
      BY <2>1 DEF AloneInv, Forwarding, Moving
  <1>8. CASE Finish
    <2>1. UNCHANGED mem /\ w'.pc = "idle" /\ visited' = <<>>
      BY <1>8 DEF Finish, IdleWorker
    <2>2. QED
      BY <2>1 DEF AloneInv, Forwarding, Moving
  <1>9. QED
    BY <1>1, <1>2, <1>3, <1>4, <1>5, <1>6, <1>7, <1>8 DEF Collection

(* No object is in two variables at first.                                  *)
LEMMA InitAlone == Init => AloneInv
  BY NameAssumption
     DEF Init, AloneInv, Forwarding, Moving, IdleThread, IdleWorker, Location

(* No variable refers to memory the collector has given up, before, during  *)
(* and after every collection, also one that aborts: for one mutator that   *)
(* keeps each pointer in one variable, either policy, any heap and requests.*)
(* Copies and pointers in objects are left out for a reason: a collection   *)
(* that aborts after it has moved an object leaves the other pointers to it *)
(* behind.                                                                  *)
THEOREM RootsStayManaged ==
  ASSUME OneMutator, Ops \cap {"copy", "field"} = {}
  PROVE  Spec => []RootsManaged
  <1> DEFINE Inv == IInv /\ DInv /\ PtrInv /\ AloneInv
  <1>1. PointersInVariables /\ "copy" \notin Ops
    BY DEF PointersInVariables
  <1>2. Inv /\ [Next]_vars => Inv'
    <2> SUFFICES ASSUME Inv, [Next]_vars PROVE Inv'
      OBVIOUS
    <2>1. IInv' /\ DInv'
      BY StepIInv, StepDInv
    <2>2. \A l \in Stack : mem[l] \notin DOMAIN visited
      BY DEF AloneInv
    <2>3. PtrInv'
      BY <1>1, <2>2, StepPtrInv
    <2>4. UNCHANGED vars => AloneInv'
      BY DEF vars, AloneInv
    <2>5. AloneInv'
      BY <1>1, <2>4, AloneMutator, AloneCollection DEF Next
    <2>6. QED
      BY <2>1, <2>3, <2>5
  <1>3. Init => Inv
    BY InitIInv, InitDInv, InitPtrInv, InitAlone
  <1>4. Inv => RootsManaged
    BY DEF PtrInv, LiveInv, AloneInv, RootsManaged
  <1>5. QED
    BY <1>2, <1>3, <1>4, PTL DEF Spec

-----------------------------------------------------------------------------
(* The cells copied so far are equal, and nobody else has been given the    *)
(* copy.                                                                    *)
Copied == IF w.pc = "copy" THEN w.i ELSE old_data.size
CopiedInv ==
  w.pc \in {"copy", "swing"} =>
    /\ \A i \in 0 .. (Copied - 1) : mem[Cell(w.new, i)] = mem[Cell(w.val, i)]
    /\ \A o \in DOMAIN visited : visited[o] # w.new

-----------------------------------------------------------------------------
(* Objects have no cell in common.                                          *)
LEMMA CellsDiffer ==
  ASSUME IInv, DInv, NEW o \in DOMAIN m_metadata, NEW p \in DOMAIN m_metadata,
         o # p, NEW i \in Nat, i < m_metadata[o].size
  PROVE  Cell(o, i) \notin Cells(p, m_metadata[p].size)
  BY WorkerType DEF DInv, MetadataDisjoint, Cell, Cells

(* An object and its copy while cells are copied                            *)
LEMMA CopyingType ==
  ASSUME IInv, DInv, w.pc \in {"copy", "swing"}
  PROVE  /\ w.val \in DOMAIN m_metadata /\ w.new \in DOMAIN m_metadata
         /\ w.val # w.new /\ w.val[1] # m_space_num
         /\ m_metadata[w.new] = old_data
         /\ old_data = m_metadata[w.val]
         /\ old_data.size \in Nat /\ old_data.size > 0
         /\ w.i \in Nat /\ (w.pc = "copy" => w.i < old_data.size)
         /\ Copied \in Nat /\ Copied <= old_data.size
  <1>1. /\ w \in WorkerState /\ w.val \in DOMAIN m_metadata /\ w.val[1] # w.to
        /\ w.to = m_space_num /\ old_data.size \in Nat /\ old_data.size > 0
    BY WorkerType DEF Moving
  <1>2. /\ w.new \in DOMAIN m_metadata /\ w.new[1] = w.to
        /\ m_metadata[w.new] = old_data
    BY DEF DInv, MovedInv
  <1>3. w.i \in Nat /\ (w.pc = "copy" => w.i < old_data.size)
    BY <1>1 DEF WorkerState, IInv, WorkerInv, old_data
  <1>4. QED
    BY <1>1, <1>2, <1>3 DEF Copied, old_data

(* Steps that leave the cells of both objects alone                         *)
LEMMA CopiedKept ==
  ASSUME IInv, DInv, CopiedInv, UNCHANGED <<w, visited>>,
         w.pc \in {"copy", "swing"} =>
           /\ m_metadata'[w.val] = m_metadata[w.val]
           /\ \A i \in Nat : i < old_data.size =>
                /\ mem'[Cell(w.val, i)] = mem[Cell(w.val, i)]
                /\ mem'[Cell(w.new, i)] = mem[Cell(w.new, i)]
  PROVE  CopiedInv'
  <1> SUFFICES ASSUME w.pc \in {"copy", "swing"} PROVE CopiedInv'
    BY DEF CopiedInv
  <1>1. Copied' = Copied
    BY DEF Copied, old_data
  <1>2. \A i \in 0 .. (Copied - 1) : i \in Nat /\ i < old_data.size
    BY CopyingType
  <1>3. QED
    BY <1>1, <1>2 DEF CopiedInv

(* A constructor writes into an object of its own.                          *)
LEMMA CopiedMutator ==
  ASSUME OneMutator, PointersInVariables, Serial \/ "data" \notin Ops,
         IInv, DInv, PtrInv, CopiedInv, NEW t \in Threads, Mutator(t)
  PROVE  CopiedInv'
  <1>0. UNCHANGED <<w, visited>>
    BY DEF Mutator, Call, Use, CallAlloc, CallCollect, FrontCheck, Reserve,
           NoRoom, Emplace, Construct, Catch, CollectLoop, StartCollection,
           SkipCollection, LoadPtr, ClearSlot, StorePtr, WriteField, WriteData,
           Uses, collection
  <1>1. CASE Serial
    BY <1>0, <1>1, SerialQuiet DEF CopiedInv, PtrInv
  <1>2. CASE ~ Serial
    <2> SUFFICES ASSUME w.pc \in {"copy", "swing"}
                 PROVE  /\ m_metadata'[w.val] = m_metadata[w.val]
                        /\ \A i \in Nat : i < old_data.size =>
                             /\ mem'[Cell(w.val, i)] = mem[Cell(w.val, i)]
                             /\ mem'[Cell(w.new, i)] = mem[Cell(w.new, i)]
      BY <1>0, CopiedKept
    <2>1. ~ Use(t)
      BY <1>2 DEF Use, StorePtr, WriteField, WriteData, PointersInVariables
    <2>2. /\ mem \in [Location -> Value] /\ Stack \cap Address = {}
          /\ Location = Stack \cup Address
      BY NameAssumption DEF IInv, TypeOK, Location
    <2>3. \A i \in Nat : i < old_data.size =>
            Cell(w.val, i) \in Address /\ Cell(w.new, i) \in Address
      BY CopyingType, ObjectCells
    <2>4. CASE Emplace(t)
      BY <2>4, CopyingType DEF Emplace, Emplaced
    <2>5. CASE \E k \in Slots : ClearSlot(t, k)
      <3>1. PICK k \in Slots : ClearSlot(t, k)
        BY <2>5
      <3>2. <<t, k>> \in Stack
        BY DEF Stack
      <3>3. QED
        BY <2>2, <2>3, <3>1, <3>2 DEF ClearSlot, Uses, heap
    <2>6. CASE \E k \in Slots, v \in Fresh : Construct(t, k, v)
      <3>1. PICK k \in Slots, v \in Fresh : Construct(t, k, v)
        BY <2>6
      <3> DEFINE p == th[t].ptr  new == Cells(p, th[t].req.size)
      <3>2. /\ p \in DOMAIN m_metadata /\ p # w.val /\ p # w.new
            /\ new = Cells(p, m_metadata[p].size)
        BY <3>1, CopyingType DEF Construct, PtrInv, LiveInv
      <3>3. <<t, k>> \in Stack
        BY DEF Stack
      <3>4. \A l \in Address : l \notin new => mem'[l] = mem[l]
        BY <2>2, <3>1, <3>3 DEF Construct
      <3>5. UNCHANGED m_metadata
        BY <3>1 DEF Construct, heap
      <3> HIDE DEF p, new
      <3>6. \A i \in Nat : i < old_data.size =>
              Cell(w.val, i) \notin new /\ Cell(w.new, i) \notin new
        BY <3>2, CellsDiffer, CopyingType
      <3>7. QED
        BY <2>3, <3>4, <3>5, <3>6
    <2>7. CASE \E k \in Slots : LoadPtr(t, k)
      BY <2>7 DEF LoadPtr, Uses, heap
    <2>8. CASE \/ \E r \in Requests : CallAlloc(t, r)
               \/ CallCollect(t) \/ FrontCheck(t) \/ Reserve(t) \/ NoRoom(t)
               \/ Catch(t) \/ CollectLoop(t) \/ StartCollection(t)
               \/ SkipCollection(t)
      BY <2>8, CallSteps
    <2>9. QED
      BY <2>1, <2>4, <2>5, <2>6, <2>7, <2>8 DEF Mutator, Call
  <1>3. QED
    BY <1>1, <1>2

(* The collection copies cell after cell.                                   *)
LEMMA CopiedCollection ==
  ASSUME IInv, DInv, CopiedInv, Collection
  PROVE  CopiedInv'
  <1>0. w \in WorkerState /\ mem \in [Location -> Value]
    BY WorkerType DEF IInv, TypeOK
  <1>1. CASE CopyEmplace
    <2>1. /\ w.pc = "emplace" /\ w'.pc = "copy" /\ w'.i = 0 /\ w'.new = w.new
          /\ UNCHANGED visited
      BY <1>0, <1>1 DEF CopyEmplace, WorkerState
    <2>2. /\ w.new \in Address /\ old_data.size \in Nat /\ old_data.size > 0
          /\ ClearOf(w.new, old_data.size)
      BY <2>1, WorkerType DEF Moving, DInv, PendingInv
    <2>3. w.new \notin DOMAIN m_metadata
      BY <2>2, Unmanaged
    <2>4. \A o \in DOMAIN visited : visited[o] # w.new
      BY <2>3 DEF DInv, MovedInv
    <2>5. QED
      BY <2>1, <2>4 DEF CopiedInv, Copied
  <1>2. CASE CopyWord
    <2>1. PICK n : n = copied
      OBVIOUS
    <2>2. /\ n \in Nat /\ w.i \in Nat /\ w.i < n /\ w.i < old_data.size
          /\ old_data.size \in Nat /\ w.pc = "copy"
          /\ \A i \in w.i .. n - 1 :
               Cell(w.new, i) \in Address =>
                 mem'[Cell(w.new, i)] = mem[Cell(w.val, i)]
          /\ \A l \in Location :
               \/ mem'[l] = mem[l]
               \/ l \in Address /\ \E i \in w.i .. n - 1 : l = Cell(w.new, i)
          /\ w' = [w EXCEPT !.i = n,
                            !.pc = IF n < old_data.size THEN "copy" ELSE "swing"]
          /\ UNCHANGED <<m_metadata, visited>>
      BY <1>2, <2>1, CopyWordStep DEF IInv
    <2>3. /\ w'.i = n /\ w'.val = w.val /\ w'.new = w.new
          /\ w'.pc = IF n < old_data.size THEN "copy" ELSE "swing"
      BY <1>0, <2>2 DEF WorkerState
    <2>4. Copied' = (IF n < old_data.size THEN n ELSE old_data.size)
      BY <2>2, <2>3 DEF Copied, old_data
    <2>5. \A l \in Address : l[1] # w.new[1] => mem'[l] = mem[l]
      BY <1>2, CopyWordHeap
    <2>6. w.new[1] # w.val[1] /\ w.new[2] \in Nat
      BY <2>2, CopyingType, WorkerType DEF DInv, MovedInv, Moving
    <2>7. ASSUME NEW i \in Nat, i < n, i < old_data.size
          PROVE  mem'[Cell(w.new, i)] = mem'[Cell(w.val, i)]
      <3>1. Cell(w.val, i) \in Address /\ Cell(w.new, i) \in Address
        BY <2>2, <2>7, CopyingType, ObjectCells
      <3>2. mem'[Cell(w.val, i)] = mem[Cell(w.val, i)]
        BY <2>5, <2>6, <3>1 DEF Cell
      <3>3. CASE i >= w.i
        BY <2>2, <2>7, <3>1, <3>2, <3>3
      <3>4. CASE i < w.i
        <4>1. Copied = w.i
          BY <2>2 DEF Copied
        <4>2. mem[Cell(w.new, i)] = mem[Cell(w.val, i)]
          BY <2>2, <2>7, <3>4, <4>1 DEF CopiedInv
        <4>3. \A j \in w.i .. n - 1 : Cell(w.new, i) # Cell(w.new, j)
          BY <2>2, <2>6, <3>4 DEF Cell
        <4>4. mem'[Cell(w.new, i)] = mem[Cell(w.new, i)]
          BY <2>2, <3>1, <4>3 DEF Location
        <4>5. QED
          BY <3>2, <4>2, <4>4
      <3>5. QED
        BY <2>2, <2>7, <3>3, <3>4
    <2>8. \A i \in 0 .. (Copied' - 1) : i \in Nat /\ i < n /\ i < old_data.size
      BY <2>2, <2>4
    <2>9. QED
      BY <2>2, <2>3, <2>7, <2>8 DEF CopiedInv
  <1>3. CASE \/ TaskStart \/ (\E l \in w.roots : TakeRoot(l)) \/ ReadTop
             \/ Redirect \/ Ignore \/ Scan \/ ScanMember
             \/ CopyReserve \/ CopyCheck \/ CopyAbort
             \/ Swing \/ EraseOld \/ Sweep \/ Finish
    <2>1. w'.pc \notin {"copy", "swing"}
      <3>1. CASE CopyReserve
        BY <1>0, <3>1 DEF CopyReserve, WorkerState
      <3>2. CASE TaskStart \/ Finish
        <4>1. TaskStart => w'.pc = "trace"
          BY DEF TaskStart, IdleWorker
        <4>2. Finish => w'.pc = "idle"
          BY DEF Finish, IdleWorker
        <4>3. QED
          BY <3>2, <4>1, <4>2
      <3>3. CASE \/ (\E l \in w.roots : TakeRoot(l)) \/ ReadTop
                 \/ Redirect \/ Ignore \/ Scan \/ ScanMember
        BY <1>0, <3>3 DEF TakeRoot, ReadTop, Redirect, Ignore, Scan, ScanMember,
                          WorkerState
      <3>4. CASE CopyCheck \/ CopyAbort \/ Swing \/ EraseOld \/ Sweep
        BY <1>0, <3>4 DEF CopyCheck, CopyAbort, Swing, EraseOld, Sweep,
                          WorkerState
      <3>5. QED
        BY <1>3, <3>1, <3>2, <3>3, <3>4
    <2>2. QED
      BY <2>1 DEF CopiedInv
  <1>4. QED
    BY <1>1, <1>2, <1>3 DEF Collection

(* Every step keeps what has been copied equal to its source.               *)
LEMMA StepCopied ==
  ASSUME OneMutator, PointersInVariables, Serial \/ "data" \notin Ops,
         IInv, DInv, PtrInv, CopiedInv, [Next]_vars
  PROVE  CopiedInv'
  <1>1. CASE UNCHANGED vars
    BY <1>1 DEF vars, CopiedInv, Copied, old_data
  <1>2. QED
    BY <1>1, CopiedMutator, CopiedCollection DEF Next

-----------------------------------------------------------------------------
(* What the object p holds                                                  *)
Object(p) == [i \in 1 .. m_metadata[p].size |-> mem[Cell(p, i - 1)]]

TargetsManaged ==
  \A l \in Stack :
    /\ mem[l] \in FatPtrs
    /\ mem[l] = Null => Target(l) = Null /\ Seen(l) = <<>>
    /\ mem[l] # Null => /\ mem[l] \in Address
                        /\ Target(l) \in DOMAIN m_metadata /\ Target(l) # Null
                        /\ Seen(l) = Object(Target(l))

HeapInv == IInv /\ DInv /\ PtrInv /\ CopiedInv

(* Every variable is null or leads to a managed object.                     *)
LEMMA Targets == HeapInv => TargetsManaged
  <1> SUFFICES ASSUME HeapInv, NEW l \in Stack
               PROVE  /\ mem[l] \in FatPtrs
                      /\ mem[l] = Null => Target(l) = Null /\ Seen(l) = <<>>
                      /\ mem[l] # Null =>
                           /\ mem[l] \in Address
                           /\ Target(l) \in DOMAIN m_metadata /\ Target(l) # Null
                           /\ Seen(l) = Object(Target(l))
    BY DEF TargetsManaged
  <1>0. mem[l] \in FatPtrs
    BY DEF HeapInv, PtrInv, PlainInv
  <1>1. /\ Null \notin Address /\ DOMAIN m_metadata \subseteq Address
        /\ DOMAIN visited \subseteq Address
    BY NameAssumption DEF HeapInv, IInv, TypeOK
  <1>2. w.pc = "erase" => w.val \in DOMAIN m_metadata
    BY WorkerType DEF HeapInv, Moving
  <1>3. CASE mem[l] = Null
    <2>1. Target(l) = Null
      BY <1>1, <1>2, <1>3 DEF Target, Forwarded
    <2>2. Seen(l) = <<>>
      BY <1>1, <2>1 DEF Seen, Target
    <2>3. QED
      BY <1>0, <1>3, <2>1, <2>2
  <1>4. CASE mem[l] # Null
    <2>1. mem[l] \in Address /\ mem[l] \in DOMAIN m_metadata \cup DOMAIN visited
      BY <1>0, <1>4 DEF HeapInv, PtrInv, LiveInv, FatPtrs
    <2>2. Target(l) \in DOMAIN m_metadata
      BY <2>1 DEF Target, Forwarded, HeapInv, DInv, MovedInv
    <2>3. Target(l) # Null
      BY <1>1, <2>2
    <2>4. QED
      BY <1>0, <1>4, <2>1, <2>2, <2>3 DEF Seen, Object, Target
  <1>5. QED
    BY <1>3, <1>4

(* ... and so it is after a step.                                           *)
LEMMA TargetsNext == HeapInv' => TargetsManaged'
  BY Targets, PTL

(* An object is the same when its size and its cells are.                   *)
LEMMA ObjectKept ==
  ASSUME NEW p, m_metadata'[p] = m_metadata[p], m_metadata[p].size \in Nat,
         \A i \in Nat : i < m_metadata[p].size => mem'[Cell(p, i)] = mem[Cell(p, i)]
  PROVE  [i \in 1 .. m_metadata'[p].size |-> mem'[Cell(p, i - 1)]] = Object(p)
  <1>1. \A i \in 1 .. m_metadata[p].size :
          i - 1 \in Nat /\ i - 1 < m_metadata[p].size
    OBVIOUS
  <1>2. QED
    BY <1>1 DEF Object

(* A variable shows the same object, in the same place.                     *)
LEMMA SeenKept ==
  ASSUME HeapInv, HeapInv', NEW l \in Stack, mem'[l] = Null <=> mem[l] = Null,
         mem[l] # Null =>
           /\ Target(l)' = Target(l)
           /\ m_metadata'[Target(l)] = m_metadata[Target(l)]
           /\ \A i \in Nat : i < m_metadata[Target(l)].size =>
                mem'[Cell(Target(l), i)] = mem[Cell(Target(l), i)]
  PROVE  Seen(l)' = Seen(l)
  <1>1. TargetsManaged /\ TargetsManaged'
    BY Targets, TargetsNext
  <1>2. CASE mem[l] = Null
    BY <1>1, <1>2 DEF TargetsManaged
  <1>3. CASE mem[l] # Null
    <2>1. PICK p : p = Target(l)
      OBVIOUS
    <2>2. p \in DOMAIN m_metadata /\ Target(l)' = p
      BY <1>1, <1>3, <2>1 DEF TargetsManaged
    <2>3. m_metadata[p].size \in Nat
      BY <2>2, WorkerType DEF HeapInv
    <2>4. [i \in 1 .. m_metadata'[p].size |-> mem'[Cell(p, i - 1)]] = Object(p)
      BY <1>3, <2>1, <2>3, ObjectKept
    <2>5. Seen(l) = Object(p) /\ Seen(l)' = Object(Target(l))'
      BY <1>1, <1>3, <2>1 DEF TargetsManaged
    <2>6. QED
      BY <2>2, <2>4, <2>5 DEF Object
  <1>4. QED
    BY <1>2, <1>3

(* What the program sees does not depend on where its objects are.          *)
LEMMA SameView ==
  ASSUME HeapInv, HeapInv',
         \A l \in Stack : mem'[l] = Null <=> mem[l] = Null,
         \A l \in Stack : Seen(l)' = Seen(l),
         \A l, k \in Stack : mem[l] # Null /\ mem[k] # Null =>
           (Target(l)' = Target(k)' <=> Target(l) = Target(k))
  PROVE  UNCHANGED Program!vars
  <1>1. TargetsManaged /\ TargetsManaged'
    BY Targets, TargetsNext
  <1>2. \A l \in Stack : mem[l] = Null => Target(l) = Null /\ Target(l)' = Null
    BY <1>1 DEF TargetsManaged
  <1>3. \A l \in Stack : mem[l] # Null => Target(l) # Null /\ Target(l)' # Null
    BY <1>1 DEF TargetsManaged
  <1>4. \A l, k \in Stack :
          mem'[l] # Null /\ Target(l)' = Target(k)' <=>
            mem[l] # Null /\ Target(l) = Target(k)
    BY <1>2, <1>3
  <1>5. QED
    BY <1>4 DEF Program!vars, Sharing, Target

(* The objects stay where they are.                                         *)
LEMMA ViewKept ==
  ASSUME HeapInv, HeapInv',
         \A l \in Stack : mem'[l] = Null <=> mem[l] = Null,
         \A l \in Stack : mem[l] # Null =>
           /\ Target(l)' = Target(l)
           /\ m_metadata'[Target(l)] = m_metadata[Target(l)]
           /\ \A i \in Nat : i < m_metadata[Target(l)].size =>
                mem'[Cell(Target(l), i)] = mem[Cell(Target(l), i)]
  PROVE  UNCHANGED Program!vars
  <1>1. \A l \in Stack : Seen(l)' = Seen(l)
    BY SeenKept
  <1>2. QED
    BY <1>1, SameView

(* Nothing that the program sees by is touched.                             *)
LEMMA ViewUntouched ==
  ASSUME UNCHANGED <<m_metadata, mem, visited>>,
         w.pc = "erase" \/ w'.pc = "erase" => UNCHANGED w
  PROVE  UNCHANGED Program!vars
  <1>1. \A l \in Stack : Target(l)' = Target(l)
    BY DEF Target, Forwarded
  <1>2. \A l \in Stack : Seen(l)' = Seen(l)
    BY <1>1 DEF Seen, Target
  <1>3. QED
    BY <1>1, <1>2 DEF Program!vars, Sharing, Target

-----------------------------------------------------------------------------
(* The new object is in no other variable, and holds what its constructor   *)
(* wrote.                                                                   *)
LEMMA ConstructIsNew ==
  ASSUME HeapInv, HeapInv', NEW t \in Threads, NEW k \in Slots,
         NEW v \in Fresh, Construct(t, k, v)
  PROVE  Program!Next
  <1> DEFINE p == th[t].ptr  r == th[t].req  new == Cells(p, r.size)
  <1>0. PICK z : z = <<t, k>>
    OBVIOUS
  <1>c. PICK c : c = [i \in 1 .. r.size |-> v]
    OBVIOUS
  <1>1. /\ TypeOK /\ z \in Stack /\ mem \in [Location -> Value]
        /\ th[t] \in ThreadState /\ Stack \cap Address = {}
        /\ Location = Stack \cup Address
    BY <1>0, NameAssumption DEF HeapInv, IInv, TypeOK, Stack, Location
  <1>2. /\ p \in DOMAIN m_metadata /\ m_metadata[p] = r /\ p[1] = m_space_num
        /\ p \in Address /\ r.size \in Nat /\ r.size > 0
        /\ \A l \in Stack : mem[l] # p
        /\ \A o \in DOMAIN visited : visited[o] # p
        /\ w.pc = "erase" => p # w.new /\ p # w.val
    BY WorkerType DEF Construct, HeapInv, PtrInv, LiveInv, Moving
  <1>3. p \notin DOMAIN visited /\ p # Null
    BY <1>2, WorkerType, NameAssumption DEF HeapInv, DInv, MovedInv
  <1>4. r \in Requests /\ c \in Contents
    <2>1. r \in Requests
      BY <1>1, <1>2 DEF ThreadState, NoRequest
    <2>2. QED
      BY <1>c, <2>1 DEF Contents
  <1>5. new \subseteq Address
    BY <1>2, ObjectCells DEF HeapInv
  <1>6. /\ UNCHANGED <<m_metadata, w, visited>>
        /\ mem'[z] = p
        /\ \A l \in Stack : l # z => mem'[l] = mem[l]
        /\ \A l \in Address : mem'[l] = IF l \in new THEN v ELSE mem[l]
    BY <1>0, <1>1, <1>5 DEF Construct, heap, collection
  <1> HIDE DEF p, r
  <1>7. Target(z)' = p
    BY <1>2, <1>3, <1>6 DEF Target, Forwarded
  <1>8. \A l \in Stack : l # z => Target(l)' = Target(l) /\ Target(l) # p
    BY <1>2, <1>6 DEF Target, Forwarded
  <1>9. TargetsManaged /\ TargetsManaged'
    BY Targets, TargetsNext
  <1>10. Seen(z)' = c
    <2>1. Seen(z)' = Object(Target(z))'
      BY <1>1, <1>3, <1>6, <1>9 DEF TargetsManaged
    <2>2. Seen(z)' = [i \in 1 .. m_metadata'[p].size |-> mem'[Cell(p, i - 1)]]
      BY <1>7, <2>1 DEF Object
    <2>3. \A i \in 1 .. r.size : mem'[Cell(p, i - 1)] = v
      <3>1. \A i \in 1 .. r.size : i - 1 \in Nat /\ i - 1 < r.size
        BY <1>2
      <3>2. \A i \in 1 .. r.size : Cell(p, i - 1) \in new
        BY <1>2, <3>1, ObjectCells DEF HeapInv
      <3>3. QED
        BY <1>5, <1>6, <3>2
    <2>4. m_metadata'[p] = r
      BY <1>2, <1>6
    <2>5. QED
      BY <1>c, <2>2, <2>3, <2>4
  <1>11. ASSUME NEW l \in Stack, l # z
         PROVE  /\ Seen(l)' = Seen(l)
                /\ mem'[l] = mem[l]
    <2>1. mem'[l] = mem[l] /\ Target(l)' = Target(l) /\ Target(l) # p
      BY <1>6, <1>8, <1>11
    <2>2. ASSUME mem[l] # Null
          PROVE  /\ m_metadata'[Target(l)] = m_metadata[Target(l)]
                 /\ \A i \in Nat : i < m_metadata[Target(l)].size =>
                      mem'[Cell(Target(l), i)] = mem[Cell(Target(l), i)]
      <3>1. PICK q : q = Target(l)
        OBVIOUS
      <3>2. q \in DOMAIN m_metadata /\ q # p
        BY <1>9, <2>1, <2>2, <3>1 DEF TargetsManaged
      <3>3. \A i \in Nat : i < m_metadata[q].size =>
              mem'[Cell(q, i)] = mem[Cell(q, i)]
        BY <1>2, <1>6, <3>2, CellsDiffer, ObjectCells DEF HeapInv
      <3>4. QED
        BY <1>6, <3>1, <3>3
    <2>3. QED
      BY <2>1, <2>2, SeenKept
  <1> HIDE DEF new
  <1>12. Program!New(z, c)
    <2>1. [l \in Stack |-> Seen(l)'] = [[l \in Stack |-> Seen(l)] EXCEPT ![z] = c]
      BY <1>1, <1>10, <1>11
    <2>2. \A x \in Stack \X Stack :
            (mem'[x[1]] # Null /\ Target(x[1])' = Target(x[2])') <=>
              \/ x = <<z, z>>
              \/ /\ x[1] # z /\ x[2] # z
                 /\ mem[x[1]] # Null /\ Target(x[1]) = Target(x[2])
      BY <1>3, <1>6, <1>7, <1>8, <1>11
    <2>3. <<z, z>> \in Stack \X Stack
      BY <1>1
    <2>4. QED
      BY <2>1, <2>2, <2>3 DEF Program!New, Program!Others, Sharing, Target
  <1>13. QED
    BY <1>1, <1>4, <1>12 DEF Program!Next

(* Assigning nullptr is the abstract heap's Clear.                          *)
LEMMA ClearSlotIsClear ==
  ASSUME HeapInv, HeapInv', NEW t \in Threads, NEW k \in Slots, ClearSlot(t, k)
  PROVE  Program!Next
  <1>0. PICK z : z = <<t, k>>
    OBVIOUS
  <1>1. /\ z \in Stack /\ mem \in [Location -> Value] /\ Stack \cap Address = {}
        /\ Location = Stack \cup Address
    BY <1>0, NameAssumption DEF HeapInv, IInv, TypeOK, Stack, Location
  <1>2. /\ UNCHANGED <<m_metadata, w, visited>>
        /\ mem'[z] = Null
        /\ \A l \in Location : l # z => mem'[l] = mem[l]
    BY <1>0, <1>1 DEF ClearSlot, Uses, heap, collection
  <1>3. TargetsManaged /\ TargetsManaged'
    BY Targets, TargetsNext
  <1>4. Seen(z)' = <<>> /\ Target(z)' = Null
    BY <1>1, <1>2, <1>3 DEF TargetsManaged
  <1>5. ASSUME NEW l \in Stack, l # z
        PROVE  Seen(l)' = Seen(l) /\ Target(l)' = Target(l) /\ mem'[l] = mem[l]
    <2>1. mem'[l] = mem[l] /\ Target(l)' = Target(l)
      BY <1>1, <1>2, <1>5 DEF Target, Forwarded
    <2>2. ASSUME mem[l] # Null
          PROVE  /\ m_metadata'[Target(l)] = m_metadata[Target(l)]
                 /\ \A i \in Nat : i < m_metadata[Target(l)].size =>
                      mem'[Cell(Target(l), i)] = mem[Cell(Target(l), i)]
      <3>1. PICK q : q = Target(l)
        OBVIOUS
      <3>2. q \in DOMAIN m_metadata
        BY <1>3, <2>2, <3>1 DEF TargetsManaged
      <3>3. \A i \in Nat : i < m_metadata[q].size =>
              mem'[Cell(q, i)] = mem[Cell(q, i)]
        BY <1>1, <1>2, <3>2, ObjectCells DEF HeapInv
      <3>4. QED
        BY <1>2, <3>1, <3>3
    <2>3. QED
      BY <2>1, <2>2, SeenKept
  <1>6. Program!Clear(z)
    <2>1. [l \in Stack |-> Seen(l)'] = [[l \in Stack |-> Seen(l)] EXCEPT ![z] = <<>>]
      BY <1>1, <1>4, <1>5
    <2>2. \A l \in Stack : mem[l] = Null <=> Target(l) = Null
      BY <1>3 DEF TargetsManaged
    <2>3. \A x \in Stack \X Stack :
            (mem'[x[1]] # Null /\ Target(x[1])' = Target(x[2])') <=>
              /\ x[1] # z /\ x[2] # z
              /\ mem[x[1]] # Null /\ Target(x[1]) = Target(x[2])
      BY <1>2, <1>4, <1>5, <2>2
    <2>4. QED
      BY <2>1, <2>3 DEF Program!Clear, Program!Others, Sharing, Target
  <1>7. QED
    BY <1>1, <1>6 DEF Program!Next

(* A mutator of the serial policy uses its pointers while no collection     *)
(* runs: they mean the objects they refer to.                               *)
LEMMA UsedPointer ==
  ASSUME HeapInv, Serial, NEW t \in Threads, th[t].pc = "use", Use(t)
  PROVE  /\ w.pc = "idle" /\ visited = <<>>
         /\ \A p : Forwarded(p) = p
         /\ \E x \in Stack : mem[x] = th[t].ptr /\ mem[x] # Null
  <1>1. w.pc = "idle"
    BY SerialQuiet DEF HeapInv, PtrInv, Mutator
  <1>2. visited = <<>>
    BY <1>1 DEF HeapInv, DInv, MovedInv
  <1>3. \A p : Forwarded(p) = p
    BY <1>1, <1>2 DEF Forwarded
  <1>4. \E x \in Stack : mem[x] = th[t].ptr /\ mem[x] # Null
    BY NameAssumption DEF HeapInv, PtrInv, LiveInv
  <1>5. QED
    BY <1>1, <1>2, <1>3, <1>4

(* A pointer copied into another variable shares its object.                *)
LEMMA StorePtrIsAlias ==
  ASSUME HeapInv, HeapInv', Serial, NEW t \in Threads, NEW k \in Slots,
         StorePtr(t, k)
  PROVE  [Program!Next]_(Program!vars)
  <1>0. PICK z : z = <<t, k>>
    OBVIOUS
  <1>1. /\ z \in Stack /\ mem \in [Location -> Value] /\ Stack \cap Address = {}
        /\ Location = Stack \cup Address
    BY <1>0, NameAssumption DEF HeapInv, IInv, TypeOK, Stack, Location
  <1>2. th[t].pc = "use" /\ Use(t)
    BY DEF StorePtr, Use
  <1>3. PICK u \in Stack : mem[u] = th[t].ptr /\ mem[u] # Null
    BY <1>2, UsedPointer
  <1>4. /\ UNCHANGED <<m_metadata, w, visited>>
        /\ mem'[z] = mem[u]
        /\ \A l \in Location : l # z => mem'[l] = mem[l]
    BY <1>0, <1>1, <1>3 DEF StorePtr, Uses, heap, collection
  <1>5. \A p : Forwarded(p) = p /\ Forwarded(p)' = p
    <2>1. \A p : Forwarded(p) = p
      BY <1>2, UsedPointer
    <2>2. w'.pc = "idle" /\ visited' = <<>>
      BY <1>2, <1>4, UsedPointer
    <2>3. QED
      BY <2>1, <2>2 DEF Forwarded
  <1>6. TargetsManaged /\ TargetsManaged'
    BY Targets, TargetsNext
  <1>7. \A l \in Stack : Target(l) = mem[l] /\ Target(l)' = mem'[l]
    BY <1>5 DEF Target
  <1>8. \A p \in DOMAIN m_metadata, i \in Nat : i < m_metadata[p].size =>
          mem'[Cell(p, i)] = mem[Cell(p, i)]
    BY <1>1, <1>4, ObjectCells DEF HeapInv
  <1>9. ASSUME NEW l \in Stack, l # z
        PROVE  Seen(l)' = Seen(l) /\ mem'[l] = mem[l]
    <2>1. mem'[l] = mem[l] /\ Target(l)' = Target(l)
      BY <1>1, <1>4, <1>7, <1>9
    <2>2. ASSUME mem[l] # Null
          PROVE  /\ m_metadata'[Target(l)] = m_metadata[Target(l)]
                 /\ \A i \in Nat : i < m_metadata[Target(l)].size =>
                      mem'[Cell(Target(l), i)] = mem[Cell(Target(l), i)]
      BY <1>4, <1>6, <1>8, <2>2 DEF TargetsManaged
    <2>3. QED
      BY <2>1, <2>2, SeenKept
  <1>10. CASE u = z
    <2>1. mem' = mem
      BY <1>0, <1>1, <1>3, <1>10 DEF StorePtr
    <2>2. QED
      BY <1>4, <2>1, ViewUntouched
  <1>11. CASE u # z
    <2>1. Seen(z)' = Seen(u) /\ Seen(u) # <<>>
      <3>1. PICK p : p = mem[u]
        OBVIOUS
      <3>2. /\ Seen(u) = Object(p) /\ Seen(z)' = Object(Target(z))'
            /\ p \in DOMAIN m_metadata /\ Target(z)' = p
        BY <1>1, <1>3, <1>4, <1>6, <1>7, <3>1 DEF TargetsManaged
      <3>3. m_metadata[p].size \in Nat /\ m_metadata[p].size > 0
        BY <3>2, WorkerType DEF HeapInv
      <3>4. [i \in 1 .. m_metadata'[p].size |-> mem'[Cell(p, i - 1)]] = Object(p)
        BY <1>4, <1>8, <3>2, <3>3, ObjectKept
      <3>5. Object(p) # <<>>
        <4>1. 1 \in DOMAIN Object(p)
          BY <3>3 DEF Object
        <4>2. DOMAIN <<>> = {}
          OBVIOUS
        <4>3. QED
          BY <4>1, <4>2
      <3>6. QED
        BY <3>2, <3>4, <3>5 DEF Object
    <2>2. Program!Alias(u, z)
      <3> DEFINE content == [l \in Stack |-> Seen(l)]
                 same == {x \in Stack \X Stack :
                            /\ mem[x[1]] # Null
                            /\ Forwarded(mem[x[1]]) = Forwarded(mem[x[2]])}
                 sharers == {x \in Stack \ {z} : <<u, x>> \in same} \cup {z}
      <3>1. content[u] # <<>> /\ content[u] = Seen(u)
        BY <2>1
      <3>2. [l \in Stack |-> Seen(l)'] = [content EXCEPT ![z] = Seen(u)]
        BY <1>1, <1>9, <2>1
      <3>3. \A x \in Stack : x \in sharers <=> x = z \/ mem[x] = mem[u]
        BY <1>1, <1>3, <1>5
      <3>4. {x \in Stack \X Stack :
               /\ mem'[x[1]] # Null
               /\ Forwarded(mem[x[1]])' = Forwarded(mem[x[2]])'} =
              {p \in same : p[1] # z /\ p[2] # z}
                \cup (sharers \X {z}) \cup ({z} \X sharers)
        <4>1. sharers \subseteq Stack
          BY <1>1
        <4> HIDE DEF sharers
        <4>2. ASSUME NEW a \in Stack, NEW b \in Stack
              PROVE  mem'[a] # Null /\ mem'[a] = mem'[b] <=>
                       \/ a # z /\ b # z /\ mem[a] # Null /\ mem[a] = mem[b]
                       \/ a \in sharers /\ b = z
                       \/ a = z /\ b \in sharers
          BY <1>3, <1>4, <1>9, <3>3
        <4>3. \A x \in Stack \X Stack :
                Forwarded(mem[x[1]])' = mem'[x[1]] /\ Forwarded(mem[x[2]])' = mem'[x[2]]
          BY <1>5
        <4>4. \A x \in Stack \X Stack :
                (/\ mem'[x[1]] # Null
                 /\ Forwarded(mem[x[1]])' = Forwarded(mem[x[2]])') <=>
                   \/ x[1] # z /\ x[2] # z /\ mem[x[1]] # Null /\ mem[x[1]] = mem[x[2]]
                   \/ x[1] \in sharers /\ x[2] = z
                   \/ x[1] = z /\ x[2] \in sharers
          BY <4>2, <4>3
        <4>5. QED
          BY <1>1, <1>5, <4>1, <4>4
      <3> HIDE DEF content, same, sharers
      <3>5. QED
        BY <1>1, <1>11, <3>1, <3>2, <3>4
           DEF Program!Alias, Program!Others, Sharing, Target, content, same, sharers
    <2>3. QED
      BY <1>1, <2>2 DEF Program!Next
  <1>12. QED
    BY <1>10, <1>11

(* What is written through a pointer is seen through it, and through those  *)
(* that share its object.                                                   *)
LEMMA WriteDataIsWrite ==
  ASSUME HeapInv, HeapInv', Serial, NEW t \in Threads, NEW d \in Data,
         WriteData(t, d)
  PROVE  \E u \in Stack : Program!Write(u, d)
  <1>1. /\ mem \in [Location -> Value] /\ Stack \cap Address = {}
        /\ Location = Stack \cup Address
    BY NameAssumption DEF HeapInv, IInv, TypeOK, Location
  <1>2. th[t].pc = "use" /\ Use(t)
    BY DEF WriteData, Use
  <1>3. PICK u \in Stack : mem[u] = th[t].ptr /\ mem[u] # Null
    BY <1>2, UsedPointer
  <1>4. PICK p : p = mem[u]
    OBVIOUS
  <1>5. TargetsManaged /\ TargetsManaged'
    BY Targets, TargetsNext
  <1>6. p \in Address /\ p # Null
    BY <1>3, <1>4, <1>5 DEF TargetsManaged
  <1>7. /\ UNCHANGED <<m_metadata, w, visited>>
        /\ mem'[p] = d
        /\ \A l \in Location : l # p => mem'[l] = mem[l]
    BY <1>1, <1>3, <1>4, <1>6 DEF WriteData, Uses, heap, collection
  <1>8. \A q : Forwarded(q) = q /\ Forwarded(q)' = q
    <2>1. \A q : Forwarded(q) = q
      BY <1>2, UsedPointer
    <2>2. w'.pc = "idle" /\ visited' = <<>>
      BY <1>2, <1>7, UsedPointer
    <2>3. QED
      BY <2>1, <2>2 DEF Forwarded
  <1>9. \A l \in Stack : mem'[l] = mem[l] /\ Target(l) = mem[l] /\ Target(l)' = mem[l]
    BY <1>1, <1>6, <1>7, <1>8 DEF Target
  <1>10. /\ p \in DOMAIN m_metadata
         /\ p[1] \in {0, 1} /\ p[2] \in Nat
         /\ m_metadata[p].size \in Nat /\ m_metadata[p].size > 0
    BY <1>3, <1>4, <1>5, <1>9, WorkerType DEF TargetsManaged, HeapInv
  <1>11. Cell(p, 0) = p
    BY <1>6, <1>10 DEF Cell, Address
  <1>12. ASSUME NEW l \in Stack, mem[l] # p
         PROVE  Seen(l)' = Seen(l)
    <2>1. ASSUME mem[l] # Null
          PROVE  \A i \in Nat : i < m_metadata[Target(l)].size =>
                   mem'[Cell(Target(l), i)] = mem[Cell(Target(l), i)]
      <3>1. PICK q : q = Target(l)
        OBVIOUS
      <3>2. q \in DOMAIN m_metadata /\ q # p
        BY <1>5, <1>9, <1>12, <2>1, <3>1 DEF TargetsManaged
      <3>3. p \in Cells(p, m_metadata[p].size)
        BY <1>10, <1>11, ObjectCells DEF HeapInv
      <3>4. \A i \in Nat : i < m_metadata[q].size =>
              Cell(q, i) \in Address /\ Cell(q, i) # p
        BY <1>10, <3>2, <3>3, CellsDiffer, ObjectCells DEF HeapInv
      <3>5. QED
        BY <1>1, <1>7, <3>1, <3>4
    <2>2. QED
      BY <1>7, <1>9, <2>1, SeenKept
  <1>13. ASSUME NEW l \in Stack, mem[l] = p
         PROVE  Seen(l)' = [Seen(l) EXCEPT ![1] = d]
    <2>1. /\ Seen(l) = Object(p) /\ Seen(l)' = Object(Target(l))'
          /\ Target(l)' = p
      BY <1>5, <1>6, <1>7, <1>9, <1>13 DEF TargetsManaged
    <2>2. PICK n : n = m_metadata[p].size
      OBVIOUS
    <2>3. Object(p) = [i \in 1 .. n |-> mem[Cell(p, i - 1)]]
      BY <2>2 DEF Object
    <2>4. Seen(l)' = [i \in 1 .. n |-> mem'[Cell(p, i - 1)]]
      BY <1>7, <2>1, <2>2 DEF Object
    <2>5. ASSUME NEW i \in 1 .. n
          PROVE  mem'[Cell(p, i - 1)] = IF i = 1 THEN d ELSE mem[Cell(p, i - 1)]
      <3>1. CASE i = 1
        BY <1>7, <1>11, <3>1
      <3>2. CASE i # 1
        <4>1. i - 1 \in Nat /\ i - 1 < n /\ i - 1 # 0
          BY <1>10, <2>2, <3>2
        <4>2. Cell(p, i - 1) # p
          BY <1>10, <4>1 DEF Cell
        <4>3. Cell(p, i - 1) \in Address
          BY <1>10, <2>2, <4>1, ObjectCells DEF HeapInv
        <4>4. QED
          BY <1>1, <1>7, <3>2, <4>2, <4>3
      <3>3. QED
        BY <3>1, <3>2
    <2>6. [Seen(l) EXCEPT ![1] = d] =
            [i \in 1 .. n |-> IF i = 1 THEN d ELSE mem[Cell(p, i - 1)]]
      BY <2>1, <2>3
    <2>7. QED
      BY <2>4, <2>5, <2>6
  <1>14. Program!Write(u, d)
    <2> DEFINE content == [l \in Stack |-> Seen(l)]
               same == Sharing
    <2>1. \A l \in Stack : <<u, l>> \in same <=> mem[l] = p
      BY <1>3, <1>4, <1>8 DEF Sharing, Target
    <2>2. content[u] # <<>>
      <3>1. Seen(u) = Object(p)
        BY <1>3, <1>4, <1>5, <1>9 DEF TargetsManaged
      <3>2. 1 \in DOMAIN Object(p)
        BY <1>10 DEF Object
      <3>3. DOMAIN <<>> = {}
        OBVIOUS
      <3>4. QED
        BY <3>1, <3>2, <3>3
    <2>3. [l \in Stack |-> Seen(l)'] =
            [l \in Stack |-> IF <<u, l>> \in same
                             THEN [content[l] EXCEPT ![1] = d] ELSE content[l]]
      <3>1. \A l \in Stack : content[l] = Seen(l)
        OBVIOUS
      <3> HIDE DEF content, same
      <3>2. QED
        BY <1>12, <1>13, <2>1, <3>1
    <2>4. Sharing' = same
      <3>1. \A x \in Stack \X Stack :
              /\ mem'[x[1]] = mem[x[1]]
              /\ Forwarded(mem[x[1]])' = Forwarded(mem[x[1]])
              /\ Forwarded(mem[x[2]])' = Forwarded(mem[x[2]])
        BY <1>8, <1>9
      <3>2. QED
        BY <3>1 DEF Sharing, Target
    <2> HIDE DEF content, same
    <2>5. QED
      BY <2>2, <2>3, <2>4 DEF Program!Write, content, same
  <1>15. QED
    BY <1>14

(* Whatever a mutator does is one of the operations of the managed heap.    *)
LEMMA MutatorView ==
  ASSUME OneMutator, PointersInVariables, Serial \/ "data" \notin Ops,
         HeapInv, HeapInv', NEW t \in Threads, Mutator(t)
  PROVE  [Program!Next]_(Program!vars)
  <1>1. ASSUME UNCHANGED <<m_metadata, mem, w, visited>>
        PROVE  UNCHANGED Program!vars
    BY <1>1, ViewUntouched
  <1>2. CASE \/ \E r \in Requests : CallAlloc(t, r)
             \/ CallCollect(t) \/ FrontCheck(t) \/ Reserve(t) \/ NoRoom(t)
             \/ Catch(t) \/ CollectLoop(t) \/ StartCollection(t)
             \/ SkipCollection(t)
    BY <1>1, <1>2, CallSteps DEF HeapInv
  <1>3. CASE \E k \in Slots : LoadPtr(t, k)
    BY <1>1, <1>3 DEF LoadPtr, Uses, heap, collection
  <1>4. CASE Emplace(t)
    <2>1. UNCHANGED <<mem, w, visited>>
      BY <1>4 DEF Emplace, collection
    <2>2. \A o \in DOMAIN m_metadata : m_metadata'[o] = m_metadata[o]
      BY <1>4 DEF Emplace, Emplaced
    <2>3. \A l \in Stack : Target(l)' = Target(l)
      BY <2>1 DEF Target, Forwarded
    <2>4. \A l \in Stack : mem[l] # Null => Target(l) \in DOMAIN m_metadata
      BY Targets DEF TargetsManaged
    <2>5. QED
      BY <2>1, <2>2, <2>3, <2>4, ViewKept
  <1>5. CASE \E k \in Slots, v \in Fresh : Construct(t, k, v)
    BY <1>5, ConstructIsNew
  <1>6. CASE \E k \in Slots : ClearSlot(t, k)
    BY <1>6, ClearSlotIsClear
  <1>7. CASE Use(t)
    <2>1. \A k \in Slots : ~ WriteField(t, k)
      BY DEF PointersInVariables, WriteField
    <2>2. ASSUME NEW k \in Slots, StorePtr(t, k)
          PROVE  [Program!Next]_(Program!vars)
      BY <2>2, StorePtrIsAlias DEF PointersInVariables, StorePtr
    <2>3. ASSUME NEW d \in Data, WriteData(t, d)
          PROVE  [Program!Next]_(Program!vars)
      <3>1. Serial
        BY <2>3 DEF WriteData
      <3>2. PICK u \in Stack : Program!Write(u, d)
        BY <2>3, <3>1, WriteDataIsWrite
      <3>3. QED
        BY <3>2 DEF Program!Next
    <2>4. QED
      BY <1>7, <2>1, <2>2, <2>3 DEF Use
  <1>8. QED
    BY <1>2, <1>3, <1>4, <1>5, <1>6, <1>7 DEF Mutator, Call

-----------------------------------------------------------------------------
(* A pointer that was not visited before the sweep refers to the new space. *)
LEMMA FinalPointers ==
  ASSUME HeapInv, \/ w.pc = "swept"
                  \/ w.pc = "trace" /\ w.stack = <<>> /\ w.roots = {}
  PROVE  \A l \in Stack : mem[l] \in Address => mem[l][1] = w.to
  <1>1. \A x : <<x>> # <<>>
    OBVIOUS
  <1>2. QED
    BY <1>1 DEF HeapInv, PtrInv, RootsInv, Forwarding, Moving

(* A pointer to a copy is not forwarded any further.                        *)
LEMMA NewStays ==
  ASSUME HeapInv, NEW p, p[1] = w.to
  PROVE  p \notin DOMAIN visited /\ (w.pc = "erase" => p # w.val)
  BY WorkerType DEF HeapInv, DInv, MovedInv, Moving

(* Redirecting a location to a copy made before shows nothing.              *)
LEMMA RedirectView ==
  ASSUME HeapInv, HeapInv', Redirect
  PROVE  UNCHANGED Program!vars
  <1>0. /\ w \in WorkerState /\ mem \in [Location -> Value]
        /\ Stack \cap Address = {} /\ Location = Stack \cup Address
    BY WorkerType, NameAssumption DEF HeapInv, IInv, TypeOK, Location
  <1>1. /\ w.pc = "forward" /\ w'.pc = "trace" /\ w.val \in DOMAIN visited
        /\ mem' = Exchanged(visited[w.val]) /\ UNCHANGED <<m_metadata, visited>>
    BY <1>0 DEF Redirect, WorkerState
  <1>2. /\ w.val \in Address /\ visited[w.val] \in Address
        /\ visited[w.val][1] = w.to
    BY <1>1, WorkerType DEF HeapInv, IInv, TypeOK, DInv, MovedInv
  <1>3. w.at \in Stack
    BY <1>1, <1>2 DEF HeapInv, PtrInv, ForwardInv, Forwarding
  <1>4. \A l \in Location :
          mem'[l] = IF l = w.at /\ mem[l] = w.val THEN visited[w.val] ELSE mem[l]
    BY <1>0, <1>1 DEF Exchanged
  <1>5. /\ \A p : Forwarded(p) = IF p \in DOMAIN visited THEN visited[p] ELSE p
        /\ \A p : Forwarded(p)' = IF p \in DOMAIN visited THEN visited[p] ELSE p
    BY <1>1 DEF Forwarded
  <1>6. \A l \in Stack : Target(l)' = Target(l)
    <2>1. visited[w.val] \notin DOMAIN visited
      BY <1>2, NewStays
    <2>2. ASSUME NEW l \in Stack
          PROVE  mem'[l] = IF l = w.at /\ mem[l] = w.val THEN visited[w.val] ELSE mem[l]
      BY <1>0, <1>4
    <2>3. QED
      BY <1>1, <1>5, <2>1, <2>2 DEF Target
  <1>7. \A l \in Stack : mem'[l] = Null <=> mem[l] = Null
    BY <1>0, <1>2, <1>4, NameAssumption
  <1>8. \A p \in DOMAIN m_metadata, i \in Nat : i < m_metadata[p].size =>
          mem'[Cell(p, i)] = mem[Cell(p, i)]
    BY <1>0, <1>3, <1>4, ObjectCells DEF HeapInv
  <1>9. \A l \in Stack : mem[l] # Null => Target(l) \in DOMAIN m_metadata
    BY Targets DEF TargetsManaged
  <1>10. QED
    BY <1>1, <1>6, <1>7, <1>8, <1>9, ViewKept

(* The copy is not seen while it is made: what an access changes of other   *)
(* objects is what it writes behind the copy.                               *)
LEMMA CopyWordView ==
  ASSUME HeapInv, HeapInv', CopyWord
  PROVE  /\ Sharing' = Sharing
         /\ \A l \in Stack : Seen(l)' = Seen(l) \/ Clobbered(l)
  <1>0. Stack \cap Address = {} /\ Location = Stack \cup Address
    BY NameAssumption DEF Location
  <1>1. PICK n : n = copied
    OBVIOUS
  <1>2. /\ n \in Nat /\ w.i \in Nat /\ w.i < n /\ old_data.size \in Nat
        /\ w.pc = "copy"
        /\ \A l \in Location :
             \/ mem'[l] = mem[l]
             \/ l \in Address /\ \E i \in w.i .. n - 1 : l = Cell(w.new, i)
        /\ UNCHANGED <<m_metadata, visited>>
    BY <1>1, CopyWordStep DEF HeapInv, IInv
  <1>3. w'.pc # "erase" /\ \A l \in Stack : mem'[l] = mem[l]
    BY CopyWordHeap DEF HeapInv
  <1>4. \A l \in Stack : Target(l)' = Target(l)
    BY <1>2, <1>3 DEF Target, Forwarded
  <1>5. \A l \in Stack : mem[l] # Null => Target(l) # w.new
    BY <1>2 DEF HeapInv, PtrInv, ForwardInv, CopiedInv, Target, Forwarded
  <1>6. /\ w.new \in DOMAIN m_metadata /\ m_metadata[w.new] = old_data
        /\ w.new[2] \in Nat
    BY <1>2, CopyingType, WorkerType DEF HeapInv, Moving
  <1>7. \A l \in Stack : mem[l] # Null => Target(l) \in DOMAIN m_metadata
    BY Targets DEF TargetsManaged
  <1>8. ASSUME NEW l \in Stack, ~ Clobbered(l)
        PROVE  Seen(l)' = Seen(l)
    <2>1. ASSUME mem[l] # Null, NEW i \in Nat, i < m_metadata[Target(l)].size
          PROVE  mem'[Cell(Target(l), i)] = mem[Cell(Target(l), i)]
      <3>1. PICK p : p = Target(l)
        OBVIOUS
      <3>2. /\ p \in DOMAIN m_metadata /\ p # w.new /\ i < m_metadata[p].size
            /\ Cells(p, m_metadata[p].size) \cap Overrun = {}
        BY <1>5, <1>7, <1>8, <2>1, <3>1 DEF Clobbered
      <3>3. Cell(p, i) \in Address /\ Cell(p, i) \in Cells(p, m_metadata[p].size)
        BY <2>1, <3>2, ObjectCells DEF HeapInv
      <3>4. ASSUME NEW j \in w.i .. n - 1, Cell(p, i) = Cell(w.new, j)
            PROVE  FALSE
        <4>1. CASE j < old_data.size
          <5>1. j \in Nat /\ Cell(w.new, j) \in Cells(w.new, old_data.size)
            BY <1>2, <1>6, <4>1 DEF Cell, Cells
          <5>2. Cell(p, i) \notin Cells(w.new, m_metadata[w.new].size)
            BY <1>6, <3>2, CellsDiffer DEF HeapInv
          <5>3. QED
            BY <1>6, <3>4, <5>1, <5>2
        <4>2. CASE j >= old_data.size
          <5>1. Cell(w.new, j) \in Overrun
            BY <1>1, <1>2, <1>6, <4>2 DEF Cell, Overrun
          <5>2. QED
            BY <3>2, <3>3, <3>4, <5>1
        <4>3. QED
          BY <1>2, <4>1, <4>2
      <3>5. mem'[Cell(p, i)] = mem[Cell(p, i)]
        BY <1>0, <1>2, <3>3, <3>4
      <3>6. QED
        BY <3>1, <3>5
    <2>2. QED
      BY <1>2, <1>3, <1>4, <1>8, <2>1, SeenKept
  <1>9. Sharing' = Sharing
    BY <1>3, <1>4 DEF Sharing
  <1>10. QED
    BY <1>8, <1>9

(* From the swing on all pointers to an object mean its copy, which is      *)
(* equal.                                                                   *)
LEMMA SwingView ==
  ASSUME HeapInv, HeapInv', Swing
  PROVE  UNCHANGED Program!vars
  <1>0. /\ w \in WorkerState /\ mem \in [Location -> Value]
        /\ Stack \cap Address = {} /\ Location = Stack \cup Address
    BY WorkerType, NameAssumption DEF HeapInv, IInv, TypeOK, Location
  <1>1. /\ w.pc = "swing" /\ w'.pc = "erase" /\ w'.val = w.val /\ w'.new = w.new
        /\ mem' = Exchanged(w.new) /\ UNCHANGED <<m_metadata, visited>>
    BY <1>0 DEF Swing, WorkerState
  <1>2. PICK p : p = w.val
    OBVIOUS
  <1>3. PICK q : q = w.new
    OBVIOUS
  <1>4. /\ p \in DOMAIN m_metadata /\ q \in DOMAIN m_metadata /\ p # q
        /\ p \in Address /\ q \in Address /\ m_metadata[q] = m_metadata[p]
        /\ m_metadata[p].size \in Nat
        /\ q \notin DOMAIN visited /\ p \notin DOMAIN visited
    BY <1>1, <1>2, <1>3, CopyingType, WorkerType DEF HeapInv, DInv, MovedInv
  <1>5. w.at \in Stack
    BY <1>1, <1>2, <1>4 DEF HeapInv, PtrInv, ForwardInv, Forwarding, Moving
  <1>6. \A l \in Location :
          mem'[l] = IF l = w.at /\ mem[l] = p THEN q ELSE mem[l]
    BY <1>0, <1>1, <1>2, <1>3 DEF Exchanged
  <1>7. /\ \A l \in Stack : mem[l] # q
        /\ \A o \in DOMAIN visited : visited[o] # q /\ visited[o] # p
    <2>1. \A o \in DOMAIN visited : visited[o][1] = w.to
      BY DEF HeapInv, DInv, MovedInv
    <2>2. p[1] # w.to
      BY <1>1, <1>2, WorkerType DEF HeapInv, Moving
    <2>3. QED
      BY <1>1, <1>3, <2>1, <2>2 DEF HeapInv, PtrInv, ForwardInv, CopiedInv
  <1>8. TargetsManaged /\ TargetsManaged'
    BY Targets, TargetsNext
  <1>9. \A l \in Stack :
          /\ Target(l) # q
          /\ Target(l)' = IF Target(l) = p THEN q ELSE Target(l)
    <2>1. \A x : Forwarded(x) = IF x \in DOMAIN visited THEN visited[x] ELSE x
      BY <1>1 DEF Forwarded
    <2>2. \A x : Forwarded(x)' = IF x \in DOMAIN visited THEN visited[x]
                                 ELSE IF x = p THEN q ELSE x
      BY <1>1, <1>2, <1>3, <1>4 DEF Forwarded
    <2>3. QED
      BY <1>0, <1>4, <1>6, <1>7, <2>1, <2>2 DEF Target
  <1>10. \A l \in Stack : mem'[l] = Null <=> mem[l] = Null
    BY <1>0, <1>4, <1>6, NameAssumption
  <1>11. \A o \in DOMAIN m_metadata, i \in Nat : i < m_metadata[o].size =>
           mem'[Cell(o, i)] = mem[Cell(o, i)]
    BY <1>0, <1>5, <1>6, ObjectCells DEF HeapInv
  <1>12. Object(q) = Object(p)
    <2>1. Copied = m_metadata[p].size
      BY <1>1, <1>2 DEF Copied, old_data
    <2>2. \A i \in 0 .. (m_metadata[p].size - 1) : mem[Cell(q, i)] = mem[Cell(p, i)]
      BY <1>1, <1>2, <1>3, <2>1 DEF HeapInv, CopiedInv
    <2>3. \A i \in 1 .. m_metadata[p].size :
            mem[Cell(q, i - 1)] = mem[Cell(p, i - 1)]
      BY <1>4, <2>2
    <2>4. QED
      BY <1>4, <2>3 DEF Object
  <1>13. ASSUME NEW l \in Stack PROVE Seen(l)' = Seen(l)
    <2>1. CASE mem[l] # Null /\ Target(l) = p
      <3>1. Seen(l) = Object(p) /\ Seen(l)' = Object(Target(l))' /\ Target(l)' = q
        BY <1>8, <1>9, <1>10, <2>1 DEF TargetsManaged
      <3>2. [i \in 1 .. m_metadata'[q].size |-> mem'[Cell(q, i - 1)]] = Object(q)
        BY <1>1, <1>4, <1>11, ObjectKept
      <3>3. QED
        BY <1>12, <3>1, <3>2 DEF Object
    <2>2. CASE mem[l] = Null \/ Target(l) # p
      <3>1. mem[l] # Null => Target(l) \in DOMAIN m_metadata /\ Target(l)' = Target(l)
        BY <1>8, <1>9, <2>2 DEF TargetsManaged
      <3>2. QED
        BY <1>1, <1>10, <1>11, <3>1, SeenKept
    <2>3. QED
      BY <2>1, <2>2
  <1>14. QED
    BY <1>9, <1>10, <1>13, SameView

(* What is erased is meant by no pointer any more.                          *)
LEMMA EraseView ==
  ASSUME HeapInv, HeapInv', EraseOld
  PROVE  UNCHANGED Program!vars
  <1>0. w \in WorkerState
    BY WorkerType DEF HeapInv
  <1>1. w.pc = "erase" /\ w'.pc = "trace" /\ UNCHANGED mem
    BY <1>0 DEF EraseOld, WorkerState
  <1>2. /\ w.val \in DOMAIN m_metadata /\ w.val[1] # w.to
        /\ w.new[1] = w.to /\ w.val \notin DOMAIN visited
    BY <1>1, WorkerType DEF HeapInv, DInv, MovedInv, Moving
  <1>3. /\ DOMAIN m_metadata' = DOMAIN m_metadata \ {w.val}
        /\ \A o \in DOMAIN m_metadata' : m_metadata'[o] = m_metadata[o]
    BY DEF EraseOld, Restrict
  <1>4. /\ DOMAIN visited' = DOMAIN visited \cup {w.val}
        /\ visited'[w.val] = w.new
        /\ \A o \in DOMAIN visited : visited'[o] = visited[o]
    BY <1>2 DEF EraseOld, Emplaced
  <1>5. /\ \A p : Forwarded(p) = IF p \in DOMAIN visited THEN visited[p]
                                 ELSE IF p = w.val THEN w.new ELSE p
        /\ \A p : Forwarded(p)' = IF p \in DOMAIN visited' THEN visited'[p] ELSE p
    BY <1>1, <1>2 DEF Forwarded
  <1>6. \A l \in Stack : Target(l)' = Target(l)
    BY <1>1, <1>2, <1>4, <1>5 DEF Target
  <1>7. \A l \in Stack : Target(l) # w.val
    BY <1>2, <1>5 DEF Target, HeapInv, DInv, MovedInv
  <1>8. \A l \in Stack : mem[l] # Null => Target(l) \in DOMAIN m_metadata
    BY Targets DEF TargetsManaged
  <1>9. QED
    BY <1>1, <1>3, <1>6, <1>7, <1>8, ViewKept

(* What is swept is meant by no pointer.                                    *)
LEMMA SweepView ==
  ASSUME HeapInv, HeapInv', Sweep
  PROVE  UNCHANGED Program!vars
  <1>0. w \in WorkerState
    BY WorkerType DEF HeapInv
  <1>1. /\ w.pc = "trace" /\ w'.pc = "swept" /\ UNCHANGED <<mem, visited>>
        /\ w.stack = <<>> /\ w.roots = {}
    BY <1>0 DEF Sweep, WorkerState
  <1>2. /\ DOMAIN m_metadata' = {o \in DOMAIN m_metadata : Survives(o)}
        /\ \A o \in DOMAIN m_metadata' : m_metadata'[o] = m_metadata[o]
    BY DEF Sweep, Restrict
  <1>3. \A l \in Stack : Target(l)' = Target(l)
    BY <1>1 DEF Target, Forwarded
  <1>4. TargetsManaged
    BY Targets
  <1>5. ASSUME NEW l \in Stack, mem[l] # Null
        PROVE  Target(l) \in DOMAIN m_metadata'
    <2>1. mem[l] \in Address /\ mem[l][1] = w.to
      BY <1>1, <1>4, <1>5, FinalPointers DEF TargetsManaged
    <2>2. Target(l) = mem[l]
      BY <1>1, <2>1, NewStays DEF Target, Forwarded
    <2>3. QED
      BY <1>2, <1>4, <1>5, <2>1, <2>2 DEF TargetsManaged, Survives
  <1>6. QED
    BY <1>1, <1>2, <1>3, <1>5, ViewKept

(* No pointer needs the map of a collection that is over.                   *)
LEMMA FinishView ==
  ASSUME HeapInv, HeapInv', Finish,
         w.pc = "swept" \/ \A l \in Stack : mem[l] \notin DOMAIN visited
  PROVE  UNCHANGED Program!vars
  <1>1. /\ w.pc # "erase" /\ w'.pc # "erase" /\ visited' = <<>>
        /\ UNCHANGED <<mem, m_metadata>>
    BY DEF Finish, IdleWorker, heap
  <1>2. \A l \in Stack : mem[l] \notin DOMAIN visited
    <2>1. CASE w.pc = "swept"
      <3>1. DOMAIN visited \subseteq Address
        BY DEF HeapInv, IInv, TypeOK
      <3>2. QED
        BY <2>1, <3>1, FinalPointers, NewStays
    <2>2. QED
      BY <2>1
  <1>3. \A l \in Stack : Target(l) = mem[l] /\ Target(l)' = mem[l]
    BY <1>1, <1>2 DEF Target, Forwarded
  <1>4. QED
    BY <1>1, <1>3, ViewKept

(* What the abstract heap's state says of single variables                  *)
LEMMA SeenView ==
  ASSUME UNCHANGED Program!vars
  PROVE  Sharing' = Sharing /\ \A l \in Stack : Seen(l)' = Seen(l)
  <1>1. Sharing' = Sharing
    BY DEF Program!vars
  <1>2. [l \in Stack |-> Seen(l)'] = [l \in Stack |-> Seen(l)]
    BY DEF Program!vars
  <1>3. ASSUME NEW l \in Stack PROVE Seen(l)' = Seen(l)
    <2>1. /\ [k \in Stack |-> Seen(k)'][l] = Seen(l)'
          /\ [k \in Stack |-> Seen(k)][l] = Seen(l)
      OBVIOUS
    <2>2. QED
      BY <1>2, <2>1
  <1>4. QED
    BY <1>1, <1>3

(* No step of a collection shows, but for an overrun.                       *)
LEMMA CollectionView ==
  ASSUME HeapInv, HeapInv', Collection,
         CopyWord => \A l \in Stack : ~ Clobbered(l),
         Finish => w.pc = "swept" \/ \A l \in Stack : mem[l] \notin DOMAIN visited
  PROVE  UNCHANGED Program!vars
  <1>0. w \in WorkerState
    BY WorkerType DEF HeapInv
  <1>1. ASSUME UNCHANGED <<m_metadata, mem, visited>>,
               w.pc # "erase", w'.pc # "erase"
        PROVE  UNCHANGED Program!vars
    BY <1>1, ViewUntouched
  <1>2. CASE TaskStart
    <2>1. UNCHANGED <<m_metadata, mem>> /\ w.pc = "idle" /\ w'.pc = "trace"
      BY <1>2 DEF TaskStart, IdleWorker
    <2>2. visited' = visited
      BY <1>2, <2>1 DEF TaskStart, HeapInv, DInv, MovedInv
    <2>3. QED
      BY <1>1, <2>1, <2>2
  <1>3. CASE \/ (\E l \in w.roots : TakeRoot(l)) \/ ReadTop \/ Ignore \/ Scan
             \/ ScanMember
    <2>1. UNCHANGED <<m_metadata, mem, visited>>
      BY <1>3 DEF TakeRoot, ReadTop, Ignore, Scan, ScanMember
    <2>2. w.pc \in {"trace", "forward", "scan"}
      BY <1>3 DEF TakeRoot, ReadTop, Ignore, Scan, ScanMember
    <2>3. w'.pc \in {"trace", "forward", "scan"}
      BY <1>0, <1>3 DEF TakeRoot, ReadTop, Ignore, Scan, ScanMember, WorkerState
    <2>4. QED
      BY <1>1, <2>1, <2>2, <2>3
  <1>4. CASE CopyReserve \/ CopyCheck \/ CopyAbort
    <2>1. UNCHANGED <<m_metadata, mem, visited>>
      BY <1>4 DEF CopyReserve, CopyCheck, CopyAbort
    <2>2. w.pc \in {"scan", "check", "emplace"}
      BY <1>4 DEF CopyReserve, CopyCheck, CopyAbort
    <2>3. w'.pc \in {"check", "emplace", "aborted"}
      BY <1>0, <1>4 DEF CopyReserve, CopyCheck, CopyAbort, WorkerState
    <2>4. QED
      BY <1>1, <2>1, <2>2, <2>3
  <1>5. CASE CopyEmplace
    <2>1. /\ UNCHANGED <<mem, visited>> /\ w.pc = "emplace" /\ w'.pc = "copy"
      BY <1>0, <1>5 DEF CopyEmplace, WorkerState
    <2>2. \A o \in DOMAIN m_metadata : m_metadata'[o] = m_metadata[o]
      BY <1>5 DEF CopyEmplace, Emplaced
    <2>3. \A l \in Stack : Target(l)' = Target(l)
      BY <2>1 DEF Target, Forwarded
    <2>4. \A l \in Stack : mem[l] # Null => Target(l) \in DOMAIN m_metadata
      BY Targets DEF TargetsManaged
    <2>5. QED
      BY <2>1, <2>2, <2>3, <2>4, ViewKept
  <1>6. CASE CopyWord
    <2>1. Sharing' = Sharing /\ \A l \in Stack : Seen(l)' = Seen(l)
      BY <1>6, CopyWordView
    <2>2. QED
      BY <2>1 DEF Program!vars
  <1>7. QED
    BY <1>2, <1>3, <1>4, <1>5, <1>6, RedirectView, SwingView, EraseView,
       SweepView, FinishView DEF Collection

(* Every step of the collector is one of the abstract heap, or shows        *)
(* nothing there.                                                           *)
LEMMA StepView ==
  ASSUME OneMutator, PointersInVariables, Serial \/ "data" \notin Ops,
         HeapInv, HeapInv', [Next]_vars,
         CopyWord => \A l \in Stack : ~ Clobbered(l),
         Finish => w.pc = "swept" \/ \A l \in Stack : mem[l] \notin DOMAIN visited
  PROVE  /\ [Program!Next]_(Program!vars)
         /\ Collection => UNCHANGED Program!vars
  <1>1. CASE \E t \in Threads : Mutator(t)
    BY <1>1, CollectionView, MutatorView
  <1>2. CASE Collection
    BY <1>2, CollectionView
  <1>3. CASE UNCHANGED vars
    <2>1. UNCHANGED Program!vars
      BY <1>3, ViewUntouched DEF vars
    <2>2. QED
      BY <2>1
  <1>4. QED
    BY <1>1, <1>2, <1>3 DEF Next

(* The first state is one of the abstract heap.                             *)
LEMMA InitView == Init => Program!Init
  <1> SUFFICES ASSUME Init PROVE Program!Init
    OBVIOUS
  <1>1. \A l \in Stack : mem[l] = Null
    BY DEF Init, Location
  <1>2. \A p : Forwarded(p) = p
    BY DEF Init, Forwarded, IdleWorker
  <1>3. \A l \in Stack : Seen(l) = <<>>
    BY <1>1, <1>2, NameAssumption DEF Seen, Target, Init
  <1>4. QED
    BY <1>1, <1>3 DEF Program!Init, Sharing

(* The invariant of such a program: no variable leads to what was moved.    *)
LEMMA AloneStep ==
  ASSUME OneMutator, Ops \cap {"copy", "field", "data"} = {},
         HeapInv, AloneInv, [Next]_vars
  PROVE  /\ HeapInv' /\ AloneInv'
         /\ \A l \in Stack : mem[l] \notin DOMAIN visited
  <1>0. /\ PointersInVariables /\ "copy" \notin Ops /\ "data" \notin Ops
        /\ Ops \cap {"copy", "field"} = {}
    BY DEF PointersInVariables
  <1>1. \A l \in Stack : mem[l] \notin DOMAIN visited
    BY DEF AloneInv
  <1>2. IInv' /\ DInv' /\ PtrInv'
    BY <1>0, <1>1, StepIInv, StepDInv, StepPtrInv DEF HeapInv
  <1>3. CopiedInv'
    BY <1>0, StepCopied DEF HeapInv
  <1>4. CASE UNCHANGED vars
    BY <1>1, <1>2, <1>3, <1>4 DEF HeapInv, vars, AloneInv
  <1>5. AloneInv'
    BY <1>0, <1>4, AloneMutator, AloneCollection DEF Next, HeapInv
  <1>6. QED
    BY <1>1, <1>2, <1>3, <1>5 DEF HeapInv

(* It holds initially.                                                      *)
LEMMA InitAloneHeap == Init => HeapInv /\ AloneInv
  <1>1. Init => CopiedInv
    BY DEF Init, CopiedInv, IdleWorker
  <1>2. QED
    BY <1>1, InitIInv, InitDInv, InitPtrInv, InitAlone DEF HeapInv

(* A program that only allocates and drops objects sees of the collector,   *)
(* which runs beside it or not and may be given up, nothing but the last    *)
(* access of a copy that runs into the object behind the copy: for either   *)
(* policy, any heap, any requests and any width of an access.               *)
THEOREM AloneOverrun ==
  ASSUME OneMutator, Ops \cap {"copy", "field", "data"} = {}
  PROVE  Spec => OnlyOverrunShows
  <1> DEFINE Inv == HeapInv /\ AloneInv
             Shown == IF Collection
                      THEN /\ Sharing' = Sharing
                           /\ \A l \in Stack : \/ Seen(l)' = Seen(l)
                                               \/ CopyWord /\ Clobbered(l)
                      ELSE Program!Next \/ UNCHANGED Program!vars
  <1>1. Inv /\ [Next]_vars => Inv'
    BY AloneStep
  <1>2. ASSUME Inv, Inv', [Next]_vars PROVE [Shown]_vars
    <2>1. \A l \in Stack : mem[l] \notin DOMAIN visited
      BY <1>2, AloneStep
    <2>2. CASE CopyWord
      BY <1>2, <2>2, CopyWordView DEF Collection
    <2>3. CASE Collection /\ ~ CopyWord
      <3>1. UNCHANGED Program!vars
        BY <1>2, <2>1, <2>3, CollectionView
      <3>2. Sharing' = Sharing /\ \A l \in Stack : Seen(l)' = Seen(l)
        BY <3>1, SeenView
      <3>3. QED
        BY <2>3, <3>2
    <2>4. CASE ~ Collection /\ \E t \in Threads : Mutator(t)
      <3>1. PointersInVariables /\ "data" \notin Ops
        BY DEF PointersInVariables
      <3>2. [Program!Next]_(Program!vars)
        BY <1>2, <2>4, <3>1, MutatorView
      <3>3. QED
        BY <2>4, <3>2
    <2>5. QED
      BY <1>2, <2>2, <2>3, <2>4 DEF Next
  <1>3. Inv /\ Inv' /\ [Next]_vars => [Shown]_vars
    BY <1>2
  <1>4. QED
    BY <1>1, <1>3, InitView, InitAloneHeap, PTL DEF Spec, OnlyOverrunShows

(* Where objects and their alignments are whole words a copy has no overrun *)
(* and such a program cannot tell that there is a collector: objects keep   *)
(* their contents and their sharing.                                        *)
THEOREM AloneInvisible ==
  ASSUME OneMutator, Ops \cap {"copy", "field", "data"} = {}, Word = 1
  PROVE  Spec => CollectionInvisible
  <1> DEFINE Inv == HeapInv /\ AloneInv
  <1>0. PointersInVariables /\ "data" \notin Ops
    BY DEF PointersInVariables
  <1>1. Inv /\ [Next]_vars => Inv'
    BY AloneStep
  <1>2. ASSUME Inv, [Next]_vars
        PROVE  /\ \A l \in Stack : mem[l] \notin DOMAIN visited
               /\ CopyWord => \A l \in Stack : ~ Clobbered(l)
    <2>1. ASSUME CopyWord PROVE Overrun = {}
      <3>1. /\ w.i \in Nat /\ old_data.size \in Nat /\ w.i < old_data.size
            /\ w.val[2] \in Nat /\ w.new[2] \in Nat
        BY <1>2, <2>1, CopyingType, WorkerType DEF CopyWord, HeapInv, Moving
      <3>2. Width(w.val[2] + w.i) = 1
        BY <3>1 DEF Width
      <3>3. copied = w.i + 1
        BY <3>2 DEF copied
      <3>4. w.new[2] + old_data.size .. w.new[2] + copied - 1 = {}
        BY <3>1, <3>3
      <3>5. QED
        BY <3>4 DEF Overrun
    <2>2. QED
      BY <1>2, <2>1, AloneStep DEF Clobbered
  <1>3. /\ Inv /\ Inv' /\ [Next]_vars => [Program!Next]_(Program!vars)
        /\ Inv /\ Inv' /\ [Next]_vars =>
             [Collection => UNCHANGED Program!vars]_vars
    BY <1>0, <1>2, StepView
  <1>4. QED
    BY <1>1, <1>3, InitView, InitAloneHeap, PTL
       DEF Spec, CollectionInvisible, Program!Spec
=============================================================================
