------------------------- MODULE CopyingCollector -------------------------
(***************************************************************************)
(* CopyingCollector<LockPolicy, FinalGenerationPolicy>: mutator threads    *)
(* that allocate and use objects, and the collection that moves the live   *)
(* ones to the other space.  Under ConcurrentGCPolicy the collection runs  *)
(* on the Task thread beside the mutators; under SerialGCPolicy the caller *)
(* of collect runs it and waits (Serial).                                  *)
(*                                                                         *)
(* A step is one region under m_lock, one access to an atomic, or one      *)
(* access to memory.  Memory is made of cells.  Where the heap holds       *)
(* pointers a cell has the size of a FatPtr, all sizes are whole cells and *)
(* Word is 1; where it holds plain data only, a cell may be smaller than   *)
(* the widest access of seq_cst_cpy, which then covers Word cells and can  *)
(* write behind the copy of an object that is no multiple of it.           *)
(* reserve_space is one step here: ReserveSpace shows that its             *)
(* compare-and-swap loop behaves as one.  The queue of the Task thread is  *)
(* that of WorkQueue, where a task is over when its future is ready: Task  *)
(* shows that the mutex and the condition variable provide it.             *)
(***************************************************************************)
EXTENDS Naturals, Sequences, Functions

CONSTANTS
  Threads,     \* mutators; each has called GC_UPDATE_STACK_RANGE
  Slots,       \* FatPtr variables on the stack of a mutator
  HeapSize,    \* m_heap_size: cells of a space
  MaxAlloc,    \* m_max_alloc_size: cells of a space open to mutators
  Word,        \* cells that an access to 8 bytes covers
  Requests,    \* arguments of alloc: [size, align]
  Serial,      \* TRUE for SerialGCPolicy, FALSE for ConcurrentGCPolicy
  FrontEnd,    \* TRUE when mutators go through GC::alloc
  Ops,         \* what mutators do with pointers: "copy", "data", "field"
  Null,        \* the FatPtr with address 0
  Data,        \* plain values
  Raw,         \* memory never written
  Fresh        \* what a constructor may write into the cells of an object

Address == {0, 1} \X (0 .. HeapSize - 1)     \* <<space, index>>
Stack == Threads \X Slots
Location == Stack \cup Address
FatPtrs == Address \cup {Null}
Value == FatPtrs \cup Data \cup {Raw}
Metadata == [size : Nat, align : Nat \ {0}]

(* The constructor rounds m_heap_size up and halves the requested size.    *)
ASSUME SizeAssumption ==
  HeapSize \in Nat /\ MaxAlloc \in Nat \ {0} /\ 2 * MaxAlloc <= HeapSize
(* Cells smaller than a word hold no pointers; a space is whole pages.     *)
ASSUME WordAssumption ==
  /\ Word \in {1, 2, 4, 8}
  /\ HeapSize % Word = 0
  /\ Word > 1 => "field" \notin Ops /\ Null \notin Fresh
ASSUME RequestAssumption == Requests \subseteq Metadata
ASSUME FreshAssumption == Fresh \subseteq Data \cup {Null}
(* A variable is not in the heap; a cell holds one kind of value. *)
ASSUME NameAssumption ==
  /\ Stack \cap Address = {}
  /\ Null \notin Address
  /\ Data \cap FatPtrs = {}
  /\ Raw \notin FatPtrs
ASSUME PolicyAssumption ==
  /\ Serial \in BOOLEAN /\ FrontEnd \in BOOLEAN
  /\ Serial => \A s, t \in Threads : s = t

VARIABLES
  m_nexts,           \* next free index of each space
  m_space_num,       \* the space mutators allocate in
  m_metadata,        \* size and alignment of every managed object
  m_collect_result,  \* the shared_future: "invalid", "pending" or "ready"
  tasks,             \* queue of the Task thread: the to_space of each task
  mem,               \* contents of every location
  th,                \* control state and locals of every mutator
  w,                 \* control state and locals of the collection
  visited            \* its map from objects to the copies it made of them

heap == <<m_nexts, m_space_num, m_metadata>>
collection == <<w, visited>>
vars == <<m_nexts, m_space_num, m_metadata, m_collect_result, tasks, mem, th,
          w, visited>>

NoRequest == [size |-> 0, align |-> 1]
IdleThread == [pc |-> "idle", req |-> NoRequest, ret |-> "idle", ptr |-> Null]
IdleWorker == [pc |-> "idle", to |-> 0, roots |-> {}, stack |-> <<>>,
               at |-> Null, val |-> Null, new |-> Null, i |-> 0]

Init ==
  /\ m_nexts = [s \in {0, 1} |-> 0]
  /\ m_space_num = 0
  /\ m_metadata = <<>>
  /\ m_collect_result = "invalid"
  /\ tasks = <<>>
  /\ mem = [l \in Location |-> IF l \in Stack THEN Null ELSE Raw]
  /\ th = [t \in Threads |-> IdleThread]
  /\ w = IdleWorker
  /\ visited = <<>>

-----------------------------------------------------------------------------
(* Allocation helpers *)

Cell(p, i) == <<p[1], p[2] + i>>
Cells(p, n) == {p[1]} \X (p[2] .. (p[2] + n - 1))

contains(p) == p \in Address
get_space_num(p) == p[1]

(* fetch_xor(m_space_num, 1): a flip leads here. *)
flip_space == 1 - m_space_num

(* unordered_map::emplace, which keeps a value that is there already *)
Emplaced(f, k, v) ==
  [x \in DOMAIN f \cup {k} |-> IF x \in DOMAIN f THEN f[x] ELSE v]

Padding(n, a) == IF n % a = 0 THEN 0 ELSE a - (n % a)

(* reserve_space returns At(s, r) and moves m_nexts[s] to End(s, r), or     *)
(* returns nullopt when the request does not fit below the limit.           *)
At(s, r) == m_nexts[s] + Padding(m_nexts[s], r.align)
End(s, r) == At(s, r) + r.size
(* Mutant: the limit is not looked at. *)
FitsAlways(s, r, limit) == TRUE
Fits(s, r, limit) == End(s, r) <= limit

(* Mutant: the overlap check is disabled. *)
OverlapsNothing(p, size) == FALSE
(* check_overlapping_alloc, called with an index *)
Overlaps(p, size) ==
  \E o \in DOMAIN m_metadata :
    /\ o[1] = p[1]
    /\ \/ o[2] <= p[2] /\ o[2] + m_metadata[o].size > p[2]
       \/ p[2] <= o[2] /\ p[2] + size > o[2]

free_space ==
  IF m_nexts[m_space_num] >= MaxAlloc THEN 0
  ELSE MaxAlloc - m_nexts[m_space_num]

-----------------------------------------------------------------------------
(* Mutators: GC::alloc, GC::collect and CopyingCollector::alloc, collect    *)

Errors == {"bad_alloc", "bad_optional_access", "heap_corruption"}

(* CopyingCollector::alloc turns away requests of no or too many cells. *)
Entry(r) == IF r.size = 0 \/ r.size > MaxAlloc THEN "bad_alloc" ELSE "reserve"

CallAlloc(t, r) ==
  /\ th[t].pc = "idle"
  /\ th' = [th EXCEPT ![t].req = r,
                      ![t].pc = IF FrontEnd THEN "front" ELSE Entry(r)]
  /\ UNCHANGED <<heap, m_collect_result, tasks, mem, collection>>

CallCollect(t) ==
  /\ th[t].pc = "idle"
  /\ th' = [th EXCEPT ![t].pc = "collect"]
  /\ UNCHANGED <<heap, m_collect_result, tasks, mem, collection>>

(* GC::alloc looks at the free space, collects, and looks again. *)
FrontCheck(t) ==
  LET r == th[t].req
      enough == free_space >= r.size
  IN  /\ \/ /\ th[t].pc = "front"
            /\ th' = IF enough
                     THEN [th EXCEPT ![t].pc = Entry(r)]
                     ELSE [th EXCEPT ![t].pc = "collect", ![t].ret = "front2"]
         \/ /\ th[t].pc = "front2"
            /\ th' = [th EXCEPT ![t].pc = IF enough THEN Entry(r)
                                          ELSE "bad_alloc"]
      /\ UNCHANGED <<heap, m_collect_result, tasks, mem, collection>>

(* alloc_attempt, the region under m_lock: reserve_space finds room and the *)
(* overlap is checked; the reservation stays when the check throws.         *)
Reserve(t) ==
  LET r == th[t].req
      p == <<m_space_num, At(m_space_num, r)>>
  IN  /\ th[t].pc \in {"reserve", "retry"}
      /\ Fits(m_space_num, r, MaxAlloc)
      /\ m_nexts' = [m_nexts EXCEPT ![m_space_num] = End(m_space_num, r)]
      /\ th' = IF Overlaps(p, r.size)
               THEN [th EXCEPT ![t].pc = "heap_corruption"]
               ELSE [th EXCEPT ![t].pc = "emplace", ![t].ptr = p]
      /\ UNCHANGED <<m_space_num, m_metadata, m_collect_result, tasks, mem, collection>>

(* No room: the overlap check asks the empty optional for its value as soon *)
(* as there is an object to compare with; otherwise the first attempt       *)
(* collects and the second one gives up.                                    *)
NoRoom(t) ==
  /\ th[t].pc \in {"reserve", "retry"}
  /\ ~ Fits(m_space_num, th[t].req, MaxAlloc)
  /\ th' = CASE DOMAIN m_metadata # {} ->
                  [th EXCEPT ![t].pc = "bad_optional_access"]
             [] DOMAIN m_metadata = {} /\ th[t].pc = "reserve" ->
                  [th EXCEPT ![t].pc = "collect", ![t].ret = "retry"]
             [] OTHER -> [th EXCEPT ![t].pc = "bad_alloc"]
  /\ UNCHANGED <<heap, m_collect_result, tasks, mem, collection>>

(* alloc_no_constraints for a mutator; its bound cannot fail below MaxAlloc. *)
Emplace(t) ==
  /\ th[t].pc = "emplace"
  /\ m_metadata' = Emplaced(m_metadata, th[t].ptr, th[t].req)
  /\ th' = [th EXCEPT ![t].pc = "construct"]
  /\ UNCHANGED <<m_nexts, m_space_num, m_collect_result, tasks, mem, collection>>

(* SafePtr::make runs the constructor and stores the pointer; until then it *)
(* is in a register, where the collection does not look for roots.          *)
Construct(t, k, v) ==
  LET new == Cells(th[t].ptr, th[t].req.size)
  IN  /\ th[t].pc = "construct"
      /\ mem' = [l \in Location |-> CASE l \in new -> v
                                      [] l = <<t, k>> -> th[t].ptr
                                      [] OTHER -> mem[l]]
      /\ th' = [th EXCEPT ![t] = IdleThread]
      /\ UNCHANGED <<heap, m_collect_result, tasks, collection>>

Catch(t) ==
  /\ th[t].pc \in Errors
  /\ th' = [th EXCEPT ![t] = IdleThread]
  /\ UNCHANGED <<heap, m_collect_result, tasks, mem, collection>>

(* needed_space: the size when alloc_attempt collects, else any large value *)
Needed(t) == IF th[t].ret = "retry" THEN th[t].req.size ELSE MaxAlloc + 1

(* Mutant: after a collection the allocation starts over, for ever. *)
ResumedAgain(x) ==
  CASE x.ret = "idle" -> IdleThread
    [] x.ret = "front2" -> [x EXCEPT !.pc = "front", !.ret = "idle"]
    [] OTHER -> [x EXCEPT !.pc = "reserve", !.ret = "idle"]
(* Where a mutator goes on after collect *)
Resumed(x) == IF x.ret = "idle" THEN IdleThread
              ELSE [x EXCEPT !.pc = x.ret, !.ret = "idle"]

(* collect: wait while a collection runs and there is too little room. *)
CollectLoop(t) ==
  /\ th[t].pc = "collect"
  /\ th' = [th EXCEPT ![t].pc =
              IF m_collect_result = "pending" /\ free_space < Needed(t)
              THEN "wait" ELSE "lock"]
  /\ UNCHANGED <<heap, m_collect_result, tasks, mem, collection>>

(* Mutant: the future is not looked at again under the lock. *)
MayStartUnchecked(t) == free_space < Needed(t)
MayStart(t) == free_space < Needed(t) /\ m_collect_result # "pending"

(* Mutant: the index of the new space is reset instead of the old one's. *)
NextsResetNew == [m_nexts EXCEPT ![1 - m_space_num] = 0]
NextsAfterFlip == [m_nexts EXCEPT ![m_space_num] = 0]

(* collect under m_lock, and async_collect up to do_collection: the spaces  *)
(* are flipped, the old one is declared empty and the collection queued.    *)
StartCollection(t) ==
  /\ th[t].pc = "lock"
  /\ MayStart(t)
  /\ m_space_num' = flip_space
  /\ m_nexts' = NextsAfterFlip
  /\ tasks' = Append(tasks, flip_space)
  /\ m_collect_result' = "pending"
  /\ th' = [th EXCEPT ![t] = IF Serial THEN [@ EXCEPT !.pc = "inline"]
                             ELSE Resumed(@)]
  /\ UNCHANGED <<m_metadata, mem, collection>>

SkipCollection(t) ==
  /\ th[t].pc = "lock"
  /\ ~ MayStart(t)
  /\ th' = [th EXCEPT ![t] = Resumed(@)]
  /\ UNCHANGED <<heap, m_collect_result, tasks, mem, collection>>

-----------------------------------------------------------------------------
(* Mutators using their pointers.  Reading a pointer and using it are two   *)
(* steps: in between it lives in a register.                                *)

Uses == <<heap, m_collect_result, tasks, collection>>

LoadPtr(t, k) ==
  /\ Ops # {}
  /\ th[t].pc = "idle"
  /\ mem[<<t, k>>] \in Address
  /\ th' = [th EXCEPT ![t].pc = "use", ![t].ptr = mem[<<t, k>>]]
  /\ UNCHANGED <<mem, Uses>>

(* A SafePtr copied into another variable *)
StorePtr(t, k) ==
  /\ "copy" \in Ops
  /\ th[t].pc = "use"
  /\ mem' = [mem EXCEPT ![<<t, k>>] = th[t].ptr]
  /\ th' = [th EXCEPT ![t] = IdleThread]
  /\ UNCHANGED Uses

(* *ptr = d *)
WriteData(t, d) ==
  /\ "data" \in Ops
  /\ th[t].pc = "use"
  /\ mem' = [mem EXCEPT ![th[t].ptr] = d]
  /\ th' = [th EXCEPT ![t] = IdleThread]
  /\ UNCHANGED Uses

(* ptr->next = other *)
WriteField(t, k) ==
  /\ "field" \in Ops
  /\ th[t].pc = "use"
  /\ mem' = [mem EXCEPT ![th[t].ptr] = mem[<<t, k>>]]
  /\ th' = [th EXCEPT ![t] = IdleThread]
  /\ UNCHANGED Uses

(* ptr = nullptr, or ptr goes out of scope *)
ClearSlot(t, k) ==
  /\ th[t].pc = "idle"
  /\ mem[<<t, k>>] # Null
  /\ mem' = [mem EXCEPT ![<<t, k>>] = Null]
  /\ UNCHANGED <<th, Uses>>

-----------------------------------------------------------------------------
(* The collection: the lambda of async_collect                              *)

Mutators == <<th, m_space_num, m_collect_result, tasks>>

(* GC_GET_ROOTS: the stack locations that hold a FatPtr, null or not *)
Roots == {l \in Stack : mem[l] \in FatPtrs}

(* The worker thread takes the task and looks for the roots. *)
TaskStart ==
  /\ w.pc = "idle"
  /\ tasks # <<>>
  /\ w' = [IdleWorker EXCEPT !.pc = "trace", !.to = Head(tasks),
                             !.roots = Roots]
  /\ visited' = <<>>
  /\ UNCHANGED <<m_nexts, m_metadata, mem, Mutators>>

(* Mutant: the loop does not advance to the next root. *)
TakeRootAgain(l) ==
  /\ w.pc = "trace" /\ w.stack = <<>> /\ l \in w.roots
  /\ w' = [w EXCEPT !.stack = IF mem[l] \in Address THEN <<l>> ELSE <<>>]
  /\ UNCHANGED <<m_nexts, m_metadata, mem, visited, Mutators>>

(* The next root, if it still holds a pointer into the heap (contains), is  *)
(* the first location forward_ptr visits.                                   *)
TakeRoot(l) ==
  /\ w.pc = "trace" /\ w.stack = <<>> /\ l \in w.roots
  /\ w' = [w EXCEPT !.roots = w.roots \ {l},
                    !.stack = IF contains(mem[l]) THEN <<l>> ELSE <<>>]
  /\ UNCHANGED <<m_nexts, m_metadata, mem, visited, Mutators>>

(* forward_ptr pops a location and reads it once more (test_ptr). *)
ReadTop ==
  LET l == Head(w.stack)
  IN  /\ w.pc = "trace" /\ w.stack # <<>>
      /\ w' = IF mem[l] \in FatPtrs
              THEN [w EXCEPT !.pc = "forward", !.stack = Tail(w.stack),
                             !.at = l, !.val = mem[l]]
              ELSE [w EXCEPT !.stack = Tail(w.stack)]
      /\ UNCHANGED <<m_nexts, m_metadata, mem, visited, Mutators>>

(* Mutant: the new address is stored, whatever is there by now. *)
ExchangedBlind(new) == [mem EXCEPT ![w.at] = new]
(* FatPtr::compare_exchange on the location being forwarded *)
Exchanged(new) == IF mem[w.at] = w.val THEN [mem EXCEPT ![w.at] = new] ELSE mem

(* Mutant: a pointer to an object already moved is left as it is. *)
RedirectForgotten ==
  /\ w.pc = "forward" /\ w.val \in DOMAIN visited
  /\ w' = [w EXCEPT !.pc = "trace"]
  /\ UNCHANGED <<m_nexts, m_metadata, mem, visited, Mutators>>

(* The object has been moved already. *)
Redirect ==
  /\ w.pc = "forward" /\ w.val \in DOMAIN visited
  /\ mem' = Exchanged(visited[w.val])
  /\ w' = [w EXCEPT !.pc = "trace"]
  /\ UNCHANGED <<m_nexts, m_metadata, visited, Mutators>>

Managed(p) == p \in DOMAIN m_metadata /\ get_space_num(p) # w.to

(* Not an object, or one in the new space already. *)
Ignore ==
  /\ w.pc = "forward" /\ w.val \notin DOMAIN visited
  /\ ~ Managed(w.val)
  /\ w' = [w EXCEPT !.pc = "trace"]
  /\ UNCHANGED <<m_nexts, m_metadata, mem, visited, Mutators>>

old_data == m_metadata[w.val]

Scan ==
  /\ w.pc = "forward" /\ w.val \notin DOMAIN visited
  /\ Managed(w.val)
  /\ w' = [w EXCEPT !.pc = "scan", !.i = 0]
  /\ UNCHANGED <<m_nexts, m_metadata, mem, visited, Mutators>>

(* Mutant: the scan stops one cell too early. *)
ScanningShort == w.i + 2 < old_data.size
(* scan_memory goes on while a FatPtr ends before end: it leaves out the    *)
(* last cell of the object.                                                 *)
Scanning == w.i + 1 < old_data.size

(* A member pointer goes on the stack, as a location of the old object.     *)
ScanMember ==
  LET l == Cell(w.val, w.i)
  IN  /\ w.pc = "scan" /\ Scanning
      /\ w' = [w EXCEPT !.i = w.i + 1,
                        !.stack = IF mem[l] \in FatPtrs THEN <<l>> \o w.stack
                                  ELSE w.stack]
      /\ UNCHANGED <<m_nexts, m_metadata, mem, visited, Mutators>>

(* copy: reserve_space with the whole space as the limit, without the lock  *)
CopyReserve ==
  /\ w.pc = "scan" /\ ~ Scanning
  /\ Fits(w.to, old_data, HeapSize)
  /\ m_nexts' = [m_nexts EXCEPT ![w.to] = End(w.to, old_data)]
  /\ w' = [w EXCEPT !.pc = "check", !.new = <<w.to, At(w.to, old_data)>>]
  /\ UNCHANGED <<m_metadata, mem, visited, Mutators>>

CopyCheck ==
  /\ w.pc = "check"
  /\ ~ Overlaps(w.new, old_data.size)
  /\ w' = [w EXCEPT !.pc = "emplace"]
  /\ UNCHANGED <<m_nexts, m_metadata, mem, visited, Mutators>>

(* alloc_no_constraints *)
CopyEmplace ==
  /\ w.pc = "emplace"
  /\ w.new[2] + old_data.size < HeapSize
  /\ m_metadata' = Emplaced(m_metadata, w.new, old_data)
  /\ w' = [w EXCEPT !.pc = "copy", !.i = 0]
  /\ UNCHANGED <<m_nexts, mem, visited, Mutators>>

(* An exception leaves the lambda: there is no room (the overlap check then *)
(* reads the empty optional), there is an overlap, or the copy would reach  *)
(* the end of the space.  The packaged_task keeps it in the future, which   *)
(* nobody asks for it.                                                      *)
CopyAbort ==
  /\ \/ w.pc = "scan" /\ ~ Scanning /\ ~ Fits(w.to, old_data, HeapSize)
     \/ w.pc = "check" /\ Overlaps(w.new, old_data.size)
     \/ w.pc = "emplace" /\ w.new[2] + old_data.size >= HeapSize
  /\ w' = [w EXCEPT !.pc = "aborted"]
  /\ UNCHANGED <<m_nexts, m_metadata, mem, visited, Mutators>>

(* The widest access of seq_cst_cpy that the address of the source allows,  *)
(* whatever the destination is aligned to and however little is left.       *)
Width(index) == IF index % Word = 0 THEN Word
                ELSE IF index % 4 = 0 THEN 4
                ELSE IF index % 2 = 0 THEN 2 ELSE 1

(* Where the next access of the copy ends *)
copied == w.i + Width(w.val[2] + w.i)

(* seq_cst_cpy, one access at a time; what it writes behind the space is    *)
(* not kept track of.                                                       *)
CopyWord ==
  /\ w.pc = "copy"
  /\ mem' = [l \in Location |->
               IF l \in Address /\ l \in Cells(Cell(w.new, w.i), copied - w.i)
               THEN mem[Cell(w.val, l[2] - w.new[2])] ELSE mem[l]]
  /\ w' = [w EXCEPT !.i = copied,
                    !.pc = IF copied < old_data.size THEN "copy" ELSE "swing"]
  /\ UNCHANGED <<m_nexts, m_metadata, visited, Mutators>>

(* to_update.compare_exchange(ptr, new_obj) *)
Swing ==
  /\ w.pc = "swing"
  /\ mem' = Exchanged(w.new)
  /\ w' = [w EXCEPT !.pc = "erase"]
  /\ UNCHANGED <<m_nexts, m_metadata, visited, Mutators>>

(* Mutant: the old object stays managed. *)
EraseForgotten ==
  /\ w.pc = "erase"
  /\ visited' = Emplaced(visited, w.val, w.new)
  /\ w' = [w EXCEPT !.pc = "trace"]
  /\ UNCHANGED <<m_nexts, m_metadata, mem, Mutators>>

EraseOld ==
  /\ w.pc = "erase"
  /\ m_metadata' = Restrict(m_metadata, DOMAIN m_metadata \ {w.val})
  /\ visited' = Emplaced(visited, w.val, w.new)
  /\ w' = [w EXCEPT !.pc = "trace"]
  /\ UNCHANGED <<m_nexts, mem, Mutators>>

(* Mutant: objects that were not visited are kept. *)
SurvivesAlways(o) == TRUE
(* Mutant: only the copies are kept. *)
SurvivesAsCopy(o) == \E p \in DOMAIN visited : visited[p] = o
Survives(o) == get_space_num(o) = w.to \/ o \in DOMAIN visited

Sweep ==
  /\ w.pc = "trace" /\ w.stack = <<>> /\ w.roots = {}
  /\ m_metadata' =
       Restrict(m_metadata, {o \in DOMAIN m_metadata : Survives(o)})
  /\ w' = [w EXCEPT !.pc = "swept"]
  /\ UNCHANGED <<m_nexts, mem, visited, Mutators>>

(* What becoming ready means to a mutator: wait() returns, or with the      *)
(* serial policy do_collection does.                                        *)
Woken(x) == CASE x.pc = "wait" -> [x EXCEPT !.pc = "collect"]
              [] x.pc = "inline" -> Resumed(x)
              [] OTHER -> x

(* The future becomes ready and the task leaves the queue. *)
Finish ==
  /\ w.pc \in {"swept", "aborted"}
  /\ tasks' = Tail(tasks)
  /\ m_collect_result' = "ready"
  /\ th' = [t \in Threads |-> Woken(th[t])]
  /\ w' = IdleWorker
  /\ visited' = <<>>
  /\ UNCHANGED <<heap, mem>>

-----------------------------------------------------------------------------
(* Steps of a call that has begun *)
Call(t) ==
  \/ FrontCheck(t) \/ Reserve(t) \/ NoRoom(t) \/ Emplace(t)
  \/ \E k \in Slots, v \in Fresh : Construct(t, k, v)
  \/ Catch(t)
  \/ CollectLoop(t) \/ StartCollection(t) \/ SkipCollection(t)

Use(t) ==
  \/ \E k \in Slots : StorePtr(t, k) \/ WriteField(t, k)
  \/ \E d \in Data : WriteData(t, d)

Mutator(t) ==
  \/ \E r \in Requests : CallAlloc(t, r)
  \/ CallCollect(t)
  \/ Call(t)
  \/ \E k \in Slots : LoadPtr(t, k) \/ ClearSlot(t, k)
  \/ Use(t)

Collection ==
  \/ TaskStart \/ (\E l \in w.roots : TakeRoot(l)) \/ ReadTop
  \/ Redirect \/ Ignore \/ Scan \/ ScanMember
  \/ CopyReserve \/ CopyCheck \/ CopyEmplace \/ CopyAbort \/ CopyWord
  \/ Swing \/ EraseOld \/ Sweep \/ Finish

Next == (\E t \in Threads : Mutator(t)) \/ Collection

(* The operating system runs every thread: a call that has begun goes on,   *)
(* and so does the collection.                                              *)
Fairness == WF_vars(Collection) /\ \A t \in Threads : WF_vars(Call(t) \/ Use(t))

Spec == Init /\ [][Next]_vars
FairSpec == Spec /\ Fairness

-----------------------------------------------------------------------------
ThreadState == [
  pc : {"idle", "front", "front2", "reserve", "retry", "emplace", "construct",
        "collect", "wait", "lock", "inline", "use"} \cup Errors,
  req : Requests \cup {NoRequest},
  ret : {"idle", "front2", "retry"},
  ptr : FatPtrs]

WorkerState == [
  pc : {"idle", "trace", "forward", "scan", "check", "emplace", "copy",
        "swing", "erase", "swept", "aborted"},
  to : {0, 1}, roots : SUBSET Stack, stack : Seq(Location),
  at : Location \cup {Null}, val : FatPtrs, new : FatPtrs, i : Nat]

TypeOK ==
  /\ m_nexts \in [{0, 1} -> 0 .. HeapSize]
  /\ m_space_num \in {0, 1}
  /\ DOMAIN m_metadata \subseteq Address
  /\ \A o \in DOMAIN m_metadata : m_metadata[o] \in Metadata
  /\ m_collect_result \in {"invalid", "pending", "ready"}
  /\ tasks \in Seq({0, 1})
  /\ mem \in [Location -> Value]
  /\ th \in [Threads -> ThreadState]
  /\ w \in WorkerState
  /\ DOMAIN visited \subseteq Address
  /\ \A o \in DOMAIN visited : visited[o] \in Address

(* A collection is started only when none is under way, although collect    *)
(* looks at the future outside the lock first: at most one task is ever     *)
(* queued, the future is pending exactly while there is one, and the space  *)
(* a running collection copies into is the one the mutators allocate in.    *)
SingleCollection ==
  /\ tasks = IF m_collect_result = "pending" THEN <<m_space_num>> ELSE <<>>
  /\ w.pc # "idle" => m_collect_result = "pending" /\ w.to = m_space_num

(* The space that is not in use has been declared empty: a flip always      *)
(* leads into a space whose reservations start at its first cell.           *)
InactiveSpaceReset == m_nexts[1 - m_space_num] = 0

(* No two managed objects share a cell. *)
MetadataDisjoint ==
  \A o, p \in DOMAIN m_metadata :
    o # p /\ o[1] = p[1] =>
      \/ o[2] + m_metadata[o].size <= p[2]
      \/ p[2] + m_metadata[p].size <= o[2]

(* The overlap check of an allocation never fires: no object is left in a   *)
(* space that is being handed out from its first cell again.                *)
NoHeapCorruption == \A t \in Threads : th[t].pc # "heap_corruption"

(* A pointer variable never refers to memory the collector has given up,    *)
(* while it is moved, when the collection aborts, and ever after.           *)
RootsManaged ==
  \A l \in Stack : mem[l] \in Address => mem[l] \in DOMAIN m_metadata

(* A collection that runs to its end leaves no object in the old space,     *)
(* whose index was reset before the collection began.                       *)
OldSpaceEmptied ==
  w.pc = "swept" => \A o \in DOMAIN m_metadata : o[1] = w.to

(* The traversal reaches everything: when the collection is about to sweep, *)
(* no member that scan_memory reports of an object it moved refers to an    *)
(* object that is still managed in the old space.                           *)
TraversalComplete ==
  w.pc = "trace" /\ w.stack = <<>> /\ w.roots = {} =>
    \A p \in DOMAIN visited :
      \A i \in 1 .. (m_metadata[visited[p]].size - 1) :
        ~ Managed(mem[Cell(p, i - 1)])

(* The collector never drops an object of the space the mutators allocate   *)
(* in, whichever collection they race with.                                 *)
CurrentSpaceKept ==
  [][\A o \in DOMAIN m_metadata :
       o[1] = m_space_num => o \in DOMAIN m_metadata']_vars

(* Where the object that p refers to is now *)
Forwarded(p) == CASE p \in DOMAIN visited -> visited[p]
                  [] w.pc = "erase" /\ p = w.val -> w.new
                  [] OTHER -> p

Target(l) == Forwarded(mem[l])

(* What the program reads through the pointer variable l *)
Seen(l) ==
  LET p == Target(l)
  IN  CASE p = Null -> <<>>
        [] p \in DOMAIN m_metadata ->
             [i \in 1 .. m_metadata[p].size |-> mem[Cell(p, i - 1)]]
        [] OTHER -> <<Raw>>

(* Which pointer variables refer to one object *)
Sharing == {x \in Stack \X Stack :
              mem[x[1]] # Null /\ Target(x[1]) = Target(x[2])}

Contents == {[i \in 1 .. r.size |-> v] : r \in Requests, v \in Fresh}

Program == INSTANCE ManagedHeap WITH
  Pointers <- Stack,
  Nothing <- <<>>,
  content <- [l \in Stack |-> Seen(l)],
  same <- Sharing

(* The program cannot tell that there is a collector: objects keep their    *)
(* contents and their sharing while they move, and no step of a collection  *)
(* changes what a pointer shows.                                            *)
CollectionInvisible ==
  Program!Spec /\ [][Collection => UNCHANGED Program!vars]_vars

(* The cells behind the copy that the next access of seq_cst_cpy writes *)
Overrun == {w.new[1]} \X (w.new[2] + old_data.size .. w.new[2] + copied - 1)
Clobbered(l) ==
  /\ Target(l) \in DOMAIN m_metadata
  /\ Cells(Target(l), m_metadata[Target(l)].size) \cap Overrun # {}

(* Beside a concurrent collection the program does see something of it: the *)
(* last access of a copy can run into the object behind the copy.  That is  *)
(* all: mutators take the steps of the abstract heap, and the collection    *)
(* changes no sharing and no content, but for an object its copy overruns.  *)
OnlyOverrunShows ==
  /\ Program!Init
  /\ [][IF Collection
        THEN /\ Sharing' = Sharing
             /\ \A l \in Stack : \/ Seen(l)' = Seen(l)
                                 \/ CopyWord /\ Clobbered(l)
        ELSE Program!Next \/ UNCHANGED Program!vars]_vars

(* doc of seq_cst_cpy: it copies size bytes from src to dst.  An access of  *)
(* the copy changes no managed object but the copy it is filling.           *)
CopyTouchesOnlyCopy ==
  [][CopyWord =>
       \A o \in DOMAIN m_metadata \ {w.new} :
         \A l \in Cells(o, m_metadata[o].size) : mem'[l] = mem[l]]_vars

(* What a mutator writes through a pointer is what it reads there next: the *)
(* write reaches the object, not a copy that has been left behind.          *)
WritesKept ==
  [][\A t \in Threads, d \in Data :
       WriteData(t, d) => \E l \in Stack : Program!Write(l, d)]_vars

(* doc of forward_ptr: it forwards the pointer and all members.             *)
MembersForwarded ==
  w.pc = "swept" =>
    \A o \in DOMAIN m_metadata :
      \A l \in Cells(o, m_metadata[o].size) :
        mem[l] \in Address => mem[l] \in DOMAIN m_metadata

(* doc of scan_memory: its end is exclusive.  Every object that a member of *)
(* a moved object refers to, the last member too, outlives the collection.  *)
MembersSurvive ==
  w.pc = "swept" =>
    \A p \in DOMAIN visited :
      \A l \in Cells(p, m_metadata[visited[p]].size) :
        mem[l] \in Address => Forwarded(mem[l]) \in DOMAIN m_metadata

(* doc of alloc: it allocates a new object on the heap.  The object that a  *)
(* constructor is about to fill is one the collector knows.                 *)
AllocatedManaged ==
  \A t \in Threads : th[t].pc = "construct" => th[t].ptr \in DOMAIN m_metadata

(* Every collection ends, also one that is aborted. *)
CollectionEnds == (m_collect_result = "pending") ~> (m_collect_result = "ready")

(* Every call of a mutator returns or throws. *)
CallsReturn == \A t \in Threads : (th[t].pc # "idle") ~> (th[t].pc = "idle")
=============================================================================
