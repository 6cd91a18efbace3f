------------------------------ MODULE MemProt ------------------------------
(***************************************************************************)
(* mem_prot: the table of heaps that register_heap fills and that the      *)
(* handler of SIGSEGV searches, and the RegionProtection objects that take *)
(* the pages of a region away from the program and give them back.  A      *)
(* thread that writes to a page it may not write faults; it tries again    *)
(* when the handler returns.                                               *)
(*                                                                         *)
(* A step is one access to the table or to its count, or one system call.  *)
(***************************************************************************)
EXTENDS Integers

CONSTANTS
  Capacity,    \* size of g_heaps
  Behind,      \* pairs that may lie behind it
  PageSize,
  Heaps,       \* arguments of register_heap: <<start, end>>
  Registrars,  \* threads that call register_heap, as constructors of collectors
  MaxCalls,    \* bound on their calls
  Writers,     \* threads that write to memory
  Addresses,   \* where they write
  Objects,     \* variables of type RegionProtection, each constructed once
  Regions,     \* what they are constructed for: [start, end, mode]
  Asserts      \* FALSE when assert is compiled out

ASSUME TableAssumption ==
  /\ Capacity \in Nat \ {0} /\ PageSize \in Nat \ {0} /\ MaxCalls \in Nat
  /\ Heaps \subseteq (Nat \ {0}) \X (Nat \ {0})
  /\ Behind \subseteq (Nat \X Nat) \ Heaps /\ Behind # {}
  /\ Asserts \in BOOLEAN
ASSUME RegionAssumption ==
  \A r \in Regions : /\ r.start \in Nat \ {0} /\ r.end \in Nat
                     /\ r.start < r.end
                     /\ r.mode \in {"ReadOnly", "WriteOnly"}

VARIABLES
  g_heaps,       \* <<first, second>> of every entry, <<0, 0>> at first
  g_heap_count,
  installed,     \* segfault_handler is the handler of SIGSEGV
  call,          \* register_heap: [pc, heap, i, halves] of each registrar
  calls,         \* registrations begun
  th,            \* a writer: [pc, addr, count, i, known]
  prot,          \* protection of each page
  object,        \* RegionProtection: [life, region, locked]
  registered     \* history: heaps whose registration has returned

table == <<g_heaps, g_heap_count, installed, call, calls, registered>>
memory == <<prot, object>>
vars == <<table, th, memory>>

Pages == {a \div PageSize : a \in Addresses}
NoHeap == <<0, 0>>
NoRegion == [start |-> 0, end |-> 0, mode |-> "ReadWrite"]
Returned == [pc |-> "idle", heap |-> NoHeap, i |-> 0, halves |-> {}]
IdleWriter == [pc |-> "idle", addr |-> 0, count |-> 0, i |-> 0, known |-> FALSE]

Init ==
  /\ g_heaps = [i \in 0 .. (Capacity - 1) |-> NoHeap]
  /\ g_heap_count = 0 /\ installed = FALSE
  /\ call = [t \in Registrars |-> Returned] /\ calls = 0
  /\ th = [t \in Writers |-> IdleWriter]
  /\ prot = [p \in Pages |-> "ReadWrite"]
  /\ object = [o \in Objects |->
                 [life |-> "none", region |-> NoRegion, locked |-> FALSE]]
  /\ registered = {}

Killed == \E t \in Writers : th[t].pc = "killed"

-----------------------------------------------------------------------------
(* register_heap *)

(* The memory of a heap belongs to one collector at a time; a later one may *)
(* be given the same again.                                                 *)
Register(t, h) ==
  /\ call[t].pc = "idle" /\ calls < MaxCalls
  /\ \A u \in Registrars : call[u].heap # h
  /\ calls' = calls + 1
  /\ call' = [call EXCEPT ![t] = [Returned EXCEPT !.pc = "search", !.heap = h]]
  /\ UNCHANGED <<g_heaps, g_heap_count, installed, registered, th, memory>>

(* What is read as entry i: the count may go beyond the table. *)
Entries(i) == IF i < Capacity THEN {g_heaps[i]} ELSE Behind

(* The loop that looks for the heap reads the count and one entry a time.   *)
Search(t) ==
  /\ call[t].pc = "search"
  /\ IF call[t].i < g_heap_count
     THEN \E e \in Entries(call[t].i) :
            IF e = call[t].heap
            THEN /\ call' = [call EXCEPT ![t] = Returned]
                 /\ registered' = registered \cup {e}
            ELSE /\ call' = [call EXCEPT ![t].i = @ + 1]
                 /\ UNCHANGED registered
     ELSE /\ call' = [call EXCEPT ![t].pc = "claim"]
          /\ UNCHANGED registered
  /\ UNCHANGED <<g_heaps, g_heap_count, installed, calls, th, memory>>

(* g_heap_count++ *)
Claim(t) ==
  /\ call[t].pc = "claim"
  /\ g_heap_count' = g_heap_count + 1
  /\ call' = [call EXCEPT ![t].pc = "write", ![t].i = g_heap_count,
                          ![t].halves = {1, 2}]
  /\ UNCHANGED <<g_heaps, installed, calls, registered, th, memory>>

(* Mutant: a full table is used again from its first entry. *)
WriteWrapped(t, k) ==
  /\ call[t].pc = "write" /\ k \in call[t].halves
  /\ g_heaps' = [g_heaps EXCEPT ![call[t].i % Capacity][k] = call[t].heap[k]]
  /\ call' = [call EXCEPT ![t].halves = @ \ {k}]
  /\ UNCHANGED <<g_heap_count, installed, calls, registered, th, memory>>

(* g_heaps.at(idx) = ..., the halves of the pair in some order; a full      *)
(* table throws.                                                            *)
Write(t, k) ==
  /\ call[t].pc = "write" /\ k \in call[t].halves
  /\ IF call[t].i < Capacity
     THEN /\ g_heaps' = [g_heaps EXCEPT ![call[t].i][k] = call[t].heap[k]]
          /\ call' = [call EXCEPT ![t].halves = @ \ {k}]
     ELSE /\ call' = [call EXCEPT ![t] = Returned]
          /\ UNCHANGED g_heaps
  /\ UNCHANGED <<g_heap_count, installed, calls, registered, th, memory>>

(* sigaction is called inside an assert. *)
Install(t) ==
  /\ call[t].pc = "write" /\ call[t].halves = {}
  /\ installed' = (installed \/ Asserts)
  /\ registered' = registered \cup {call[t].heap}
  /\ call' = [call EXCEPT ![t] = Returned]
  /\ UNCHANGED <<g_heaps, g_heap_count, calls, th, memory>>

-----------------------------------------------------------------------------
(* Writers and segfault_handler *)

Within(h, a) == a >= h[1] /\ a < h[2]
Known(a) == \E h \in registered : Within(h, a)

(* A write succeeds, or it faults and the handler, if there is one, begins. *)
WriteTo(t, a) ==
  /\ th[t].pc = "again" => th[t].addr = a
  /\ th[t].pc \in {"idle", "again"}
  /\ th' = [th EXCEPT ![t] =
              IF prot[a \div PageSize] # "ReadOnly" THEN IdleWriter
              ELSE [pc |-> IF installed THEN "count" ELSE "killed", addr |-> a,
                    count |-> 0, i |-> 0, known |-> Known(a)]]
  /\ UNCHANGED <<table, memory>>

LoadCount(t) ==
  /\ th[t].pc = "count"
  /\ th' = [th EXCEPT ![t].pc = "search", ![t].count = g_heap_count]
  /\ UNCHANGED <<table, memory>>

(* Returning from the handler runs the faulting write again. *)
Handle(t) ==
  /\ th[t].pc = "search"
  /\ IF th[t].i < th[t].count
     THEN \E e \in Entries(th[t].i) :
            th' = IF Within(e, th[t].addr) THEN [th EXCEPT ![t].pc = "again"]
                  ELSE [th EXCEPT ![t].i = @ + 1]
     ELSE th' = [th EXCEPT ![t].pc = "killed"]
  /\ UNCHANGED <<table, memory>>

-----------------------------------------------------------------------------
(* RegionProtection *)

page_aligned_floor(a) == (a \div PageSize) * PageSize
page_size_ceil(n) == ((n + PageSize - 1) \div PageSize) * PageSize

(* mprotect works on whole pages, from the page m_region_start points to.   *)
Covered(r) ==
  LET start == page_aligned_floor(r.start)
      size == page_size_ceil(r.end - start)
  IN  {p \in Pages : start <= p * PageSize /\ p * PageSize < start + size}

mprotect(r, mode) == [p \in Pages |-> IF p \in Covered(r) THEN mode ELSE prot[p]]

(* The constructor, through region_readonly and region_writeonly *)
Protect(o, r) ==
  /\ object[o].life = "none" /\ \A x \in Objects : object[x].region # r
  /\ object' = [object EXCEPT ![o] =
                  [life |-> "live", region |-> r, locked |-> TRUE]]
  /\ prot' = mprotect(r, r.mode)
  /\ UNCHANGED <<table, th>>

Live(o) == object[o].life = "live" /\ object[o].region # NoRegion

lock(o) ==
  /\ Live(o) /\ ~ object[o].locked
  /\ object' = [object EXCEPT ![o].locked = TRUE]
  /\ prot' = mprotect(object[o].region, object[o].region.mode)
  /\ UNCHANGED <<table, th>>

(* What unlock does, also as the destructor *)
Given(o) == IF Live(o) /\ object[o].locked
            THEN mprotect(object[o].region, "ReadWrite") ELSE prot

unlock(o) ==
  /\ Live(o) /\ object[o].locked
  /\ object' = [object EXCEPT ![o].locked = FALSE]
  /\ prot' = Given(o)
  /\ UNCHANGED <<table, th>>

Destroy(o) ==
  /\ object[o].life = "live"
  /\ prot' = Given(o)
  /\ object' = [object EXCEPT ![o] = [@ EXCEPT !.life = "gone", !.locked = FALSE]]
  /\ UNCHANGED <<table, th>>

Empty == [life |-> "live", region |-> NoRegion, locked |-> FALSE]

(* Mutant: the new object does not take over the lock. *)
MoveUnlocked(x, o) ==
  /\ object[o].life = "none" /\ object[x].life = "live"
  /\ object' = [object EXCEPT ![o] = [object[x] EXCEPT !.locked = FALSE],
                              ![x] = Empty]
  /\ UNCHANGED <<table, th, prot>>

(* Mutant: the old object keeps its region. *)
MoveShared(x, o) ==
  /\ object[o].life = "none" /\ object[x].life = "live"
  /\ object' = [object EXCEPT ![o] = object[x]]
  /\ UNCHANGED <<table, th, prot>>

(* The move constructor *)
Move(x, o) ==
  /\ object[o].life = "none" /\ object[x].life = "live"
  /\ object' = [object EXCEPT ![o] = object[x], ![x] = Empty]
  /\ UNCHANGED <<table, th, prot>>

-----------------------------------------------------------------------------
Registrar(t) ==
  \/ \E h \in Heaps : Register(t, h)
  \/ Search(t) \/ Claim(t) \/ (\E k \in {1, 2} : Write(t, k)) \/ Install(t)

(* A write that has begun *)
Writing(t) ==
  \/ th[t].pc = "again" /\ WriteTo(t, th[t].addr)
  \/ LoadCount(t) \/ Handle(t)

Protection(o) ==
  \/ \E r \in Regions : Protect(o, r)
  \/ lock(o) \/ unlock(o) \/ Destroy(o)
  \/ \E x \in Objects : Move(x, o)

Next ==
  /\ ~ Killed
  /\ \/ \E t \in Registrars : Registrar(t)
     \/ \E t \in Writers : Writing(t) \/ \E a \in Addresses : WriteTo(t, a)
     \/ \E o \in Objects : Protection(o)

(* Threads run, and a protection is destroyed at the end of its scope.      *)
Fairness ==
  /\ \A t \in Writers : WF_vars(~ Killed /\ Writing(t))
  /\ \A o \in Objects : WF_vars(~ Killed /\ Destroy(o))

Spec == Init /\ [][Next]_vars
FairSpec == Spec /\ Fairness

-----------------------------------------------------------------------------
(* segfault_handler aborts the program only for a fault outside every heap  *)
(* registered when it happened, whoever registers others meanwhile, and     *)
(* when the table has overflowed too.                                       *)
HandlerKnows ==
  Asserts => \A t \in Writers : th[t].pc = "killed" => ~ th[t].known

(* A page is read-only or write-only only while some object that is locked  *)
(* covers it: whatever is moved, and however regions overlap, protection    *)
(* does not outlive its owners.                                             *)
PagesReleased ==
  \A p \in Pages : prot[p] # "ReadWrite" =>
    \E o \in Objects : Live(o) /\ object[o].locked
                       /\ p \in Covered(object[o].region)

(* doc of RegionProtection: all pages that overlap with the region are      *)
(* protected, as long as no other region shares a page with it.             *)
OwnPagesProtected ==
  \A o \in Objects : Live(o) /\ object[o].locked =>
    \A p \in Pages :
      /\ \E a \in object[o].region.start .. (object[o].region.end - 1) :
           a \div PageSize = p
      /\ \A r \in Regions \ {object[o].region} : p \notin Covered(r)
      => prot[p] = object[o].region.mode

(* doc of region_readonly: the object locks all pages that contain the      *)
(* region, the ones that another region shares included.                    *)
SharedPagesProtected ==
  \A o \in Objects : Live(o) /\ object[o].locked =>
    \A p \in Covered(object[o].region) : prot[p] # "ReadWrite"

(* A write to a page that is protected for a while goes through in the end. *)
WriterProceeds ==
  \A t \in Writers : (th[t].pc # "idle") ~> (th[t].pc = "idle" \/ Killed)
=============================================================================
