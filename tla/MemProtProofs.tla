--------------------------- MODULE MemProtProofs ---------------------------
(***************************************************************************)
(* Proofs about mem_prot for a table of any size, any heaps, threads, page *)
(* size, regions and objects.                                              *)
(***************************************************************************)
EXTENDS MemProt, TLAPS

Table == 0 .. (Capacity - 1)
CallType == [pc : {"idle", "search", "claim", "write"},
             heap : Heaps \cup {NoHeap}, i : Nat, halves : SUBSET {1, 2}]
WriterType == [pc : {"idle", "again", "count", "search", "killed"},
               addr : Addresses \cup {0}, count : Nat, i : Nat,
               known : BOOLEAN]

TypeInv ==
  /\ g_heaps \in [Table -> Nat \X Nat]
  /\ g_heap_count \in Nat
  /\ installed \in BOOLEAN
  /\ call \in [Registrars -> CallType]
  /\ th \in [Writers -> WriterType]
  /\ registered \subseteq Heaps

(* A call has a heap, and no two have the same.                             *)
HeapInv ==
  /\ \A t \in Registrars : (call[t].pc = "idle") <=> (call[t].heap = NoHeap)
  /\ \A t, u \in Registrars :
       t # u /\ call[t].pc # "idle" => call[t].heap # call[u].heap

(* Whoever writes an entry has it to himself; what is not written yet is    *)
(* zero, also where nobody has begun.                                       *)
SlotInv ==
  /\ \A t \in Registrars : call[t].pc = "write" =>
       /\ call[t].i < g_heap_count
       /\ call[t].i >= Capacity => call[t].halves = {1, 2}
       /\ \A k \in {1, 2} : call[t].i < Capacity =>
            g_heaps[call[t].i][k] =
              IF k \in call[t].halves THEN 0 ELSE call[t].heap[k]
  /\ \A t, u \in Registrars :
       t # u /\ call[t].pc = "write" /\ call[u].pc = "write"
         => call[t].i # call[u].i
  /\ \A j \in Table : j >= g_heap_count => g_heaps[j] = NoHeap

(* A heap in the table has been registered by a call that has installed the *)
(* handler, or is about to.                                                 *)
EntryInv ==
  \A j \in Table : g_heaps[j] \in Heaps =>
    \/ Asserts => installed
    \/ \E u \in Registrars : /\ call[u].pc = "write" /\ call[u].i = j
                             /\ call[u].heap = g_heaps[j]

(* A registered heap is in the table, below the count.                      *)
RegInv ==
  /\ \A h \in registered : \E j \in Table : j < g_heap_count /\ g_heaps[j] = h
  /\ Asserts /\ registered # {} => installed

(* The handler has not gone past the entry of a heap known at the fault.    *)
HandlerInv ==
  \A t \in Writers : th[t].known =>
    /\ th[t].pc = "count" =>
         th[t].i = 0 /\ \E h \in registered : Within(h, th[t].addr)
    /\ th[t].pc = "search" =>
         \E j \in Table : /\ th[t].i <= j /\ j < th[t].count
                          /\ g_heaps[j] \in registered
                          /\ Within(g_heaps[j], th[t].addr)
    /\ th[t].pc = "killed" => ~ Asserts

IInv == TypeInv /\ HeapInv /\ SlotInv /\ EntryInv /\ RegInv /\ HandlerInv

-----------------------------------------------------------------------------
(* No heap begins or ends at zero.                                          *)
LEMMA Nonzero ==
  ASSUME NEW h \in Heaps
  PROVE  /\ h \in Nat \X Nat /\ h[1] # 0 /\ h[2] # 0
         /\ h # NoHeap /\ h \notin Behind
  BY TableAssumption DEF NoHeap

(* The first state satisfies the invariant.                                 *)
LEMMA InitInv == Init => IInv
<1> SUFFICES ASSUME Init PROVE IInv
  OBVIOUS
<1>1. NoHeap \notin Heaps
  BY Nonzero
<1>2. TypeInv
  BY TableAssumption
     DEF Init, TypeInv, Table, CallType, WriterType, Returned, IdleWriter, NoHeap
<1>3. HeapInv
  BY DEF Init, HeapInv, Returned
<1>4. SlotInv
  BY DEF Init, SlotInv, Returned, Table
<1>5. EntryInv /\ RegInv /\ HandlerInv
  BY <1>1 DEF Init, EntryInv, RegInv, HandlerInv, IdleWriter, Table
<1>q. QED
  BY <1>2, <1>3, <1>4, <1>5 DEF IInv

(* An entry that holds a heap is not written any more.                      *)
LEMMA EntryStays ==
  ASSUME IInv, NEW t \in Registrars, NEW k \in {1, 2}, Write(t, k),
         NEW j \in Table, g_heaps[j] \in Heaps
  PROVE  g_heaps'[j] = g_heaps[j]
<1>1. g_heaps \in [Table -> Nat \X Nat] /\ call[t].i \in Nat
  BY DEF IInv, TypeInv, CallType
<1>2. g_heaps[j][k] # 0
  BY Nonzero
<1>3. call[t].i < Capacity => call[t].i # j
  BY <1>2 DEF Write, IInv, SlotInv
<1>q. QED
  BY <1>1, <1>3 DEF Write

(* So a heap that is in the table stays there.                              *)
LEMMA TableGrows ==
  ASSUME IInv, [Next]_vars, NEW j \in Table, g_heaps[j] \in Heaps
  PROVE  g_heaps'[j] = g_heaps[j]
<1>1. ASSUME NEW t \in Registrars, NEW k \in {1, 2}, Write(t, k)
      PROVE  g_heaps'[j] = g_heaps[j]
  BY <1>1, EntryStays
<1>2. CASE UNCHANGED g_heaps
  BY <1>2
<1>q. QED
  BY <1>1, <1>2
     DEF Next, Registrar, Writing, Protection, Register, Search, Claim,
         Install, WriteTo, LoadCount, Handle, Protect, lock, unlock, Destroy,
         Move, vars, table, memory

(* register_heap keeps the table and its calls in their sets.               *)
LEMMA TypeStep ==
  ASSUME IInv, NEW t \in Registrars, Registrar(t)
  PROVE  TypeInv'
<1>1. ASSUME NEW h \in Heaps, Register(t, h) PROVE TypeInv'
  <2>1. call' \in [Registrars -> CallType]
    BY <1>1 DEF Register, Returned, IInv, TypeInv, CallType
  <2>q. QED
    BY <1>1, <2>1 DEF Register, IInv, TypeInv, memory
<1>2. CASE Search(t)
  <2>1. Returned \in CallType
    BY DEF Returned, CallType
  <2>2. call' \in [Registrars -> CallType]
    BY <1>2, <2>1 DEF Search, IInv, TypeInv, CallType
  <2>3. registered' \subseteq Heaps
    <3>1. call[t].heap \in Heaps
      BY <1>2 DEF Search, IInv, TypeInv, CallType, HeapInv
    <3>q. QED
      BY <1>2, <3>1 DEF Search, IInv, TypeInv
  <2>q. QED
    BY <1>2, <2>2, <2>3 DEF Search, IInv, TypeInv, memory
<1>3. CASE Claim(t)
  <2>1. /\ g_heap_count \in Nat /\ call[t] \in CallType
        /\ call \in [Registrars -> CallType]
    BY DEF IInv, TypeInv
  <2>2. [call[t] EXCEPT !.pc = "write", !.i = g_heap_count,
                        !.halves = {1, 2}] \in CallType
    BY <2>1 DEF CallType
  <2>3. call' = [call EXCEPT ![t] = [call[t] EXCEPT !.pc = "write",
                                !.i = g_heap_count, !.halves = {1, 2}]]
    BY <1>3, <2>1 DEF Claim
  <2>4. call' \in [Registrars -> CallType]
    BY <2>1, <2>2, <2>3
  <2>q. QED
    BY <1>3, <2>4 DEF Claim, IInv, TypeInv, memory
<1>4. ASSUME NEW k \in {1, 2}, Write(t, k) PROVE TypeInv'
  <2>1. Returned \in CallType
    BY DEF Returned, CallType
  <2>2. call' \in [Registrars -> CallType]
    BY <1>4, <2>1 DEF Write, IInv, TypeInv, CallType
  <2>3. call[t].heap \in Nat \X Nat
    BY Nonzero DEF IInv, TypeInv, CallType, NoHeap
  <2>4. g_heaps' \in [Table -> Nat \X Nat]
    <3>1. ASSUME NEW e \in Nat \X Nat, NEW n \in Nat
          PROVE  [e EXCEPT ![k] = n] \in Nat \X Nat
      OBVIOUS
    <3>q. QED
      BY <1>4, <2>3, <3>1 DEF Write, IInv, TypeInv
  <2>q. QED
    BY <1>4, <2>2, <2>4 DEF Write, IInv, TypeInv, memory
<1>5. CASE Install(t)
  <2>1. Returned \in CallType
    BY DEF Returned, CallType
  <2>2. call[t].heap \in Heaps
    BY <1>5 DEF Install, IInv, TypeInv, CallType, HeapInv
  <2>3. installed' \in BOOLEAN
    BY <1>5, TableAssumption, Zenon DEF Install, IInv, TypeInv
  <2>4. call' \in [Registrars -> CallType] /\ registered' \subseteq Heaps
    BY <1>5, <2>1, <2>2 DEF Install, IInv, TypeInv
  <2>q. QED
    BY <1>5, <2>3, <2>4 DEF Install, IInv, TypeInv, memory
<1>q. QED
  BY <1>1, <1>2, <1>3, <1>4, <1>5 DEF Registrar

(* A call keeps its heap to itself until it returns.                        *)
LEMMA HeapStep ==
  ASSUME IInv, NEW t \in Registrars, Registrar(t)
  PROVE  HeapInv'
<1>1. ASSUME NEW h \in Heaps, Register(t, h) PROVE HeapInv'
  <2>1. h # NoHeap
    BY Nonzero
  <2>q. QED
    BY <1>1, <2>1 DEF Register, Returned, IInv, TypeInv, CallType, HeapInv
<1>2. CASE Search(t)
  BY <1>2 DEF Search, Returned, IInv, TypeInv, CallType, HeapInv
<1>3. CASE Claim(t)
  BY <1>3 DEF Claim, Returned, IInv, TypeInv, CallType, HeapInv
<1>4. ASSUME NEW k \in {1, 2}, Write(t, k) PROVE HeapInv'
  BY <1>4 DEF Write, Returned, IInv, TypeInv, CallType, HeapInv
<1>5. CASE Install(t)
  BY <1>5 DEF Install, Returned, IInv, TypeInv, CallType, HeapInv
<1>q. QED
  BY <1>1, <1>2, <1>3, <1>4, <1>5 DEF Registrar

(* Nobody else writes where a call writes.                                  *)
LEMMA SlotStep ==
  ASSUME IInv, NEW t \in Registrars, Registrar(t)
  PROVE  SlotInv'
<1>1. ASSUME NEW h \in Heaps, Register(t, h) PROVE SlotInv'
  BY <1>1 DEF Register, Returned, IInv, TypeInv, CallType, SlotInv
<1>2. CASE Search(t)
  BY <1>2 DEF Search, Returned, IInv, TypeInv, CallType, SlotInv
<1>3. CASE Claim(t)
  <2>1. g_heap_count \in Nat /\ g_heap_count' = g_heap_count + 1
        /\ g_heaps' = g_heaps
    BY <1>3 DEF Claim, IInv, TypeInv
  <2>2. /\ call'[t].pc = "write" /\ call'[t].i = g_heap_count
        /\ call'[t].halves = {1, 2}
        /\ \A u \in Registrars \ {t} : call'[u] = call[u]
    BY <1>3 DEF Claim, IInv, TypeInv, CallType
  <2>3. \A u \in Registrars : call[u].i \in Nat
    BY DEF IInv, TypeInv, CallType
  <2>4. g_heap_count < Capacity => g_heaps[g_heap_count] = NoHeap
    BY <2>1, TableAssumption DEF IInv, SlotInv, Table
  <2>5. \A k \in {1, 2} : NoHeap[k] = 0
    BY DEF NoHeap
  <2>6. \A j \in Table : j >= g_heap_count + 1 => g_heaps[j] = NoHeap
    BY <2>1, TableAssumption DEF IInv, SlotInv, Table
  <2>7. \A u \in Registrars \ {t} : call[u].pc = "write" =>
          call[u].i < g_heap_count + 1 /\ call[u].i # g_heap_count
    BY <2>1, <2>3 DEF IInv, SlotInv
  <2>q. QED
    BY <2>1, <2>2, <2>4, <2>5, <2>6, <2>7 DEF IInv, SlotInv
<1>4. ASSUME NEW k \in {1, 2}, Write(t, k) PROVE SlotInv'
  <2>1. /\ g_heaps \in [Table -> Nat \X Nat] /\ g_heap_count' = g_heap_count
        /\ g_heap_count \in Nat /\ call[t].pc = "write" /\ k \in call[t].halves
        /\ \A u \in Registrars : call[u] \in CallType
        /\ \A u \in Registrars \ {t} : call'[u] = call[u]
    BY <1>4 DEF Write, IInv, TypeInv
  <2>2. CASE call[t].i < Capacity
    <3>1. /\ call'[t] = [call[t] EXCEPT !.halves = call[t].halves \ {k}]
          /\ g_heaps' = [g_heaps EXCEPT ![call[t].i][k] = call[t].heap[k]]
      BY <1>4, <2>2 DEF Write, IInv, TypeInv
    <3>2. /\ call'[t].pc = "write" /\ call'[t].i = call[t].i
          /\ call'[t].heap = call[t].heap
          /\ call'[t].halves = call[t].halves \ {k}
      BY <2>1, <3>1 DEF CallType
    <3>3. \A j \in Table : j # call[t].i => g_heaps'[j] = g_heaps[j]
      BY <2>1, <3>1
    <3>4. call[t].i \in Table /\ call[t].i < g_heap_count
      BY <2>1, <2>2, TableAssumption DEF Table, IInv, SlotInv, CallType
    <3>5. g_heaps'[call[t].i] = [g_heaps[call[t].i] EXCEPT ![k] = call[t].heap[k]]
      BY <2>1, <3>1, <3>4
    <3>6. \A l \in {1, 2} : g_heaps'[call[t].i][l] =
            IF l \in call'[t].halves THEN 0 ELSE call'[t].heap[l]
      <4>1. g_heaps[call[t].i] \in Nat \X Nat
        BY <2>1, <3>4
      <4>2. \A l \in {1, 2} : g_heaps'[call[t].i][l] =
              IF l = k THEN call[t].heap[k] ELSE g_heaps[call[t].i][l]
        BY <3>5, <4>1
      <4>3. \A l \in {1, 2} : g_heaps[call[t].i][l] =
              IF l \in call[t].halves THEN 0 ELSE call[t].heap[l]
        BY <2>1, <2>2 DEF IInv, SlotInv
      <4>q. QED
        BY <3>2, <4>2, <4>3
    <3>7. ASSUME NEW u \in Registrars, u # t, call[u].pc = "write",
                 call[u].i < Capacity
          PROVE  call[u].i \in Table /\ call[u].i # call[t].i
      BY <2>1, <3>7, TableAssumption DEF IInv, SlotInv, Table, CallType
    <3>8. \A j \in Table : j >= g_heap_count => g_heaps'[j] = NoHeap
      <4>1. ASSUME NEW j \in Table, j >= g_heap_count PROVE g_heaps[j] = NoHeap
        BY <4>1 DEF IInv, SlotInv
      <4>2. ASSUME NEW j \in Table, j >= g_heap_count PROVE j # call[t].i
        BY <2>1, <3>4, <4>2, TableAssumption DEF Table
      <4>q. QED
        BY <3>3, <4>1, <4>2
    <3>9. \A u \in Registrars : call'[u].pc = "write" =>
            /\ call'[u].i < g_heap_count'
            /\ call'[u].i >= Capacity => call'[u].halves = {1, 2}
            /\ \A l \in {1, 2} : call'[u].i < Capacity =>
                 g_heaps'[call'[u].i][l] =
                   IF l \in call'[u].halves THEN 0 ELSE call'[u].heap[l]
      <4>1. ASSUME NEW u \in Registrars, u # t, call[u].pc = "write"
            PROVE  /\ call[u].i < g_heap_count
                   /\ call[u].i >= Capacity => call[u].halves = {1, 2}
                   /\ \A l \in {1, 2} : call[u].i < Capacity =>
                        g_heaps'[call[u].i][l] =
                          IF l \in call[u].halves THEN 0 ELSE call[u].heap[l]
        BY <3>3, <3>7, <4>1 DEF IInv, SlotInv
      <4>2. ~ (call[t].i >= Capacity)
        BY <2>2, <3>4, TableAssumption DEF Table
      <4>q. QED
        BY <2>1, <3>2, <3>4, <3>6, <4>1, <4>2
    <3>q. QED
      BY <2>1, <3>2, <3>8, <3>9 DEF IInv, SlotInv
  <2>3. CASE ~ (call[t].i < Capacity)
    BY <1>4, <2>1, <2>3 DEF Write, Returned, IInv, TypeInv, SlotInv
  <2>q. QED
    BY <2>2, <2>3
<1>5. CASE Install(t)
  BY <1>5 DEF Install, Returned, IInv, TypeInv, CallType, SlotInv
<1>q. QED
  BY <1>1, <1>2, <1>3, <1>4, <1>5 DEF Registrar

(* Every heap in the table has an author.                                   *)
LEMMA EntryStep ==
  ASSUME IInv, NEW t \in Registrars, Registrar(t)
  PROVE  EntryInv'
<1>1. ASSUME NEW h \in Heaps, Register(t, h) PROVE EntryInv'
  BY <1>1 DEF Register, Returned, IInv, TypeInv, CallType, EntryInv
<1>2. CASE Search(t)
  BY <1>2 DEF Search, Returned, IInv, TypeInv, CallType, EntryInv
<1>3. CASE Claim(t)
  BY <1>3 DEF Claim, IInv, TypeInv, CallType, EntryInv
<1>4. ASSUME NEW k \in {1, 2}, Write(t, k) PROVE EntryInv'
  <2>1. SlotInv' /\ TypeInv'
    BY SlotStep, TypeStep
  <2>2. /\ UNCHANGED installed
        /\ \A u \in Registrars \ {t} : call'[u] = call[u]
        /\ \A j \in Table : j # call[t].i => g_heaps'[j] = g_heaps[j]
    BY <1>4 DEF Write, IInv, TypeInv
  <2>3. ASSUME NEW j \in Table, g_heaps'[j] \in Heaps, j = call[t].i
        PROVE  /\ call'[t].pc = "write" /\ call'[t].i = j
               /\ call'[t].heap = g_heaps'[j]
    <3>1. call[t].i < Capacity
      BY <2>3, TableAssumption DEF Table
    <3>2. call' = [call EXCEPT ![t].halves = call[t].halves \ {k}]
      BY <1>4, <3>1 DEF Write
    <3>3. call'[t].pc = "write" /\ call'[t].i = j
      BY <1>4, <2>3, <3>2 DEF Write, IInv, TypeInv, CallType
    <3>4. g_heaps'[j][1] # 0 /\ g_heaps'[j][2] # 0
      BY <2>3, Nonzero
    <3>5. \A l \in {1, 2} : g_heaps'[j][l] = call'[t].heap[l]
      BY <2>1, <2>3, <3>1, <3>3, <3>4 DEF SlotInv
    <3>6. call'[t].heap \in Nat \X Nat /\ g_heaps'[j] \in Nat \X Nat
      BY <2>1, Nonzero DEF TypeInv, CallType, NoHeap
    <3>q. QED
      BY <3>3, <3>5, <3>6
  <2>4. ASSUME NEW j \in Table, g_heaps'[j] \in Heaps, j # call[t].i,
               ~ (Asserts => installed)
        PROVE  \E u \in Registrars : /\ call'[u].pc = "write" /\ call'[u].i = j
                                     /\ call'[u].heap = g_heaps'[j]
    BY <2>2, <2>4 DEF IInv, EntryInv
  <2>q. QED
    BY <2>2, <2>3, <2>4 DEF EntryInv
<1>5. CASE Install(t)
  <2>1. Asserts => installed'
    BY <1>5, Zenon DEF Install
  <2>q. QED
    BY <2>1 DEF EntryInv
<1>q. QED
  BY <1>1, <1>2, <1>3, <1>4, <1>5 DEF Registrar

(* A call returns with its heap in the table and the handler installed.     *)
LEMMA RegStep ==
  ASSUME IInv, NEW t \in Registrars, Registrar(t)
  PROVE  RegInv'
<1>1. ASSUME NEW h \in Heaps, Register(t, h) PROVE RegInv'
  BY <1>1 DEF Register, IInv, RegInv
<1>2. CASE Search(t)
  <2>1. /\ UNCHANGED <<g_heaps, g_heap_count, installed>>
        /\ call[t].pc = "search" /\ call[t].i \in Nat
        /\ call[t].heap \in Heaps
    BY <1>2 DEF Search, IInv, TypeInv, CallType, HeapInv
  <2>2. CASE registered' = registered
    BY <2>1, <2>2 DEF IInv, RegInv
  <2>3. CASE registered' # registered
    <3>1. /\ call[t].i < g_heap_count /\ call[t].heap \in Entries(call[t].i)
          /\ registered' = registered \cup {call[t].heap}
      BY <1>2, <2>3 DEF Search
    <3>2. call[t].heap \notin Behind
      BY <2>1, Nonzero
    <3>3. call[t].i \in Table /\ g_heaps[call[t].i] = call[t].heap
      BY <2>1, <3>1, <3>2, TableAssumption DEF Entries, Table
    <3>4. Asserts => installed
      BY <2>1, <3>3 DEF IInv, EntryInv, HeapInv
    <3>q. QED
      BY <2>1, <3>1, <3>3, <3>4 DEF IInv, RegInv
  <2>q. QED
    BY <2>2, <2>3
<1>3. CASE Claim(t)
  BY <1>3, TableAssumption DEF Claim, IInv, TypeInv, RegInv, Table
<1>4. ASSUME NEW k \in {1, 2}, Write(t, k) PROVE RegInv'
  <2>1. UNCHANGED <<g_heap_count, installed, registered>>
    BY <1>4 DEF Write
  <2>2. \A j \in Table : g_heaps[j] \in registered => g_heaps'[j] = g_heaps[j]
    BY <1>4, EntryStays DEF IInv, TypeInv
  <2>q. QED
    BY <2>1, <2>2 DEF IInv, RegInv
<1>5. CASE Install(t)
  <2>1. /\ call[t].pc = "write" /\ call[t].halves = {} /\ call[t].i \in Nat
        /\ call[t].heap \in Heaps
        /\ registered' = registered \cup {call[t].heap}
        /\ UNCHANGED <<g_heaps, g_heap_count>>
    BY <1>5 DEF Install, IInv, TypeInv, CallType, HeapInv
  <2>2. call[t].i < Capacity /\ call[t].i < g_heap_count
    BY <2>1, TableAssumption DEF IInv, SlotInv
  <2>3. call[t].i \in Table
    BY <2>1, <2>2, TableAssumption DEF Table
  <2>4. g_heaps[call[t].i] = call[t].heap
    <3>1. \A k \in {1, 2} : g_heaps[call[t].i][k] = call[t].heap[k]
      BY <2>1, <2>2 DEF IInv, SlotInv
    <3>2. g_heaps[call[t].i] \in Nat \X Nat /\ call[t].heap \in Nat \X Nat
      BY <2>1, <2>3, Nonzero DEF IInv, TypeInv
    <3>q. QED
      BY <3>1, <3>2
  <2>5. Asserts => installed'
    BY <1>5, Zenon DEF Install
  <2>q. QED
    BY <2>1, <2>2, <2>3, <2>4, <2>5 DEF IInv, RegInv
<1>q. QED
  BY <1>1, <1>2, <1>3, <1>4, <1>5 DEF Registrar

(* Steps of writers.                                                        *)
LEMMA WriterStep ==
  ASSUME IInv, NEW t \in Writers,
         Writing(t) \/ \E a \in Addresses : WriteTo(t, a)
  PROVE  TypeInv' /\ HandlerInv'
<1>1. UNCHANGED table /\ th \in [Writers -> WriterType]
  BY DEF Writing, WriteTo, LoadCount, Handle, IInv, TypeInv
<1> DEFINE Kept ==
      /\ th' \in [Writers -> WriterType]
      /\ \A u \in Writers \ {t} : th'[u] = th[u]
      /\ th'[t].known =>
           /\ th'[t].pc = "count" =>
                /\ th'[t].i = 0
                /\ \E h \in registered : Within(h, th'[t].addr)
           /\ th'[t].pc = "search" =>
                \E j \in Table : /\ th'[t].i <= j /\ j < th'[t].count
                                 /\ g_heaps[j] \in registered
                                 /\ Within(g_heaps[j], th'[t].addr)
           /\ th'[t].pc = "killed" => ~ Asserts
<1>2. Kept
  <2>1. ASSUME NEW a \in Addresses \cup {0}, WriteTo(t, a) PROVE Kept
    <3>1. Known(a) \in BOOLEAN
      BY DEF Known
    <3>2. CASE prot[a \div PageSize] # "ReadOnly"
      BY <1>1, <2>1, <3>2 DEF WriteTo, IdleWriter, WriterType
    <3>3. CASE prot[a \div PageSize] = "ReadOnly"
      <4>1. th' = [th EXCEPT ![t] =
                     [pc |-> IF installed THEN "count" ELSE "killed",
                      addr |-> a, count |-> 0, i |-> 0, known |-> Known(a)]]
        BY <2>1, <3>3 DEF WriteTo
      <4>2. ~ installed /\ Known(a) => ~ Asserts
        BY DEF Known, IInv, RegInv
      <4>q. QED
        BY <1>1, <3>1, <4>1, <4>2 DEF WriterType, Known
    <3>q. QED
      BY <3>2, <3>3
  <2>2. CASE LoadCount(t)
    <3>1. g_heap_count \in Nat /\ th[t] \in WriterType
      BY <1>1 DEF IInv, TypeInv
    <3>2. th' = [th EXCEPT ![t] = [th[t] EXCEPT !.pc = "search",
                                                !.count = g_heap_count]]
      BY <2>2 DEF LoadCount
    <3>3. /\ th'[t].pc = "search" /\ th'[t].count = g_heap_count
          /\ th'[t].i = th[t].i /\ th'[t].addr = th[t].addr
          /\ th'[t].known = th[t].known
      BY <1>1, <3>1, <3>2 DEF WriterType
    <3>4. th' \in [Writers -> WriterType]
      BY <1>1, <3>1, <3>2 DEF WriterType
    <3>5. th[t].known => th[t].i = 0
      BY <2>2 DEF LoadCount, IInv, HandlerInv
    <3>6. th[t].known => \E h \in registered : Within(h, th[t].addr)
      BY <2>2 DEF LoadCount, IInv, HandlerInv
    <3>7. th[t].known =>
            \E j \in Table : /\ 0 <= j /\ j < g_heap_count
                             /\ g_heaps[j] \in registered
                             /\ Within(g_heaps[j], th[t].addr)
      BY <3>6, TableAssumption DEF IInv, RegInv, Table
    <3>q. QED
      BY <1>1, <3>2, <3>3, <3>4, <3>5, <3>7
  <2>3. CASE Handle(t)
    <3>1. /\ th[t] \in WriterType /\ th[t].pc = "search"
          /\ th[t].i \in Nat /\ th[t].count \in Nat
      BY <1>1, <2>3 DEF Handle, WriterType
    <3>2. CASE th[t].i < th[t].count
      <4>1. PICK e \in Entries(th[t].i) :
              th' = IF Within(e, th[t].addr) THEN [th EXCEPT ![t].pc = "again"]
                    ELSE [th EXCEPT ![t].i = th[t].i + 1]
        BY <2>3, <3>2 DEF Handle
      <4>2. CASE Within(e, th[t].addr)
        BY <1>1, <3>1, <4>1, <4>2 DEF WriterType
      <4>3. CASE ~ Within(e, th[t].addr)
        <5>1. th' = [th EXCEPT ![t] = [th[t] EXCEPT !.i = th[t].i + 1]]
          BY <4>1, <4>3
        <5>2. /\ th'[t].pc = "search" /\ th'[t].i = th[t].i + 1
              /\ th'[t].count = th[t].count /\ th'[t].addr = th[t].addr
              /\ th'[t].known = th[t].known
          BY <1>1, <3>1, <5>1 DEF WriterType
        <5>3. th' \in [Writers -> WriterType]
          BY <1>1, <3>1, <5>1 DEF WriterType
        <5>4. ASSUME th[t].known
              PROVE  \E j \in Table : /\ th[t].i + 1 <= j /\ j < th[t].count
                                      /\ g_heaps[j] \in registered
                                      /\ Within(g_heaps[j], th[t].addr)
          <6>1. PICK j \in Table : /\ th[t].i <= j /\ j < th[t].count
                                   /\ g_heaps[j] \in registered
                                   /\ Within(g_heaps[j], th[t].addr)
            BY <3>1, <5>4 DEF IInv, HandlerInv
          <6>2. j # th[t].i
            BY <4>3, <6>1, TableAssumption DEF Entries, Table
          <6>q. QED
            BY <3>1, <6>1, <6>2, TableAssumption DEF Table
        <5>q. QED
          BY <1>1, <5>1, <5>2, <5>3, <5>4
      <4>q. QED
        BY <4>2, <4>3
    <3>3. CASE ~ (th[t].i < th[t].count)
      <4>1. th' = [th EXCEPT ![t] = [th[t] EXCEPT !.pc = "killed"]]
        BY <2>3, <3>3 DEF Handle
      <4>2. ~ th[t].known
        BY <3>1, <3>3, TableAssumption DEF IInv, HandlerInv, Table
      <4>q. QED
        BY <1>1, <3>1, <4>1, <4>2 DEF WriterType
    <3>q. QED
      BY <3>2, <3>3
  <2>q. QED
    <3>1. th[t].addr \in Addresses \cup {0}
      BY <1>1 DEF WriterType
    <3>q. QED
      BY <2>1, <2>2, <2>3, <3>1 DEF Writing
<1>3. TypeInv'
  BY <1>1, <1>2 DEF IInv, TypeInv, table
<1>q. QED
  BY <1>1, <1>2, <1>3 DEF IInv, HandlerInv, table, Within

(* Every step keeps the invariant.                                          *)
LEMMA Inductive == IInv /\ [Next]_vars => IInv'
<1> SUFFICES ASSUME IInv, [Next]_vars PROVE IInv'
  OBVIOUS
<1>1. ASSUME NEW t \in Registrars, Registrar(t) PROVE IInv'
  <2>1. UNCHANGED th /\ registered \subseteq registered'
    BY <1>1 DEF Registrar, Register, Search, Claim, Write, Install, memory
  <2>2. \A j \in Table : g_heaps[j] \in registered => g_heaps'[j] = g_heaps[j]
    BY TableGrows DEF IInv, TypeInv
  <2>3. HandlerInv'
    BY <2>1, <2>2 DEF IInv, HandlerInv, Within
  <2>q. QED
    BY <1>1, <2>3, TypeStep, HeapStep, SlotStep, EntryStep, RegStep DEF IInv
<1>2. ASSUME NEW t \in Writers,
             Writing(t) \/ \E a \in Addresses : WriteTo(t, a)
      PROVE  IInv'
  <2>1. UNCHANGED table
    BY <1>2 DEF Writing, WriteTo, LoadCount, Handle
  <2>2. TypeInv' /\ HandlerInv'
    BY <1>2, WriterStep
  <2>q. QED
    BY <2>1, <2>2 DEF IInv, HeapInv, SlotInv, EntryInv, RegInv, table
<1>3. CASE UNCHANGED <<table, th>>
  BY <1>3 DEF IInv, TypeInv, HeapInv, SlotInv, EntryInv, RegInv, HandlerInv,
              table, Within
<1>q. QED
  BY <1>1, <1>2, <1>3
     DEF Next, Protection, Protect, lock, unlock, Destroy, Move, vars

(* segfault_handler aborts for no heap that was registered before the       *)
(* fault, however many register at once and however small the table is.     *)
THEOREM HeapsKnown == Spec => []HandlerKnows
<1>1. IInv => HandlerKnows
  BY DEF IInv, HandlerInv, HandlerKnows
<1>q. QED
  BY <1>1, InitInv, Inductive, PTL DEF Spec

-----------------------------------------------------------------------------
(* What a protection is made for is a region, or nothing.                   *)
ObjectType == [life : {"none", "live", "gone"},
               region : Regions \cup {NoRegion}, locked : BOOLEAN]
ObjectInv ==
  /\ prot \in [Pages -> {"ReadOnly", "WriteOnly", "ReadWrite"}]
  /\ object \in [Objects -> ObjectType]

(* Locking and unlocking change the pages of one region.                    *)
LEMMA Remapped ==
  ASSUME NEW r, NEW mode, NEW p \in Pages
  PROVE  mprotect(r, mode)[p] = IF p \in Covered(r) THEN mode ELSE prot[p]
  BY DEF mprotect

(* Every operation of a protection leaves each page with an owner.          *)
LEMMA ReleaseStep ==
  ObjectInv /\ PagesReleased /\ [Next]_vars => (ObjectInv /\ PagesReleased)'
<1> SUFFICES ASSUME ObjectInv, PagesReleased, [Next]_vars
             PROVE  (ObjectInv /\ PagesReleased)'
  OBVIOUS
<1> DEFINE Owned(p) == \E x \in Objects : /\ Live(x) /\ object[x].locked
                                          /\ p \in Covered(object[x].region)
<1>1. ASSUME NEW o \in Objects, NEW r \in Regions, Protect(o, r)
      PROVE  (ObjectInv /\ PagesReleased)'
  <2>1. r.mode \in {"ReadOnly", "WriteOnly"} /\ r # NoRegion
    BY RegionAssumption DEF NoRegion
  <2>2. /\ object'[o] = [life |-> "live", region |-> r, locked |-> TRUE]
        /\ \A x \in Objects \ {o} : object'[x] = object[x]
        /\ prot' = mprotect(r, r.mode)
    BY <1>1 DEF Protect, ObjectInv
  <2>3. ObjectInv'
    BY <1>1, <2>1 DEF Protect, ObjectInv, ObjectType, mprotect
  <2>4. ~ Live(o)
    BY <1>1 DEF Protect, Live
  <2>5. ASSUME NEW p \in Pages, prot'[p] # "ReadWrite" PROVE Owned(p)'
    <3>1. CASE p \in Covered(r)
      BY <2>1, <2>2, <3>1 DEF Live, Covered
    <3>2. CASE p \notin Covered(r)
      <4>1. prot[p] # "ReadWrite"
        BY <2>2, <2>5, <3>2, Remapped
      <4>q. QED
        BY <2>2, <2>4, <4>1 DEF PagesReleased, Live, Covered
    <3>q. QED
      BY <3>1, <3>2
  <2>q. QED
    BY <2>3, <2>5 DEF PagesReleased
<1>2. ASSUME NEW o \in Objects, lock(o) PROVE (ObjectInv /\ PagesReleased)'
  <2>1. Live(o) /\ object[o].region \in Regions
    BY <1>2 DEF lock, Live, ObjectInv, ObjectType
  <2>2. /\ object'[o].life = object[o].life
        /\ object'[o].region = object[o].region /\ object'[o].locked
        /\ \A x \in Objects \ {o} : object'[x] = object[x]
        /\ prot' = mprotect(object[o].region, object[o].region.mode)
    BY <1>2 DEF lock, ObjectInv, ObjectType
  <2>3. object[o].region.mode \in {"ReadOnly", "WriteOnly"}
    BY <2>1, RegionAssumption
  <2>4. ObjectInv'
    BY <1>2, <2>3 DEF lock, ObjectInv, ObjectType, mprotect
  <2>5. ASSUME NEW p \in Pages, prot'[p] # "ReadWrite" PROVE Owned(p)'
    <3>1. CASE p \in Covered(object[o].region)
      BY <2>1, <2>2, <3>1 DEF Live, Covered
    <3>2. CASE p \notin Covered(object[o].region)
      <4>1. prot[p] # "ReadWrite"
        BY <2>2, <2>5, <3>2, Remapped
      <4>q. QED
        BY <2>2, <3>2, <4>1 DEF PagesReleased, Live, Covered
    <3>q. QED
      BY <3>1, <3>2
  <2>q. QED
    BY <2>4, <2>5 DEF PagesReleased
<1>3. ASSUME NEW o \in Objects, unlock(o) \/ Destroy(o)
      PROVE  (ObjectInv /\ PagesReleased)'
  <2>1. /\ prot' = Given(o)
        /\ \A x \in Objects \ {o} : object'[x] = object[x]
    BY <1>3 DEF unlock, Destroy, ObjectInv
  <2>2. ObjectInv'
    <3>1. prot' \in [Pages -> {"ReadOnly", "WriteOnly", "ReadWrite"}]
      BY <2>1 DEF Given, ObjectInv, mprotect
    <3>2. \A y \in ObjectType :
            /\ [y EXCEPT !.locked = FALSE] \in ObjectType
            /\ [y EXCEPT !.life = "gone", !.locked = FALSE] \in ObjectType
      BY DEF ObjectType
    <3>3. \/ object' = [object EXCEPT ![o] = [object[o] EXCEPT !.locked = FALSE]]
          \/ object' = [object EXCEPT ![o] = [object[o] EXCEPT
                          !.life = "gone", !.locked = FALSE]]
      BY <1>3 DEF unlock, Destroy
    <3>4. object[o] \in ObjectType /\ object \in [Objects -> ObjectType]
      BY DEF ObjectInv
    <3>5. PICK y \in ObjectType : object' = [object EXCEPT ![o] = y]
      BY <3>2, <3>3, <3>4
    <3>6. object' \in [Objects -> ObjectType]
      BY <3>4, <3>5
    <3>q. QED
      BY <3>1, <3>6 DEF ObjectInv
  <2>3. ASSUME NEW p \in Pages, prot'[p] # "ReadWrite" PROVE Owned(p)'
    <3>1. CASE Live(o) /\ object[o].locked
      <4>1. p \notin Covered(object[o].region) /\ prot[p] # "ReadWrite"
        BY <2>1, <2>3, <3>1, Remapped DEF Given
      <4>q. QED
        BY <2>1, <4>1 DEF PagesReleased, Live, Covered
    <3>2. CASE ~ (Live(o) /\ object[o].locked)
      <4>1. prot[p] # "ReadWrite"
        BY <2>1, <2>3, <3>2 DEF Given
      <4>q. QED
        BY <2>1, <3>2, <4>1 DEF PagesReleased, Live, Covered
    <3>q. QED
      BY <3>1, <3>2
  <2>q. QED
    BY <2>2, <2>3 DEF PagesReleased
<1>4. ASSUME NEW o \in Objects, NEW x \in Objects, Move(x, o)
      PROVE  (ObjectInv /\ PagesReleased)'
  <2>1. x # o /\ ~ Live(o)
    BY <1>4 DEF Move, Live
  <2>2. /\ object'[o] = object[x] /\ UNCHANGED prot
        /\ \A y \in Objects \ {o, x} : object'[y] = object[y]
    BY <1>4, <2>1 DEF Move, ObjectInv
  <2>3. ObjectInv'
    BY <1>4 DEF Move, Empty, ObjectInv, ObjectType
  <2>4. ASSUME NEW p \in Pages, prot'[p] # "ReadWrite" PROVE Owned(p)'
    BY <2>1, <2>2, <2>4 DEF PagesReleased, Live, Covered
  <2>q. QED
    BY <2>3, <2>4 DEF PagesReleased
<1>5. CASE UNCHANGED memory
  BY <1>5 DEF memory, ObjectInv, PagesReleased, Live, Covered
<1>q. QED
  BY <1>1, <1>2, <1>3, <1>4, <1>5
     DEF Next, Registrar, Register, Search, Claim, Write, Install, Writing,
         WriteTo, LoadCount, Handle, Protection, vars

(* No page stays protected when the RegionProtection objects that protect   *)
(* it are gone, whatever is moved and however regions overlap.              *)
THEOREM Released == Spec => []PagesReleased
<1>1. Init => ObjectInv /\ PagesReleased
  BY DEF Init, ObjectInv, ObjectType, PagesReleased
<1>q. QED
  BY <1>1, ReleaseStep, PTL DEF Spec
-----------------------------------------------------------------------------
(* What a product with the size of a page is rounded to                     *)
LEMMA Rounding ==
  ASSUME NEW a \in Nat
  PROVE  /\ a \div PageSize \in Nat
         /\ page_aligned_floor(a) \in Nat /\ page_aligned_floor(a) <= a
         /\ a <= page_size_ceil(a) /\ page_size_ceil(a) \in Nat
<1>1. PageSize \in Nat \ {0}
  BY TableAssumption
<1>2. \A n \in Nat : /\ n \div PageSize \in Nat
                     /\ (n \div PageSize) * PageSize \in Nat
                     /\ (n \div PageSize) * PageSize <= n
                     /\ n < (n \div PageSize) * PageSize + PageSize
  BY <1>1
<1>3. page_aligned_floor(a) \in Nat /\ page_aligned_floor(a) <= a
  BY <1>2 DEF page_aligned_floor
<1>4. a + PageSize - 1 \in Nat
  BY <1>1
<1>5. a <= page_size_ceil(a) /\ page_size_ceil(a) \in Nat
  <2> DEFINE m == ((a + PageSize - 1) \div PageSize) * PageSize
  <2>1. m \in Nat /\ a + PageSize - 1 < m + PageSize
    BY <1>2, <1>4
  <2> HIDE DEF m
  <2>2. a <= m
    BY <1>1, <2>1
  <2>q. QED
    BY <2>1, <2>2 DEF m, page_size_ceil
<1>q. QED
  BY <1>2, <1>3, <1>5

(* mprotect covers every page that holds a byte of the region.              *)
LEMMA PagesCovered ==
  ASSUME NEW r \in Regions, NEW a \in r.start .. (r.end - 1),
         a \div PageSize \in Pages
  PROVE  a \div PageSize \in Covered(r)
<1> DEFINE p == a \div PageSize
           start == page_aligned_floor(r.start)
           size == page_size_ceil(r.end - start)
<1>1. PageSize \in Nat \ {0} /\ r.start \in Nat /\ r.end \in Nat
      /\ r.start < r.end
  BY TableAssumption, RegionAssumption
<1>2. a \in Nat /\ r.start <= a /\ a < r.end
  BY <1>1
<1>3. start \in Nat /\ start <= r.start
  BY <1>1, Rounding
<1>4. r.end - start \in Nat
  BY <1>1, <1>3
<1>5. size \in Nat /\ r.end - start <= size
  BY <1>4, Rounding
<1>6. p \in Nat /\ p * PageSize \in Nat /\ p * PageSize <= a
  BY <1>1, <1>2
<1>7. start <= p * PageSize
  <2>1. r.start \div PageSize <= p
    BY <1>1, <1>2
  <2>2. r.start \div PageSize \in Nat
    BY <1>1
  <2>q. QED
    BY <1>1, <1>6, <2>1, <2>2 DEF page_aligned_floor
<1>8. p * PageSize < start + size
  <2> HIDE DEF p, start, size
  <2>q. QED
    BY <1>1, <1>2, <1>3, <1>5, <1>6
<1>q. QED
  BY <1>7, <1>8 DEF Covered

(* Two objects never protect the same region, and the pages an object that  *)
(* is locked has to itself are as its region says.                          *)
OwnerInv ==
  /\ \A o \in Objects : object[o].life = "none" => object[o].region = NoRegion
  /\ \A x, y \in Objects :
       x # y /\ object[x].region # NoRegion => object[x].region # object[y].region
Alone(r) == {p \in Covered(r) : \A s \in Regions \ {r} : p \notin Covered(s)}
LockInv ==
  \A o \in Objects : Live(o) /\ object[o].locked =>
    \A p \in Alone(object[o].region) : prot[p] = object[o].region.mode
OInv == ObjectInv /\ OwnerInv /\ LockInv

(* What is done to the pages of another region does not touch them.         *)
LEMMA Apart ==
  ASSUME NEW r \in Regions, NEW s \in Regions, r # s, NEW mode,
         NEW p \in Alone(r)
  PROVE  mprotect(s, mode)[p] = prot[p]
BY Remapped DEF Alone, Covered

(* Every operation of a protection keeps the invariant.                     *)
LEMMA OwnerStep ==
  OInv /\ [Next]_vars => OInv'
<1> SUFFICES ASSUME OInv, [Next]_vars PROVE OwnerInv' /\ LockInv' /\ ObjectInv'
  BY DEF OInv
<1>0. /\ ObjectInv /\ OwnerInv /\ LockInv
      /\ \A o \in Objects : /\ object[o] \in ObjectType
                            /\ Live(o) => object[o].region \in Regions
  BY DEF OInv, ObjectInv, ObjectType, Live
<1>9. Regions \cap {NoRegion} = {}
  BY RegionAssumption DEF NoRegion
<1>1. ASSUME NEW o \in Objects, NEW r \in Regions, Protect(o, r)
      PROVE  OwnerInv' /\ LockInv' /\ ObjectInv'
  <2>1. r.mode \in {"ReadOnly", "WriteOnly"}
    BY RegionAssumption
  <2>2. /\ object'[o] = [life |-> "live", region |-> r, locked |-> TRUE]
        /\ \A x \in Objects \ {o} : object'[x] = object[x]
        /\ \A x \in Objects : object[x].region # r
        /\ prot' = mprotect(r, r.mode)
    BY <1>0, <1>1 DEF Protect, ObjectInv
  <2>3. ObjectInv'
    BY <1>0, <1>1, <2>1 DEF Protect, ObjectInv, ObjectType, mprotect
  <2>4. OwnerInv'
    BY <1>0, <2>2 DEF OwnerInv
  <2>5. ASSUME NEW x \in Objects, Live(x)', object'[x].locked,
               NEW p \in Alone(object'[x].region)
        PROVE  prot'[p] = object'[x].region.mode
    <3>1. CASE x = o
      BY <2>2, <2>5, <3>1, Remapped DEF Alone, Covered
    <3>2. CASE x # o
      <4>1. /\ Live(x) /\ object[x].locked /\ object'[x] = object[x]
            /\ object[x].region \in Regions /\ object[x].region # r
        BY <1>0, <2>2, <2>5, <3>2 DEF Live
      <4>q. QED
        BY <1>0, <2>2, <2>5, <4>1, Apart DEF LockInv
    <3>q. QED
      BY <3>1, <3>2
  <2>q. QED
    BY <2>3, <2>4, <2>5 DEF LockInv, Alone, Covered
<1>2. ASSUME NEW o \in Objects, lock(o) \/ unlock(o) \/ Destroy(o)
      PROVE  OwnerInv' /\ LockInv' /\ ObjectInv'
  <2>1. /\ object'[o].region = object[o].region
        /\ object'[o].life = object[o].life \/ object'[o].life = "gone"
        /\ object[o].life = "live"
        /\ \A x \in Objects \ {o} : object'[x] = object[x]
        /\ prot' \in [Pages -> {"ReadOnly", "WriteOnly", "ReadWrite"}]
        /\ object' \in [Objects -> ObjectType]
    <3>1. PICK y \in ObjectType :
            /\ object' = [object EXCEPT ![o] = y]
            /\ y.region = object[o].region
            /\ y.life = object[o].life \/ y.life = "gone"
      <4>1. \A y \in ObjectType :
              /\ [y EXCEPT !.locked = FALSE] \in ObjectType
              /\ [y EXCEPT !.locked = TRUE] \in ObjectType
              /\ [y EXCEPT !.life = "gone", !.locked = FALSE] \in ObjectType
              /\ [y EXCEPT !.locked = FALSE].region = y.region
              /\ [y EXCEPT !.locked = TRUE].region = y.region
              /\ [y EXCEPT !.life = "gone", !.locked = FALSE].region = y.region
              /\ [y EXCEPT !.locked = FALSE].life = y.life
              /\ [y EXCEPT !.locked = TRUE].life = y.life
              /\ [y EXCEPT !.life = "gone", !.locked = FALSE].life = "gone"
        BY DEF ObjectType
      <4>2. \/ object' = [object EXCEPT ![o] = [object[o] EXCEPT !.locked = FALSE]]
            \/ object' = [object EXCEPT ![o] = [object[o] EXCEPT !.locked = TRUE]]
            \/ object' = [object EXCEPT ![o] = [object[o] EXCEPT
                            !.life = "gone", !.locked = FALSE]]
        BY <1>2 DEF lock, unlock, Destroy
      <4>q. QED
        BY <1>0, <4>1, <4>2
    <3>2. prot' \in [Pages -> {"ReadOnly", "WriteOnly", "ReadWrite"}]
      <4>1. Live(o) => object[o].region.mode \in {"ReadOnly", "WriteOnly"}
        BY <1>0, RegionAssumption
      <4>2. CASE lock(o)
        BY <1>0, <4>1, <4>2 DEF lock, ObjectInv, mprotect
      <4>3. CASE unlock(o) \/ Destroy(o)
        BY <1>0, <4>3 DEF unlock, Destroy, Given, ObjectInv, mprotect
      <4>q. QED
        BY <1>2, <4>2, <4>3
    <3>3. object[o].life = "live"
      BY <1>2 DEF lock, unlock, Destroy, Live
    <3>q. QED
      BY <1>0, <3>1, <3>2, <3>3 DEF ObjectInv
  <2>2. ObjectInv' /\ OwnerInv'
    BY <1>0, <2>1 DEF ObjectInv, OwnerInv
  <2>3. ASSUME NEW x \in Objects, x # o, Live(x)', object'[x].locked,
               NEW p \in Alone(object'[x].region)
        PROVE  prot'[p] = object'[x].region.mode
    <3>1. /\ Live(x) /\ object[x].locked /\ object'[x] = object[x]
          /\ object[x].region \in Regions
          /\ object[x].region # object[o].region
      BY <1>0, <2>1, <2>3 DEF Live, OwnerInv
    <3>2. prot[p] = object[x].region.mode
      BY <1>0, <2>3, <3>1 DEF LockInv
    <3>3. prot' = prot \/ \E mode : prot' = mprotect(object[o].region, mode)
                                    /\ object[o].region \in Regions
      BY <1>0, <1>2 DEF lock, unlock, Destroy, Given
    <3>q. QED
      BY <2>3, <3>1, <3>2, <3>3, Apart
  <2>4. ASSUME Live(o)', object'[o].locked, NEW p \in Alone(object'[o].region)
        PROVE  prot'[p] = object'[o].region.mode
    <3>1. \A y \in ObjectType :
            /\ ~ [y EXCEPT !.locked = FALSE].locked
            /\ [y EXCEPT !.life = "gone", !.locked = FALSE].life = "gone"
      BY DEF ObjectType
    <3>2. ~ unlock(o)
      BY <1>0, <2>4, <3>1 DEF unlock, ObjectInv
    <3>3. ~ Destroy(o)
      BY <1>0, <2>4, <3>1 DEF Destroy, ObjectInv, Live
    <3>4. prot' = mprotect(object[o].region, object[o].region.mode)
      BY <1>2, <3>2, <3>3 DEF lock
    <3>q. QED
      BY <2>1, <2>4, <3>4, Remapped DEF Alone, Covered
  <2>q. QED
    BY <2>2, <2>3, <2>4 DEF LockInv, Alone, Covered
<1>3. ASSUME NEW o \in Objects, NEW x \in Objects, Move(x, o)
      PROVE  OwnerInv' /\ LockInv' /\ ObjectInv'
  <2>1. x # o /\ object[o].life = "none"
    BY <1>3 DEF Move
  <2>2. /\ object'[o] = object[x] /\ object'[x] = Empty /\ UNCHANGED prot
        /\ object[x].life = "live"
        /\ \A y \in Objects \ {o, x} : object'[y] = object[y]
    BY <1>0, <1>3, <2>1 DEF Move, ObjectInv
  <2>3. ObjectInv'
    BY <1>0, <1>3 DEF Move, Empty, ObjectInv, ObjectType
  <2>4. /\ object'[x].region = NoRegion /\ object'[x].life = "live"
        /\ ~ object'[x].locked
    BY <2>2 DEF Empty
  <2>5. OwnerInv'
    BY <1>0, <2>1, <2>2, <2>4 DEF OwnerInv
  <2>6. LockInv'
    BY <1>0, <2>1, <2>2, <2>4 DEF LockInv, Live, Alone, Covered
  <2>q. QED
    BY <2>3, <2>5, <2>6
<1>4. CASE UNCHANGED memory
  BY <1>0, <1>4 DEF memory, ObjectInv, OwnerInv, LockInv, Live, Alone, Covered
<1>q. QED
  BY <1>1, <1>2, <1>3, <1>4
     DEF Next, Registrar, Register, Search, Claim, Write, Install, Writing,
         WriteTo, LoadCount, Handle, Protection, vars

(* The promise of RegionProtection, for pages of any size and regions that  *)
(* begin and end anywhere: while an object is locked every page with a byte *)
(* of its region is protected, unless another region shares the page.       *)
THEOREM PagesHeld == Spec => []OwnPagesProtected
<1>1. Init => OInv
  BY DEF Init, OInv, ObjectInv, ObjectType, OwnerInv, LockInv, Live
<1>2. OInv => OwnPagesProtected
  <2> SUFFICES ASSUME OInv, NEW o \in Objects, Live(o), object[o].locked,
                      NEW p \in Pages,
                      NEW a \in object[o].region.start
                                .. (object[o].region.end - 1),
                      a \div PageSize = p,
                      \A r \in Regions \ {object[o].region} : p \notin Covered(r)
               PROVE  prot[p] = object[o].region.mode
    BY DEF OwnPagesProtected
  <2>1. object[o].region \in Regions
    BY DEF OInv, ObjectInv, ObjectType, Live
  <2>2. p \in Covered(object[o].region)
    BY <2>1, PagesCovered
  <2>q. QED
    BY <2>2 DEF OInv, LockInv, Alone
<1>q. QED
  BY <1>1, <1>2, OwnerStep, PTL DEF Spec
=============================================================================
