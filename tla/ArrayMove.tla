----------------------------- MODULE ArrayMove -----------------------------
(***************************************************************************)
(* One array object while the collection moves it and the program uses it  *)
(* through a SafePtr<T[]>: seq_cst_cpy copies its bytes in accesses of 8,  *)
(* 4, 2 or 1 bytes, a compare-exchange redirects the pointer, and the      *)
(* program reads, writes and clones elements in between.                   *)
(*                                                                         *)
(* A step is one access to memory.  A byte holds the number of the write   *)
(* it comes from, so that what a word is torn from stays visible.          *)
(***************************************************************************)
EXTENDS Integers, Sequences

CONSTANTS
  Arrays,      \* the object: [src, elem, len], its address and elements
  MaxWrites,   \* bound on the writes of the program
  Behind,      \* what lies behind the array in the old space
  Neighbour    \* what lies behind the copy in the new space

ASSUME ArraysAssumption ==
  \A a \in Arrays :
    /\ a.src \in Nat /\ a.len \in Nat \ {0} /\ a.elem \in {1, 2, 4, 8}
    /\ a.src % a.elem = 0
ASSUME WritesAssumption ==
  /\ MaxWrites \in Nat
  /\ Behind \notin Int /\ Neighbour \notin Int

VARIABLES
  array,   \* the array this behaviour is about
  old,     \* the bytes of the object
  new,     \* the bytes of its copy, and the seven behind it
  i,       \* seq_cst_cpy: bytes copied so far
  reg,     \* its register: what the last load has read, <<>> when stored
  moved,   \* copy, after seq_cst_cpy: the pointer has been redirected
  m_ptr,   \* SafePtr::m_ptr: "old" or "new"
  th,      \* the program: [pc, ptr, e], the pointer and index it works with
  res,     \* the elements clone has copied so far
  n,       \* writes so far
  want,    \* history: the last value written to each element
  late     \* history: elements written behind the back of the copy loop

program == <<m_ptr, th, res, n, want, late>>
vars == <<array, old, new, i, reg, moved, m_ptr, th, res, n, want, late>>

Size(a) == a.elem * a.len
Elements == 0 .. (array.len - 1)
Bytes(e) == (e * array.elem) .. ((e + 1) * array.elem - 1)
Idle == [pc |-> "idle", ptr |-> "old", e |-> 0]
Memory == [old |-> old, new |-> new]

Init ==
  /\ array \in Arrays
  /\ old = [b \in 0 .. (Size(array) - 1) |-> 0]
  /\ new = [b \in 0 .. (Size(array) + 6) |-> Neighbour]
  /\ i = 0 /\ reg = <<>> /\ moved = FALSE
  /\ m_ptr = "old" /\ th = Idle /\ res = <<>> /\ n = 0
  /\ want = [e \in Elements |-> 0] /\ late = {}

-----------------------------------------------------------------------------
(* seq_cst_cpy *)

(* Mutant: every access is one byte wide. *)
WidthByte(at) == 1
(* The widest access the alignment of the source allows *)
Width(at) == CASE at % 8 = 0 -> 8
               [] at % 8 = 4 -> 4
               [] at % 4 = 2 -> 2
               [] OTHER -> 1

(* Mutant: the last byte is not tested against the size. *)
CopyingOn == i <= Size(array)
Copying == i < Size(array)

(* mov (src), reg: near the end this reads what lies behind the array. *)
CpyLoad ==
  /\ Copying /\ reg = <<>>
  /\ reg' = [k \in 1 .. Width(array.src + i) |->
               IF i + k - 1 \in DOMAIN old THEN old[i + k - 1] ELSE Behind]
  /\ UNCHANGED <<array, old, new, i, moved, program>>

(* xchg reg, (dst): and this writes behind the copy. *)
CpyStore ==
  /\ reg # <<>>
  /\ new' = [b \in DOMAIN new |->
               IF b - i + 1 \in DOMAIN reg THEN reg[b - i + 1] ELSE new[b]]
  /\ i' = i + Len(reg)
  /\ reg' = <<>>
  /\ UNCHANGED <<array, old, moved, program>>

(* copy: to_update.compare_exchange(ptr, new_obj) *)
Swing ==
  /\ ~ Copying /\ reg = <<>> /\ ~ moved
  /\ moved' = TRUE
  /\ m_ptr' = IF m_ptr = "old" THEN "new" ELSE m_ptr
  /\ UNCHANGED <<array, old, new, i, reg, th, res, n, want, late>>

-----------------------------------------------------------------------------
(* The program: array[e] = x, and array.clone() *)

(* operator[] and at evaluate m_ptr first; at checks the index. *)
LoadPtr(e) ==
  /\ th.pc = "idle"
  /\ th' = [pc |-> "access", ptr |-> m_ptr, e |-> e]
  /\ UNCHANGED <<array, old, new, i, reg, moved, m_ptr, res, n, want, late>>

(* The bytes the copy loop has read already *)
Loaded == IF reg = <<>> THEN i ELSE i + Len(reg)

(* Mutant: the program stores where the object was, wherever it is now. *)
StoreOld ==
  /\ th.pc = "access" /\ n < MaxWrites
  /\ n' = n + 1
  /\ want' = [want EXCEPT ![th.e] = n']
  /\ late' = IF m_ptr = "new" THEN late ELSE
             IF th.e * array.elem < Loaded THEN late \cup {th.e} ELSE late
  /\ old' = [b \in DOMAIN old |-> IF b \in Bytes(th.e) THEN n' ELSE old[b]]
  /\ th' = Idle
  /\ UNCHANGED <<array, new, i, reg, moved, m_ptr, res>>

(* The element is stored in one access, through the pointer loaded before. *)
Store ==
  LET written(f) == [b \in DOMAIN f |-> IF b \in Bytes(th.e) THEN n' ELSE f[b]]
  IN  /\ th.pc = "access" /\ n < MaxWrites
      /\ n' = n + 1
      /\ want' = [want EXCEPT ![th.e] = n']
      /\ IF th.ptr = "old"
         THEN /\ old' = written(old) /\ new' = new
              /\ late' = IF th.e * array.elem < Loaded
                         THEN late \cup {th.e} ELSE late
         ELSE /\ new' = written(new) /\ old' = old
              /\ late' = late \ {th.e}
      /\ th' = Idle
      /\ UNCHANGED <<array, i, reg, moved, m_ptr, res>>

(* An access that only reads *)
Read ==
  /\ th.pc = "access"
  /\ th' = Idle
  /\ UNCHANGED <<array, old, new, i, reg, moved, m_ptr, res, n, want, late>>

(* clone allocates an array of m_size elements and copies them one by one,  *)
(* evaluating m_ptr for every element.                                      *)
Clone ==
  /\ th.pc = "idle"
  /\ res' = <<>>
  /\ th' = [Idle EXCEPT !.pc = "clone"]
  /\ UNCHANGED <<array, old, new, i, reg, moved, m_ptr, n, want, late>>

CloneLoad ==
  /\ th.pc = "clone"
  /\ th' = IF th.e < array.len THEN [th EXCEPT !.pc = "read", !.ptr = m_ptr]
           ELSE Idle
  /\ UNCHANGED <<array, old, new, i, reg, moved, m_ptr, res, n, want, late>>

CloneRead ==
  /\ th.pc = "read"
  /\ res' = Append(res, Memory[th.ptr][th.e * array.elem])
  /\ th' = [th EXCEPT !.pc = "clone", !.e = th.e + 1]
  /\ UNCHANGED <<array, old, new, i, reg, moved, m_ptr, n, want, late>>

-----------------------------------------------------------------------------
Collection == CpyLoad \/ CpyStore \/ Swing
Program == (\E e \in Elements : LoadPtr(e)) \/ Store \/ Read
           \/ Clone \/ CloneLoad \/ CloneRead

Next == Collection \/ Program

Spec == Init /\ [][Next]_vars

-----------------------------------------------------------------------------
(* seq_cst_cpy chooses its accesses by the alignment of the source so that  *)
(* no element of the copy is made of bytes of two different writes.         *)
ElementsWhole ==
  \A e \in Elements :
    (e + 1) * array.elem <= i =>
      \A b, c \in Bytes(e) : new[b] = new[c] /\ new[b] \in 0 .. n

(* seq_cst_cpy writes behind the copy: up to the next multiple of 8 in the  *)
(* source and never further.                                                *)
OverrunBounded ==
  \A b \in DOMAIN new :
    b >= Size(array) /\ new[b] # Neighbour =>
      array.src + b < 8 * ((array.src + Size(array) + 7) \div 8)

(* The ISSUE named in copy is the only one: an element the program is about *)
(* to access through whatever address it has loaded, or has cloned, holds   *)
(* what was last written to it, unless that write came after the copy loop  *)
(* had read it and went to the old object.                                  *)
OnlyLateWritesLost ==
  /\ th.pc \in {"access", "read"} /\ th.e \notin late =>
       \A b \in Bytes(th.e) : Memory[th.ptr][b] = want[th.e]
  /\ \A k \in 1 .. Len(res) :
       th.pc \in {"clone", "read"} /\ k - 1 \notin late =>
         res[k] = want[k - 1]
=============================================================================
