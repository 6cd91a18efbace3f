------------------------------ MODULE GcRoots ------------------------------
(***************************************************************************)
(* GCRoots: where the collection looks for pointers.  Threads push and pop *)
(* stack frames, announce them with GC_UPDATE_STACK_RANGE, and end; a      *)
(* thread that calls get_roots reads the recorded ranges of all the stacks *)
(* word by word while the others run.                                      *)
(*                                                                         *)
(* An address counts words.  A stack grows downwards from its top, and a   *)
(* frame is three words: the saved rbp, at which rbp points, and below it  *)
(* the two words of one FatPtr variable.  A step is one region under       *)
(* m_mutex, one word looked at, or one thing a program does to its stack.  *)
(***************************************************************************)
EXTENDS Integers

CONSTANTS
  Threads,     \* thread ids, reused when a thread has ended
  Scanners,    \* the threads that call get_roots
  MaxDepth,    \* bound on the frames of each thread
  Stacks,      \* numbers of the places where a stack can be mapped
  StackSize,   \* words of a stack
  RedZone      \* red_zone_size, in words

ASSUME ThreadAssumption == Scanners \subseteq Threads
ASSUME StackAssumption ==
  /\ Stacks \subseteq Nat /\ StackSize \in Nat /\ RedZone \in Nat
  /\ MaxDepth \in [Threads -> Nat \ {0}]
  /\ \A t \in Threads : StackSize > 3 * MaxDepth[t] + RedZone

VARIABLES
  stack,          \* the place of the stack of each running thread
  depth,          \* frames on it
  fat,            \* where there is a FatPtr: addresses of its first word
  mapped,         \* places where a stack is mapped
  m_stack_ranges, \* <<start, end>> for each thread that has an entry
  call,           \* update_stack_range: [pc, base, sp, get], get in get_roots
  w,              \* the scan, under the exclusive lock
  found,          \* the roots it has found
  announced,      \* history: frames a thread has announced
  must,           \* history: variables of such frames during the whole scan
  ended           \* history: a thread has ended

runtime == <<stack, depth, mapped, ended>>
vars == <<runtime, fat, m_stack_ranges, call, w, found, announced, must>>

NoStack == -1
(* A word between two stacks is never mapped. *)
Top(s) == s * (StackSize + 1) + StackSize
Words(s) == (Top(s) - StackSize + 1) .. Top(s)
Rbp(s, d) == Top(s) - 3 * (d - 1)
Local(s, d) == Rbp(s, d) - 2
(* At most this is the stack pointer that get_sp reads, called from frame d *)
Sp(s, d) == Local(s, d) - 1

Running(t) == stack[t] # NoStack
NoCall == [pc |-> "run", base |-> 0, sp |-> 0, get |-> FALSE]
NoScan == [pc |-> "idle", by |-> NoStack, todo |-> {}, a |-> 0, to |-> 0]

Init ==
  /\ stack = [t \in Threads |-> NoStack] /\ depth = [t \in Threads |-> 0]
  /\ fat = {} /\ mapped = {} /\ ended = FALSE
  /\ m_stack_ranges = <<>>
  /\ call = [t \in Threads |-> NoCall]
  /\ w = NoScan /\ found = {}
  /\ announced = [t \in Threads |-> {}] /\ must = {}

-----------------------------------------------------------------------------
(* The program: threads, frames and variables                               *)

(* A new stack is clean; one kept from a thread that ended is used as it is. *)
StartThread(t, s) ==
  /\ ~ Running(t) /\ \A u \in Threads : stack[u] # s
  /\ stack' = [stack EXCEPT ![t] = s]
  /\ depth' = [depth EXCEPT ![t] = 1]
  /\ mapped' = mapped \cup {s}
  /\ UNCHANGED <<fat, ended, m_stack_ranges, call, w, found, announced, must>>

(* The stack of a thread that ends is unmapped, or kept for another one.    *)
EndThread(t, unmap) ==
  /\ Running(t) /\ depth[t] = 1 /\ call[t] = NoCall
  /\ stack' = [stack EXCEPT ![t] = NoStack]
  /\ depth' = [depth EXCEPT ![t] = 0]
  /\ mapped' = IF unmap THEN mapped \ {stack[t]} ELSE mapped
  /\ fat' = IF unmap THEN fat \ Words(stack[t]) ELSE fat
  /\ must' = must \ Words(stack[t])
  /\ announced' = [announced EXCEPT ![t] = {}]
  /\ ended' = TRUE
  /\ UNCHANGED <<m_stack_ranges, call, w, found>>

(* The variable of a new frame has the contents of the frame before it. *)
PushFrame(t) ==
  /\ Running(t) /\ depth[t] < MaxDepth[t] /\ call[t] = NoCall
  /\ depth' = [depth EXCEPT ![t] = @ + 1]
  /\ UNCHANGED <<stack, mapped, ended, fat, m_stack_ranges, call, w, found,
                 announced, must>>

PopFrame(t) ==
  /\ Running(t) /\ depth[t] > 1 /\ call[t] = NoCall
  /\ depth' = [depth EXCEPT ![t] = @ - 1]
  /\ announced' = [announced EXCEPT ![t] = @ \ {depth[t]}]
  /\ must' = must \ {Local(stack[t], depth[t])}
  /\ UNCHANGED <<stack, mapped, ended, fat, m_stack_ranges, call, w, found>>

(* The variable of the current frame is constructed, or its words are used  *)
(* for something else.                                                      *)
SetLocal(t, is) ==
  LET l == Local(stack[t], depth[t])
  IN  /\ Running(t) /\ call[t] = NoCall
      /\ fat' = IF is THEN fat \cup {l} ELSE fat \ {l}
      /\ must' = IF is THEN must ELSE must \ {l}
      /\ UNCHANGED <<runtime, m_stack_ranges, call, w, found, announced>>

-----------------------------------------------------------------------------
(* GC_UPDATE_STACK_RANGE, its NESTED_1 form, and GC_GET_ROOTS               *)

(* The function is entered with the rbp of frame d, the current one or, in  *)
(* the nested form, its caller's.                                           *)
Enter(t, d, get) ==
  /\ Running(t) /\ call[t] = NoCall
  /\ call' = [call EXCEPT ![t] = [pc |-> "update", base |-> Rbp(stack[t], d),
                                  sp |-> Sp(stack[t], depth[t]), get |-> get]]
  /\ UNCHANGED <<runtime, fat, m_stack_ranges, w, found, announced, must>>

(* The exclusive lock is held while a scan lasts. *)
Unlocked == w.pc \notin {"scan", "fault"}

(* update_stack_range is left, in get_roots for the scan. *)
Left(t) ==
  /\ call' = [call EXCEPT ![t] = IF @.get THEN [@ EXCEPT !.pc = "lock"]
                                 ELSE NoCall]
  /\ announced' = [announced EXCEPT ![t] =
       @ \cup {d \in 1 .. depth[t] : Rbp(stack[t], d) <= call[t].base}]
  /\ UNCHANGED <<runtime, fat, w, found, must>>

(* Mutant: the range only ever starts at the last frame announced. *)
WidenedLast(r, c) == <<c.base, c.sp>>
(* The entry of a thread: the highest start, and the last stack pointer.    *)
(* The early return, for a range that is the same already, is included.     *)
Widened(r, c) == <<IF c.base > r[1] THEN c.base ELSE r[1], c.sp>>

(* The thread has an entry: it is changed under the shared lock. *)
Update(t) ==
  /\ call[t].pc = "update" /\ Unlocked
  /\ t \in DOMAIN m_stack_ranges
  /\ m_stack_ranges' =
       [m_stack_ranges EXCEPT ![t] = Widened(@, call[t])]
  /\ Left(t)

(* It has none: the shared lock is given up, others run, and the entry is   *)
(* made under the exclusive lock.                                           *)
UpdateNew(t) ==
  /\ call[t].pc = "update" /\ Unlocked
  /\ t \notin DOMAIN m_stack_ranges
  /\ call' = [call EXCEPT ![t].pc = "insert"]
  /\ UNCHANGED <<runtime, fat, m_stack_ranges, w, found, announced, must>>

(* Mutant: the shared lock is kept, so the exclusive one cannot be had. *)
InsertHolding(t) == FALSE
Insert(t) ==
  /\ call[t].pc = "insert" /\ Unlocked
  /\ m_stack_ranges' =
       [u \in DOMAIN m_stack_ranges \cup {t} |->
          IF u \in DOMAIN m_stack_ranges THEN m_stack_ranges[u]
          ELSE <<call[t].base, call[t].sp>>]
  /\ Left(t)

-----------------------------------------------------------------------------
(* get_roots                                                                *)

LockForScan(t) ==
  /\ call[t].pc = "lock" /\ Unlocked
  /\ w' = [NoScan EXCEPT !.pc = "scan", !.by = t,
                         !.todo = DOMAIN m_stack_ranges]
  /\ found' = {}
  /\ must' = {l \in fat : \E u \in Threads : \E d \in announced[u] :
                             l = Local(stack[u], d)}
  /\ UNCHANGED <<runtime, fat, m_stack_ranges, call, announced>>

(* Mutant: the size of the red zone is not converted. *)
ScanFromFar(r) == r[2] - 8 * RedZone
(* scan_memory goes from end - red_zone_size, *)
ScanFrom(r) == r[2] - RedZone
(* to the last word from which a FatPtr fits below start + 1 byte. *)
InRange == w.a + 2 <= w.to

(* scan_locals of the next thread *)
ScanThread(t) ==
  /\ w.pc = "scan" /\ ~ InRange /\ t \in w.todo
  /\ w' = [w EXCEPT !.todo = @ \ {t}, !.a = ScanFrom(m_stack_ranges[t]),
                    !.to = m_stack_ranges[t][1]]
  /\ UNCHANGED <<runtime, fat, m_stack_ranges, call, found, announced, must>>

Mapped(a) == \E s \in mapped : a \in Words(s)

(* FatPtr::maybe_ptr on two words, which can have been unmapped. *)
ScanWord ==
  /\ w.pc = "scan" /\ InRange
  /\ IF Mapped(w.a) /\ Mapped(w.a + 1)
     THEN /\ w' = [w EXCEPT !.a = @ + 1]
          /\ found' = IF w.a \in fat THEN found \cup {w.a} ELSE found
     ELSE /\ w' = [w EXCEPT !.pc = "fault"]
          /\ found' = found
  /\ UNCHANGED <<runtime, fat, m_stack_ranges, call, announced, must>>

ScanOver == w.pc = "scan" /\ ~ InRange /\ w.todo = {}

(* lk.unlock() *)
UnlockAfterScan ==
  /\ ScanOver
  /\ call' = [call EXCEPT ![w.by].pc = "merge"]
  /\ w' = NoScan /\ found' = {} /\ must' = {}
  /\ UNCHANGED <<runtime, fat, m_stack_ranges, announced>>

(* get_roots returns what has been found, and the globals, which it copies  *)
(* under the shared lock.                                                   *)
Merge(t) ==
  /\ call[t].pc = "merge" /\ Unlocked
  /\ call' = [call EXCEPT ![t] = NoCall]
  /\ UNCHANGED <<runtime, fat, m_stack_ranges, w, found, announced, must>>

-----------------------------------------------------------------------------
Program(t) ==
  \/ \E s \in Stacks : StartThread(t, s)
  \/ \E unmap \in BOOLEAN : EndThread(t, unmap)
  \/ PushFrame(t) \/ PopFrame(t)
  \/ \E is \in BOOLEAN : SetLocal(t, is)

(* The two macros for any thread, GC_GET_ROOTS for a scanner *)
Enters(t) ==
  \/ Enter(t, depth[t], FALSE)
  \/ depth[t] > 1 /\ Enter(t, depth[t] - 1, FALSE)
  \/ t \in Scanners /\ Enter(t, depth[t], TRUE)

Locks(t) ==
  Update(t) \/ UpdateNew(t) \/ Insert(t) \/ LockForScan(t) \/ Merge(t)

Scan == (\E t \in Threads : ScanThread(t)) \/ ScanWord \/ UnlockAfterScan

Crashed == w.pc = "fault"

Next ==
  /\ ~ Crashed
  /\ (\E t \in Threads : Program(t) \/ Enters(t) \/ Locks(t)) \/ Scan

(* A scan that has begun goes on, and a thread that waits for m_mutex gets  *)
(* it sooner or later however often the others take it.                     *)
Fairness ==
  /\ WF_vars(~ Crashed /\ Scan)
  /\ \A t \in Threads : SF_vars(~ Crashed /\ Locks(t))

Spec == Init /\ [][Next]_vars
FairSpec == Spec /\ Fairness

-----------------------------------------------------------------------------
(* get_roots misses no variable of a frame that was announced before it     *)
(* took the lock, if the variable stays where it is until it is released,   *)
(* whatever the owner of the stack does meanwhile, and whatever frames have *)
(* been announced and left before.                                          *)
AnnouncedFound == ScanOver => must \subseteq found

(* scan_memory requires readable memory: only a range kept from a thread    *)
(* that has ended makes a scan read memory that is not mapped.              *)
FaultOnlyAfterEnd == Crashed => ended

(* doc of scan_memory: what it is asked to scan is readable.               *)
ScanReadable == ~ Crashed

(* Every call returns: the scan ends, and nobody waits for m_mutex for ever.*)
CallsReturn ==
  \A t \in Threads : (call[t].pc # "run") ~> (call[t].pc = "run" \/ Crashed)
=============================================================================
