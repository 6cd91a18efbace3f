---------------------------- MODULE SerialProofs ----------------------------
(***************************************************************************)
(* Proofs about the collector with SerialGCPolicy: the mutator waits in    *)
(* do_collection, so nothing moves while a collection looks at the heap.   *)
(***************************************************************************)
EXTENDS OneMutatorProofs, FiniteSetTheorems

USE DEF contains, get_space_num, flip_space

(* A variable, or a cell outside the space copied to: where a pointer may   *)
(* be that is still to be forwarded.                                        *)
Source(l) == l \in Location /\ (l \in Address => l[1] # w.to)

(* A location is settled when it does not lead to an object that is still   *)
(* to be moved, or is going to be visited, or is being visited.             *)
Settled(l) ==
  \/ ~ Managed(mem[l])
  \/ l \in Range(w.stack)
  \/ w.pc \in Forwarding /\ w.at = l

(* The members scan_memory reports of an object of n cells at p: all cells  *)
(* but the last                                                             *)
MembersSettled(p, n) == \A i \in 1 .. (n - 1) : Settled(Cell(p, i - 1))

(* The stack and the pointer being forwarded are in the old space, nobody   *)
(* has changed that pointer, and the members of what has been scanned are   *)
(* settled.                                                                 *)
TravInv ==
  w.pc \in {"trace"} \cup Forwarding =>
    /\ \A l \in Range(w.stack) : Source(l)
    /\ w.pc \in Forwarding =>
         /\ Source(w.at)
         /\ mem[w.at] = IF w.pc = "erase" THEN w.new ELSE w.val
    /\ \A p \in DOMAIN visited :
         /\ p[2] + m_metadata[visited[p]].size <= HeapSize
         /\ MembersSettled(p, m_metadata[visited[p]].size)
    /\ w.pc = "scan" =>
         w.i < old_data.size /\ MembersSettled(w.val, w.i + 1)
    /\ w.pc \in Moving \ {"scan"} => MembersSettled(w.val, old_data.size)

-----------------------------------------------------------------------------
(* The serial policy has one mutator.                                       *)
LEMMA SerialAlone == ASSUME Serial PROVE OneMutator
  BY PolicyAssumption DEF OneMutator

(* What push and pop do to the set of stacked locations                     *)
LEMMA StackRange ==
  ASSUME NEW S, NEW s \in Seq(S)
  PROVE  /\ Range(s) \subseteq S
         /\ \A x \in S : Range(<<x>> \o s) = {x} \cup Range(s)
         /\ s # <<>> => /\ Head(s) \in S
                        /\ Tail(s) \in Seq(S)
                        /\ Range(s) = {Head(s)} \cup Range(Tail(s))
  <1>1. Range(s) \subseteq S
    BY DEF Range
  <1>2. ASSUME NEW x \in S
        PROVE  Range(<<x>> \o s) = {x} \cup Range(s)
    <2> DEFINE c == <<x>> \o s
    <2>1. /\ Len(s) \in Nat /\ DOMAIN s = 1 .. Len(s)
          /\ DOMAIN c = 1 .. (Len(s) + 1) /\ c[1] = x
          /\ \A i \in 1 .. Len(s) : c[i + 1] = s[i]
      OBVIOUS
    <2> HIDE DEF c
    <2>2. \A i \in DOMAIN c : i = 1 \/ i - 1 \in DOMAIN s
      BY <2>1
    <2>3. \A i \in DOMAIN c : c[i] \in {x} \cup Range(s)
      BY <2>1, <2>2 DEF Range
    <2>4. \A i \in DOMAIN s : i + 1 \in DOMAIN c /\ c[i + 1] = s[i]
      BY <2>1
    <2>5. 1 \in DOMAIN c
      BY <2>1
    <2>6. Range(c) = {x} \cup Range(s)
      <3>1. x \in Range(c)
        BY <2>1, <2>5 DEF Range
      <3>2. \A i \in DOMAIN s : s[i] \in Range(c)
        BY <2>4 DEF Range
      <3>3. QED
        BY <2>3, <3>1, <3>2 DEF Range
    <2>7. QED
      BY <2>6 DEF c
  <1>3. ASSUME s # <<>>
        PROVE  /\ Head(s) \in S /\ Tail(s) \in Seq(S)
               /\ Range(s) = {Head(s)} \cup Range(Tail(s))
    <2> DEFINE h == Head(s)  r == Tail(s)
    <2>1. /\ h \in S /\ r \in Seq(S)
          /\ Len(s) \in Nat /\ DOMAIN s = 1 .. Len(s) /\ Len(s) > 0
          /\ DOMAIN r = 1 .. (Len(s) - 1) /\ h = s[1]
          /\ \A i \in 1 .. (Len(s) - 1) : r[i] = s[i + 1]
      BY <1>3
    <2> HIDE DEF h, r
    <2>2. \A i \in DOMAIN s : i = 1 \/ (i - 1 \in DOMAIN r /\ r[i - 1] = s[i])
      BY <2>1
    <2>3. \A i \in DOMAIN r : i + 1 \in DOMAIN s /\ r[i] = s[i + 1]
      BY <2>1
    <2>4. 1 \in DOMAIN s
      BY <2>1
    <2>5. Range(s) = {h} \cup Range(r)
      <3>1. \A i \in DOMAIN s : s[i] \in {h} \cup Range(r)
        BY <2>1, <2>2 DEF Range
      <3>2. \A i \in DOMAIN r : r[i] \in Range(s)
        BY <2>3 DEF Range
      <3>3. h \in Range(s)
        BY <2>1, <2>4 DEF Range
      <3>4. QED
        BY <3>1, <3>2, <3>3 DEF Range
    <2>6. QED
      BY <2>1, <2>5 DEF h, r
  <1>4. QED
    BY <1>1, <1>2, <1>3

(* compare_exchange succeeds: the location still holds what was read there. *)
LEMMA ExchangeTakes ==
  ASSUME IInv, TravInv, w.pc \in Forwarding \ {"erase"}, NEW p,
         mem' = Exchanged(p)
  PROVE  \A l \in Location : mem'[l] = IF l = w.at THEN p ELSE mem[l]
  BY DEF TravInv, Exchanged, Source, IInv, TypeOK

Traversing == {"trace"} \cup Forwarding

(* A cell of the old space that is settled stays so, whatever is moved.     *)
LEMMA SettledKept ==
  ASSUME IInv, DInv, TravInv, Collection, w.pc \in Traversing,
         w'.pc \in Traversing, NEW l \in Address, l[1] # w.to, Settled(l)
  PROVE  w'.to = w.to /\ Settled(l)'
  <1>0. /\ w \in WorkerState /\ mem \in [Location -> Value] /\ l \in Location
        /\ w.stack \in Seq(Location)
    BY WorkerType DEF IInv, TypeOK, Location, WorkerState
  <1>1. ASSUME w'.to = w.to, UNCHANGED m_metadata PROVE \A p : Managed(p)' = Managed(p)
    BY <1>1 DEF Managed
  <1>2. CASE \E r \in w.roots : TakeRoot(r)
    <2>1. /\ UNCHANGED <<mem, m_metadata>> /\ w'.to = w.to
          /\ w.pc = "trace" /\ w.stack = <<>>
      BY <1>0, <1>2 DEF TakeRoot, WorkerState
    <2>2. l \notin Range(w.stack)
      BY <2>1 DEF Range
    <2>3. QED
      BY <1>1, <2>1, <2>2 DEF Settled, Forwarding, Moving
  <1>3. CASE ReadTop
    <2> DEFINE x == Head(w.stack)
    <2>1. /\ UNCHANGED <<mem, m_metadata>> /\ w'.to = w.to /\ w.pc = "trace"
          /\ w.stack # <<>> /\ w'.stack = Tail(w.stack)
          /\ mem[x] \in FatPtrs => w'.pc = "forward" /\ w'.at = x
      BY <1>0, <1>3 DEF ReadTop, WorkerState
    <2>2. Range(w.stack) = {x} \cup Range(w'.stack)
      BY <1>0, <2>1, StackRange
    <2>3. mem[x] \notin FatPtrs => ~ Managed(mem[x])
      BY WorkerType DEF Managed, FatPtrs
    <2> HIDE DEF x
    <2>4. QED
      BY <1>1, <2>1, <2>2, <2>3 DEF Settled, Forwarding, Moving
  <1>4. CASE Ignore
    <2>1. /\ UNCHANGED <<mem, m_metadata>> /\ w'.to = w.to
          /\ w'.stack = w.stack /\ w.pc = "forward" /\ ~ Managed(w.val)
      BY <1>0, <1>4 DEF Ignore, WorkerState
    <2>2. mem[w.at] = w.val
      BY <2>1 DEF TravInv, Forwarding
    <2>3. QED
      BY <1>1, <2>1, <2>2 DEF Settled
  <1>5. CASE Scan \/ ScanMember \/ CopyReserve \/ CopyCheck
    <2>1. /\ UNCHANGED <<mem, m_metadata>> /\ w'.to = w.to /\ w'.at = w.at
          /\ w'.pc \in Forwarding /\ Range(w.stack) \subseteq Range(w'.stack)
      <3>1. CASE Scan \/ CopyCheck
        BY <1>0, <3>1 DEF Scan, CopyCheck, WorkerState, Forwarding, Moving
      <3>2. CASE CopyReserve
        <4> DEFINE p == <<w.to, At(w.to, old_data)>>
        <4>1. w' = [w EXCEPT !.pc = "check", !.new = p]
          BY <3>2 DEF CopyReserve
        <4> HIDE DEF p
        <4>2. QED
          BY <1>0, <3>2, <4>1 DEF CopyReserve, WorkerState, Forwarding, Moving
      <3>3. CASE ScanMember
        <4> DEFINE c == Cell(w.val, w.i)
        <4>1. c \in Location
          <5>1. /\ w.val \in DOMAIN m_metadata /\ w.i \in Nat
                /\ w.i < m_metadata[w.val].size
            BY <1>0, <3>3, WorkerType
               DEF ScanMember, Scanning, Moving, old_data, WorkerState
          <5>2. QED
            BY <5>1, ObjectCells DEF Location
        <4>2. w'.stack \in {<<c>> \o w.stack, w.stack}
          BY <1>0, <3>3 DEF ScanMember, WorkerState
        <4>3. Range(w.stack) \subseteq Range(w'.stack)
          <5> HIDE DEF c
          <5>1. Range(<<c>> \o w.stack) = {c} \cup Range(w.stack)
            BY <1>0, <4>1, StackRange
          <5>2. QED
            BY <4>2, <5>1
        <4>4. QED
          BY <1>0, <3>3, <4>3 DEF ScanMember, WorkerState, Forwarding, Moving
      <3>4. QED
        BY <1>5, <3>1, <3>2, <3>3
    <2>2. QED
      BY <1>1, <2>1 DEF Settled
  <1>6. CASE CopyEmplace \/ CopyWord
    <2>1. /\ w'.to = w.to /\ w'.stack = w.stack /\ w'.at = w.at
          /\ w'.pc \in Forwarding
      BY <1>0, <1>6 DEF CopyEmplace, CopyWord, WorkerState, Forwarding, Moving
    <2>2. mem'[l] = mem[l]
      <3>1. CASE CopyEmplace
        BY <3>1 DEF CopyEmplace
      <3>2. CASE CopyWord
        <4>1. w.new[1] = w.to
          BY <3>2 DEF CopyWord, DInv, MovedInv
        <4>2. QED
          BY <1>0, <3>2, <4>1, CopyWordHeap DEF Location
      <3>3. QED
        BY <1>6, <3>1, <3>2
    <2>3. \A p : Managed(p)' => Managed(p)
      <3>1. CASE CopyEmplace
        <4>1. w.new[1] = w.to /\ DOMAIN m_metadata' = DOMAIN m_metadata \cup {w.new}
          BY <3>1 DEF CopyEmplace, Emplaced, DInv, PendingInv
        <4>2. QED
          BY <2>1, <4>1 DEF Managed
      <3>2. CASE CopyWord
        BY <1>1, <2>1, <3>2 DEF CopyWord
      <3>3. QED
        BY <1>6, <3>1, <3>2
    <2>4. QED
      BY <2>1, <2>2, <2>3 DEF Settled, CopyEmplace, CopyWord
  <1>7. CASE Redirect \/ Swing
    <2> DEFINE p == IF w.pc = "swing" THEN w.new ELSE visited[w.val]
    <2>1. /\ w'.to = w.to /\ w'.stack = w.stack /\ w'.at = w.at
          /\ UNCHANGED m_metadata
          /\ w.pc \in Forwarding \ {"erase"} /\ mem' = Exchanged(p)
      BY <1>0, <1>7 DEF Redirect, Swing, WorkerState, Forwarding, Moving
    <2>2. p[1] = w.to
      BY <1>7 DEF Redirect, Swing, DInv, MovedInv
    <2> HIDE DEF p
    <2>3. mem'[l] = IF l = w.at THEN p ELSE mem[l]
      BY <1>0, <2>1, ExchangeTakes
    <2>4. ~ Managed(p)
      BY <2>2 DEF Managed
    <2>5. QED
      BY <1>1, <2>1, <2>3, <2>4 DEF Settled
  <1>8. CASE EraseOld
    <2>1. /\ w'.to = w.to /\ w'.stack = w.stack /\ UNCHANGED mem
          /\ w.pc = "erase" /\ DOMAIN m_metadata' \subseteq DOMAIN m_metadata
      BY <1>0, <1>8 DEF EraseOld, WorkerState, Restrict
    <2>2. mem[w.at] = w.new /\ w.new[1] = w.to
      BY <2>1 DEF TravInv, Forwarding, Moving, DInv, MovedInv
    <2>3. QED
      BY <2>1, <2>2 DEF Settled, Managed
  <1>9. CASE TaskStart \/ CopyAbort \/ Sweep \/ Finish
    BY <1>0, <1>9 DEF TaskStart, CopyAbort, Sweep, Finish, WorkerState,
       Traversing, Forwarding, Moving, IdleWorker
  <1>10. QED
    BY <1>2, <1>3, <1>4, <1>5, <1>6, <1>7, <1>8, <1>9 DEF Collection

(* What is settled stays so while the collection goes on.                   *)
LEMMA MembersKept ==
  ASSUME IInv, DInv, TravInv, Collection, w.pc \in Traversing,
         w'.pc \in Traversing
  PROVE  /\ w'.to = w.to
         /\ \A p \in Address, n \in Nat :
              p[1] # w.to /\ p[2] + n <= HeapSize /\ MembersSettled(p, n) =>
                MembersSettled(p, n)'
  <1>1. w'.to = w.to
    <2>1. w \in WorkerState
      BY WorkerType
    <2>2. ~ TaskStart /\ ~ Finish
      BY DEF TaskStart, Finish, IdleWorker, Traversing, Forwarding, Moving
    <2>3. CASE CopyReserve
      BY <2>1, <2>3 DEF CopyReserve, WorkerState
    <2>4. CASE ~ CopyReserve
      BY <2>1, <2>2, <2>4
         DEF Collection, TakeRoot, ReadTop, Redirect, Ignore, Scan, ScanMember,
             CopyCheck, CopyEmplace, CopyAbort, CopyWord, Swing, EraseOld,
             Sweep, WorkerState
    <2>5. QED
      BY <2>3, <2>4
  <1>2. ASSUME NEW p \in Address, NEW n \in Nat, p[1] # w.to,
               p[2] + n <= HeapSize, MembersSettled(p, n)
        PROVE  MembersSettled(p, n)'
    <2>1. ASSUME NEW i \in 1 .. (n - 1)
          PROVE  Settled(Cell(p, i - 1))'
      <3> DEFINE c == Cell(p, i - 1)
      <3>1. c \in Address /\ c[1] # w.to
        BY <1>2, SizeAssumption DEF Cell, Address
      <3>2. Settled(c)
        BY <1>2 DEF MembersSettled
      <3> HIDE DEF c
      <3>3. Settled(c)'
        BY <3>1, <3>2, SettledKept
      <3>4. QED
        BY <3>3 DEF c
    <2>2. QED
      BY <2>1 DEF MembersSettled
  <1>3. QED
    BY <1>1, <1>2

(* The locations to visit lie outside the space copied to.                  *)
LEMMA StackStep ==
  ASSUME IInv, TravInv, Collection, w.pc \in Traversing, w'.pc \in Traversing,
         w'.to = w.to
  PROVE  \A l \in Range(w'.stack) : Source(l)'
  <1>0. w \in WorkerState /\ w.stack \in Seq(Location) /\ w.roots \subseteq Stack
    BY WorkerType DEF WorkerState
  <1>1. \A l : Source(l)' = Source(l)
    BY DEF Source
  <1>2. \A l \in Range(w.stack) : Source(l)
    BY DEF TravInv, Traversing
  <1>3. CASE \E l \in w.roots : TakeRoot(l)
    <2>1. PICK l \in w.roots : TakeRoot(l)
      BY <1>3
    <2>2. w'.stack \in {<<l>>, <<>>}
      BY <1>0, <2>1 DEF TakeRoot, WorkerState
    <2>3. Source(l)
      BY <1>0, NameAssumption DEF Source, Location
    <2>4. Range(<<l>>) = {l} /\ Range(<<>>) = {}
      BY DEF Range
    <2>5. QED
      BY <1>1, <2>2, <2>3, <2>4
  <1>4. CASE ReadTop
    <2>1. w.stack # <<>> /\ w'.stack = Tail(w.stack)
      BY <1>0, <1>4 DEF ReadTop, WorkerState
    <2>2. Range(w'.stack) \subseteq Range(w.stack)
      BY <1>0, <2>1, StackRange
    <2>3. QED
      BY <1>1, <1>2, <2>2
  <1>5. CASE ScanMember
    <2> DEFINE c == Cell(w.val, w.i)
    <2>1. /\ w.val \in DOMAIN m_metadata /\ w.val[1] # w.to
          /\ w.i \in Nat /\ w.i < m_metadata[w.val].size
      BY <1>0, <1>5, WorkerType
         DEF ScanMember, Scanning, Moving, old_data, WorkerState
    <2>2. c \in Location /\ Source(c)
      BY <2>1, ObjectCells DEF Source, Location, Cell
    <2>3. w'.stack \in {<<c>> \o w.stack, w.stack}
      BY <1>0, <1>5 DEF ScanMember, WorkerState
    <2> HIDE DEF c
    <2>4. Range(<<c>> \o w.stack) = {c} \cup Range(w.stack)
      BY <1>0, <2>2, StackRange
    <2>5. QED
      BY <1>1, <1>2, <2>2, <2>3, <2>4
  <1>6. ASSUME UNCHANGED w.stack PROVE \A l \in Range(w'.stack) : Source(l)'
    BY <1>1, <1>2, <1>6
  <1>7. CASE Redirect \/ Ignore \/ Scan \/ CopyCheck \/ CopyEmplace \/ CopyWord
             \/ Swing \/ EraseOld \/ CopyAbort \/ Sweep
    BY <1>0, <1>6, <1>7
       DEF Redirect, Ignore, Scan, CopyCheck, CopyEmplace, CopyWord, Swing,
           EraseOld, CopyAbort, Sweep, WorkerState
  <1>8. CASE CopyReserve
    BY <1>0, <1>6, <1>8 DEF CopyReserve, WorkerState
  <1>9. CASE TaskStart \/ Finish
    BY <1>9 DEF TaskStart, Finish, IdleWorker, Traversing, Forwarding, Moving
  <1>10. QED
    BY <1>3, <1>4, <1>5, <1>7, <1>8, <1>9 DEF Collection

(* The pointer being forwarded stays what was read until it is swung.       *)
LEMMA AtStep ==
  ASSUME IInv, DInv, TravInv, Collection, w.pc \in Traversing,
         w'.pc \in Forwarding, w'.to = w.to
  PROVE  /\ Source(w.at)'
         /\ mem'[w'.at] = IF w'.pc = "erase" THEN w'.new ELSE w'.val
  <1>0. /\ w \in WorkerState /\ mem \in [Location -> Value]
        /\ w.stack \in Seq(Location)
    BY WorkerType DEF IInv, TypeOK, WorkerState
  <1>1. \A l : Source(l)' = Source(l)
    BY DEF Source
  <1>2. CASE ReadTop
    <2> DEFINE x == Head(w.stack)
    <2>1. /\ UNCHANGED mem /\ w.stack # <<>> /\ w.pc = "trace"
      BY <1>2 DEF ReadTop
    <2>2. mem[x] \in FatPtrs
      BY <1>0, <1>2, <2>1 DEF ReadTop, Forwarding, Moving, WorkerState
    <2>3. w'.at = x /\ w'.val = mem[x] /\ w'.pc = "forward"
      BY <1>0, <1>2, <2>2 DEF ReadTop, WorkerState
    <2>4. x \in Range(w.stack)
      BY <1>0, <2>1, StackRange
    <2>5. Source(x)
      BY <2>1, <2>4 DEF TravInv
    <2> HIDE DEF x
    <2>6. Source(w.at)'
      BY <2>3, <2>5 DEF Source
    <2>7. QED
      BY <2>1, <2>3, <2>6
  <1>3. ASSUME w.pc \in Forwarding, w'.at = w.at PROVE Source(w.at)'
    BY <1>3 DEF TravInv, Source
  <1>4. CASE Scan \/ ScanMember \/ CopyReserve \/ CopyCheck \/ CopyEmplace
    <2>1. /\ UNCHANGED mem /\ w.pc \in Forwarding \ {"erase"}
      BY <1>4 DEF Scan, ScanMember, CopyReserve, CopyCheck, CopyEmplace,
                  Forwarding, Moving
    <2>2. w'.pc # "erase" /\ w'.at = w.at /\ w'.val = w.val
      <3>1. CASE CopyReserve
        <4> DEFINE p == <<w.to, At(w.to, old_data)>>
        <4>1. w' = [w EXCEPT !.pc = "check", !.new = p]
          BY <3>1 DEF CopyReserve
        <4> HIDE DEF p
        <4>2. QED
          BY <1>0, <4>1 DEF WorkerState
      <3>2. CASE ~ CopyReserve
        BY <1>0, <1>4, <3>2 DEF Scan, ScanMember, CopyCheck, CopyEmplace,
                                WorkerState
      <3>3. QED
        BY <3>1, <3>2
    <2>3. mem[w.at] = w.val
      BY <2>1 DEF TravInv
    <2>4. QED
      BY <1>3, <2>1, <2>2, <2>3
  <1>5. CASE CopyWord
    <2>1. /\ w.pc = "copy" /\ w'.pc \in {"copy", "swing"}
          /\ w'.at = w.at /\ w'.val = w.val
          /\ \A l \in Stack : mem'[l] = mem[l]
          /\ \A l \in Address : l[1] # w.new[1] => mem'[l] = mem[l]
      BY <1>5, CopyWordHeap
    <2>2. w.new[1] = w.to
      BY <2>1 DEF DInv, MovedInv
    <2>3. /\ w.at \in Stack \cup Address /\ mem[w.at] = w.val
          /\ w.at \in Address => w.at[1] # w.to
      BY <2>1 DEF TravInv, Source, Forwarding, Moving, Location
    <2>4. mem'[w.at] = w.val
      BY <2>1, <2>2, <2>3
    <2>5. QED
      BY <1>3, <2>1, <2>4 DEF Forwarding, Moving
  <1>6. CASE Swing
    <2>1. /\ w.pc = "swing" /\ w'.pc = "erase" /\ w'.at = w.at
          /\ w'.new = w.new /\ mem' = Exchanged(w.new)
      BY <1>0, <1>6 DEF Swing, WorkerState
    <2>2. w.pc \in Forwarding \ {"erase"} /\ w.at \in Location
      BY <2>1 DEF TravInv, Source, Forwarding, Moving
    <2>3. mem'[w.at] = w.new
      BY <2>1, <2>2, ExchangeTakes
    <2>4. QED
      BY <1>3, <2>1, <2>2, <2>3
  <1>7. CASE TaskStart \/ (\E l \in w.roots : TakeRoot(l)) \/ Ignore \/ Redirect
             \/ CopyAbort \/ EraseOld \/ Sweep \/ Finish
    <2>1. ~ TaskStart /\ ~ Finish
      BY DEF TaskStart, Finish, IdleWorker, Traversing, Forwarding, Moving
    <2>2. w'.pc \in {"trace", "aborted", "swept"}
      BY <1>0, <1>7, <2>1 DEF TakeRoot, Ignore, Redirect, CopyAbort, EraseOld,
                              Sweep, WorkerState
    <2>3. QED
      BY <2>2 DEF Forwarding, Moving
  <1>8. QED
    BY <1>2, <1>4, <1>5, <1>6, <1>7 DEF Collection

(* Scanning settles one member after the other.                             *)
LEMMA ScanStep ==
  ASSUME IInv, DInv, TravInv, Collection, w.pc \in Traversing,
         w'.pc \in Moving
  PROVE  /\ w'.pc = "scan" =>
              w'.i < old_data'.size /\ MembersSettled(w.val, w.i + 1)'
         /\ w'.pc # "scan" => MembersSettled(w.val, old_data.size)'
  <1>0. w \in WorkerState /\ w.stack \in Seq(Location)
    BY WorkerType DEF WorkerState
  <1>1. /\ w'.to = w.to
        /\ \A p \in Address, n \in Nat :
              p[1] # w.to /\ p[2] + n <= HeapSize /\ MembersSettled(p, n) =>
                MembersSettled(p, n)'
    BY MembersKept DEF Traversing, Forwarding
  <1>2. CASE Scan
    <2>1. /\ w'.pc = "scan" /\ w'.i = 0 /\ w'.val = w.val
          /\ w.val \in DOMAIN m_metadata /\ UNCHANGED m_metadata
      BY <1>0, <1>2 DEF Scan, WorkerState, Managed
    <2>2. MembersSettled(w.val, w.i + 1)'
      BY <2>1 DEF MembersSettled
    <2>3. w'.i < old_data'.size
      BY <2>1, WorkerType DEF old_data
    <2>4. QED
      BY <2>1, <2>2, <2>3
  <1>3. CASE ~ Scan
    <2>1. /\ w.pc \in Moving /\ w'.val = w.val
          /\ \/ UNCHANGED m_metadata
             \/ CopyEmplace
      <3>1. CASE CopyReserve
        BY <1>0, <3>1 DEF CopyReserve, WorkerState, Moving
      <3>2. CASE CopyEmplace
        BY <1>0, <3>2 DEF CopyEmplace, WorkerState, Moving
      <3>3. CASE ScanMember \/ CopyCheck \/ CopyWord \/ Swing
        BY <1>0, <3>3 DEF ScanMember, CopyCheck, CopyWord, Swing, WorkerState,
                          Moving
      <3>4. ~ TaskStart /\ ~ Finish
        BY DEF TaskStart, Finish, IdleWorker, Traversing, Forwarding, Moving
      <3>5. CASE (\E l \in w.roots : TakeRoot(l)) \/ ReadTop \/ Redirect
                 \/ Ignore \/ CopyAbort \/ EraseOld \/ Sweep
        BY <1>0, <3>5 DEF TakeRoot, ReadTop, Redirect, Ignore, CopyAbort,
                          EraseOld, Sweep, WorkerState, Moving
      <3>6. QED
        BY <1>3, <3>1, <3>2, <3>3, <3>4, <3>5 DEF Collection
    <2>2. PICK p : p = w.val
      OBVIOUS
    <2>3. PICK n : n = IF w.pc = "scan" THEN w.i + 1 ELSE old_data.size
      OBVIOUS
    <2>4. /\ p \in DOMAIN m_metadata /\ p[1] # w.to /\ p \in Address
          /\ old_data.size \in Nat /\ old_data.size > 0
          /\ p[2] \in Nat /\ p[2] + old_data.size <= HeapSize
      BY <2>1, <2>2, WorkerType DEF old_data, IInv, ObjectInv
    <2>5. /\ n \in Nat /\ n <= old_data.size /\ MembersSettled(p, n)
      BY <1>0, <2>1, <2>2, <2>3, <2>4
         DEF TravInv, Forwarding, Moving, WorkerState
    <2>6. MembersSettled(p, n)'
      BY <1>1, <2>4, <2>5, SizeAssumption
    <2>7. old_data' = old_data
      <3>1. CASE CopyEmplace
        BY <2>1, <2>2, <2>4, <3>1 DEF CopyEmplace, Emplaced, old_data
      <3>2. CASE UNCHANGED m_metadata
        BY <2>1, <3>2 DEF old_data
      <3>3. QED
        BY <2>1, <3>1, <3>2
    <2>8. CASE ScanMember
      <3>1. /\ w.pc = "scan" /\ w'.pc = "scan" /\ w'.i = w.i + 1 /\ w.i \in Nat
            /\ w.i + 1 < old_data.size /\ n = w.i + 1
            /\ w'.stack = IF mem[Cell(p, w.i)] \in FatPtrs
                          THEN <<Cell(p, w.i)>> \o w.stack ELSE w.stack
            /\ UNCHANGED <<mem, m_metadata>>
        BY <1>0, <2>2, <2>3, <2>8 DEF ScanMember, Scanning, WorkerState
      <3>2. PICK c : c = Cell(p, w.i)
        OBVIOUS
      <3>3. c = Cell(p, n - 1)
        BY <3>1, <3>2
      <3>4. c \in Location
        BY <2>2, <2>4, <3>1, <3>2, ObjectCells DEF Location, old_data
      <3>5. c \in Range(w'.stack) \/ ~ Managed(mem[c])
        <4>1. CASE mem[c] \in FatPtrs
          <5>1. Range(<<c>> \o w.stack) = {c} \cup Range(w.stack)
            BY <1>0, <3>4, StackRange
          <5>2. QED
            BY <3>1, <3>2, <4>1, <5>1
        <4>2. CASE mem[c] \notin FatPtrs
          BY <4>2, WorkerType DEF Managed, FatPtrs
        <4>3. QED
          BY <4>1, <4>2
      <3>6. Settled(c)'
        BY <1>1, <3>1, <3>5 DEF Settled, Managed
      <3>7. \A i \in 1 .. n : Settled(Cell(p, i - 1))'
        <4>1. ASSUME NEW i \in 1 .. n PROVE Settled(Cell(p, i - 1))'
          <5>1. CASE i = n
            BY <3>3, <3>6, <5>1
          <5>2. CASE i # n
            <6>1. i \in 1 .. (n - 1)
              BY <2>5, <5>2
            <6>2. QED
              BY <2>6, <6>1 DEF MembersSettled
          <5>3. QED
            BY <5>1, <5>2
        <4>2. QED
          BY <4>1
      <3>8. MembersSettled(p, n + 1)'
        BY <2>5, <3>7 DEF MembersSettled
      <3>9. p = w'.val /\ n + 1 = w'.i + 1
        BY <2>1, <2>2, <3>1
      <3>10. MembersSettled(w.val, w.i + 1)'
        BY <3>8, <3>9
      <3>11. QED
        BY <2>7, <3>1, <3>10
    <2>9. CASE ~ ScanMember
      <3>1. w'.pc # "scan" /\ old_data.size <= n
        <4>1. CASE CopyReserve
          BY <1>0, <2>3, <2>4, <4>1 DEF CopyReserve, Scanning, WorkerState
        <4>2. CASE CopyEmplace \/ CopyCheck \/ CopyWord \/ Swing
          <5>1. w.pc \in {"emplace", "check", "copy", "swing"}
            BY <4>2 DEF CopyEmplace, CopyCheck, CopyWord, Swing
          <5>2. w'.pc \in {"copy", "emplace", "swing", "erase"}
            BY <1>0, <4>2 DEF CopyEmplace, CopyCheck, CopyWord, Swing, WorkerState
          <5>3. QED
            BY <2>3, <2>4, <5>1, <5>2
        <4>3. ~ TaskStart /\ ~ Finish
          BY DEF TaskStart, Finish, IdleWorker, Traversing, Forwarding, Moving
        <4>4. CASE (\E l \in w.roots : TakeRoot(l)) \/ ReadTop \/ Redirect
                   \/ Ignore \/ CopyAbort \/ EraseOld \/ Sweep
          BY <1>0, <4>4 DEF TakeRoot, ReadTop, Redirect, Ignore, CopyAbort,
                            EraseOld, Sweep, WorkerState, Moving
        <4>5. QED
          BY <1>3, <2>9, <4>1, <4>2, <4>3, <4>4 DEF Collection
      <3>2. n = old_data.size
        BY <2>4, <2>5, <3>1
      <3>3. p = w'.val /\ n = old_data'.size
        BY <2>1, <2>2, <2>7, <3>2
      <3>4. MembersSettled(w.val, old_data.size)'
        BY <2>6, <3>3
      <3>5. QED
        BY <3>1, <3>4
    <2>10. QED
      BY <2>8, <2>9
  <1>4. QED
    BY <1>2, <1>3

(* What is known of the objects that have been moved                        *)
LEMMA VisitedStep ==
  ASSUME IInv, DInv, TravInv, Collection, w.pc \in Traversing,
         w'.pc \in Traversing
  PROVE  \A p \in DOMAIN visited' :
           /\ p[2] + m_metadata'[visited'[p]].size <= HeapSize
           /\ MembersSettled(p, m_metadata[visited[p]].size)'
  <1>0. w \in WorkerState
    BY WorkerType
  <1>1. /\ w'.to = w.to
        /\ \A p \in Address, n \in Nat :
              p[1] # w.to /\ p[2] + n <= HeapSize /\ MembersSettled(p, n) =>
                MembersSettled(p, n)'
    BY MembersKept
  <1>2. ASSUME NEW p \in Address, NEW n \in Nat, n > 0, p[1] # w.to,
               p \in DOMAIN visited', m_metadata'[visited'[p]].size = n,
               p[2] + n <= HeapSize, MembersSettled(p, n)
        PROVE  /\ p[2] + m_metadata'[visited'[p]].size <= HeapSize
               /\ MembersSettled(p, m_metadata[visited[p]].size)'
    <2>1. MembersSettled(p, n)'
      BY <1>1, <1>2
    <2>2. n = m_metadata'[visited'[p]].size
      BY <1>2
    <2>3. QED
      BY <1>2, <2>1, <2>2
  <1>3. ASSUME NEW p \in DOMAIN visited
        PROVE  /\ p \in Address /\ p[1] # w.to
               /\ visited[p] \in DOMAIN m_metadata /\ visited[p][1] = w.to
               /\ m_metadata[visited[p]].size \in Nat
               /\ m_metadata[visited[p]].size > 0
               /\ p[2] + m_metadata[visited[p]].size <= HeapSize
               /\ MembersSettled(p, m_metadata[visited[p]].size)
    BY WorkerType DEF IInv, TypeOK, DInv, MovedInv, TravInv, Traversing
  <1>4. ASSUME UNCHANGED visited,
               \A o \in DOMAIN m_metadata : o[1] = w.to => m_metadata'[o] = m_metadata[o]
        PROVE  \A p \in DOMAIN visited' :
                 /\ p[2] + m_metadata'[visited'[p]].size <= HeapSize
                 /\ MembersSettled(p, m_metadata[visited[p]].size)'
    BY <1>2, <1>3, <1>4
  <1>5. CASE EraseOld
    <2>1. /\ w.pc = "erase"
          /\ DOMAIN visited' = DOMAIN visited \cup {w.val}
          /\ \A p \in DOMAIN visited : visited'[p] = visited[p]
          /\ w.val \notin DOMAIN visited => visited'[w.val] = w.new
      BY <1>5 DEF EraseOld, Emplaced
    <2>2. /\ w.val \in DOMAIN m_metadata /\ w.val \in Address /\ w.val[1] # w.to
          /\ w.val \notin DOMAIN visited
          /\ w.new \in DOMAIN m_metadata /\ w.new[1] = w.to
          /\ m_metadata[w.new] = old_data
          /\ old_data.size \in Nat /\ old_data.size > 0
          /\ w.val[2] + old_data.size <= HeapSize
      BY <2>1, WorkerType DEF DInv, MovedInv, Moving, IInv, ObjectInv, old_data
    <2>3. \A o \in DOMAIN m_metadata : o[1] = w.to => m_metadata'[o] = m_metadata[o]
      BY <1>5, <2>2 DEF EraseOld, Restrict
    <2>4. MembersSettled(w.val, old_data.size)
      BY <2>1 DEF TravInv, Forwarding, Moving
    <2>5. ASSUME NEW p \in DOMAIN visited'
          PROVE  /\ p[2] + m_metadata'[visited'[p]].size <= HeapSize
                 /\ MembersSettled(p, m_metadata[visited[p]].size)'
      <3>1. CASE p \in DOMAIN visited
        BY <1>2, <1>3, <2>1, <2>3, <3>1
      <3>2. CASE p = w.val
        BY <1>2, <2>1, <2>2, <2>3, <2>4, <3>2
      <3>3. QED
        BY <2>1, <3>1, <3>2
    <2>6. QED
      BY <2>5
  <1>6. CASE CopyEmplace
    <2>1. /\ UNCHANGED visited
          /\ \A o \in DOMAIN m_metadata : m_metadata'[o] = m_metadata[o]
      BY <1>6 DEF CopyEmplace, Emplaced
    <2>2. QED
      BY <1>4, <2>1
  <1>7. CASE (\E l \in w.roots : TakeRoot(l)) \/ ReadTop \/ Redirect \/ Ignore
             \/ Scan \/ ScanMember \/ CopyReserve \/ CopyCheck \/ CopyAbort
             \/ CopyWord \/ Swing
    <2>1. UNCHANGED <<visited, m_metadata>>
      BY <1>7 DEF TakeRoot, ReadTop, Redirect, Ignore, Scan, ScanMember,
                  CopyReserve, CopyCheck, CopyAbort, CopyWord, Swing
    <2>2. QED
      BY <1>4, <2>1
  <1>8. ~ TaskStart /\ ~ Finish /\ ~ Sweep
    <2>1. ~ TaskStart /\ ~ Finish
      BY DEF TaskStart, Finish, IdleWorker, Traversing, Forwarding, Moving
    <2>2. ~ Sweep
      BY <1>0 DEF Sweep, WorkerState, Traversing, Forwarding, Moving
    <2>3. QED
      BY <2>1, <2>2
  <1>9. QED
    BY <1>5, <1>6, <1>7, <1>8 DEF Collection

(* Every step preserves the invariant of the traversal.                     *)
LEMMA StepTravInv ==
  ASSUME Serial, IInv, SerialInv, DInv, TravInv, [Next]_vars
  PROVE  TravInv'
  <1>1. CASE \E t \in Threads : Mutator(t)
    <2>1. PICK t \in Threads : Mutator(t)
      BY <1>1
    <2>2. w.pc = "idle"
      BY <2>1, SerialQuiet
    <2>3. UNCHANGED w
      BY <2>1 DEF Mutator, Call, Use, CallAlloc, CallCollect, FrontCheck,
         Reserve, NoRoom, Emplace, Construct, Catch, CollectLoop,
         StartCollection, SkipCollection, LoadPtr, ClearSlot, StorePtr,
         WriteField, WriteData, Uses, collection
    <2>4. QED
      BY <2>2, <2>3 DEF TravInv, Forwarding, Moving
  <1>2. CASE Collection
    <2> SUFFICES ASSUME w'.pc \in Traversing PROVE TravInv'
      BY DEF TravInv, Traversing
    <2>1. CASE w.pc \in Traversing
      <3>1. w'.to = w.to
        BY <1>2, <2>1, MembersKept
      <3>2. \A l \in Range(w'.stack) : Source(l)'
        BY <1>2, <2>1, <3>1, StackStep
      <3>3. w'.pc \in Forwarding =>
              /\ Source(w.at)'
              /\ mem'[w'.at] = IF w'.pc = "erase" THEN w'.new ELSE w'.val
        BY <1>2, <2>1, <3>1, AtStep
      <3>4. \A p \in DOMAIN visited' :
              /\ p[2] + m_metadata'[visited'[p]].size <= HeapSize
              /\ MembersSettled(p, m_metadata[visited[p]].size)'
        BY <1>2, <2>1, VisitedStep
      <3>5. w'.pc \in Moving =>
              /\ w'.pc = "scan" => w'.i < old_data'.size /\ MembersSettled(w.val, w.i + 1)'
              /\ w'.pc # "scan" => MembersSettled(w.val, old_data.size)'
        BY <1>2, <2>1, ScanStep
      <3>6. QED
        BY <3>2, <3>3, <3>4, <3>5 DEF TravInv, Moving
    <2>2. CASE w.pc \notin Traversing
      <3>1. TaskStart
        <4>1. ~ Finish
          BY DEF Finish, IdleWorker, Traversing, Forwarding, Moving
        <4>2. QED
          BY <1>2, <2>2, <4>1
             DEF Collection, TakeRoot, ReadTop, Redirect, Ignore, Scan,
                 ScanMember, CopyReserve, CopyCheck, CopyEmplace, CopyAbort,
                 CopyWord, Swing, EraseOld, Sweep, Traversing, Forwarding,
                 Moving
      <3>2. w'.pc = "trace" /\ w'.stack = <<>> /\ visited' = <<>>
        BY <3>1 DEF TaskStart, IdleWorker
      <3>3. Range(w'.stack) = {}
        BY <3>2 DEF Range
      <3>4. QED
        BY <3>2, <3>3 DEF TravInv, Forwarding, Moving
    <2>3. QED
      BY <2>1, <2>2
  <1>3. CASE UNCHANGED vars
    BY <1>3 DEF vars, TravInv, Source, MembersSettled, Settled, Managed, old_data
  <1>4. QED
    BY <1>1, <1>2, <1>3 DEF Next

(* The traversal misses no member that scan_memory reports: whatever the    *)
(* program has stored in its objects, when the collection is about to sweep *)
(* nothing it has moved leads to an object left behind.                     *)
THEOREM TraversalReachesAll == ASSUME Serial PROVE Spec => []TraversalComplete
  <1> DEFINE Inv == IInv /\ SerialInv /\ DInv /\ TravInv
  <1>1. Inv /\ [Next]_vars => Inv'
    BY SerialAlone, StepIInv, SerialStep, StepDInv, StepTravInv
  <1>2. Init => Inv
    <2>1. Init => SerialInv /\ TravInv
      BY DEF Init, SerialInv, TravInv, IdleWorker, Forwarding, Moving
    <2>2. QED
      BY <2>1, InitIInv, InitDInv
  <1>3. Inv => TraversalComplete
    <2> SUFFICES ASSUME Inv, w.pc = "trace", w.stack = <<>>,
                        NEW p \in DOMAIN visited,
                        NEW i \in 1 .. (m_metadata[visited[p]].size - 1)
                 PROVE  ~ Managed(mem[Cell(p, i - 1)])
      BY DEF TraversalComplete
    <2>1. Settled(Cell(p, i - 1))
      BY DEF TravInv, MembersSettled
    <2>2. Range(w.stack) = {}
      BY DEF Range
    <2>3. QED
      BY <2>1, <2>2 DEF Settled, Forwarding, Moving
  <1>4. QED
    BY <1>1, <1>2, <1>3, PTL DEF Spec

-----------------------------------------------------------------------------
(* sizeof is a multiple of alignof.                                         *)
AlignedRequests == \A r \in Requests : r.size % r.align = 0

CellsOf(objects) == UNION {Cells(o, m_metadata[o].size) : o \in objects}
ObjectsIn(s) == {o \in DOMAIN m_metadata : o[1] = s}

(* The cells of the objects, those of one that has its copy already counted *)
(* once                                                                     *)
Used ==
  CellsOf(DOMAIN m_metadata) \
    (IF w.pc \in {"copy", "swing", "erase"} THEN Cells(w.val, old_data.size)
     ELSE {})

(* Cells in use in the space copied to, and those the next copy will have   *)
Placing == IF w.pc \in {"check", "emplace"} THEN old_data.size ELSE 0
Taken == Cardinality(CellsOf(ObjectsIn(m_space_num))) + Placing

(* The objects never have more cells than mutators may use, padding at most *)
(* doubles what copies need, and the space handed out next is empty.        *)
CapacityInv ==
  /\ \A o \in DOMAIN m_metadata : m_metadata[o].align <= m_metadata[o].size
  /\ Cardinality(Used) <= MaxAlloc
  /\ \A o \in ObjectsIn(m_space_num) :
       /\ o[2] + m_metadata[o].size <= m_nexts[m_space_num]
       /\ w.pc \in {"check", "emplace"} =>
            o[2] + m_metadata[o].size <= w.new[2]
  /\ m_collect_result = "pending" =>
       /\ m_nexts[m_space_num] <= 2 * Taken
       /\ w.pc \in {"check", "emplace"} => m_nexts[m_space_num] < 2 * Taken
  /\ m_collect_result # "pending" => DOMAIN m_metadata = ObjectsIn(m_space_num)
  /\ w.pc # "aborted"
  /\ \A t \in Threads : th[t].pc = "emplace" => m_nexts[m_space_num] <= MaxAlloc
  /\ NoHeapCorruption

(* n cells are n.                                                           *)
LEMMA CellsCount ==
  ASSUME NEW p \in Address, NEW n \in Nat
  PROVE  IsFiniteSet(Cells(p, n)) /\ Cardinality(Cells(p, n)) = n
  <1> DEFINE a == p[2]  b == p[2] + n - 1
  <1>1. a \in Int /\ b \in Int
    BY SizeAssumption DEF Address
  <1>2. IsFiniteSet(a .. b) /\ Cardinality(a .. b) = IF a > b THEN 0 ELSE b - a + 1
    BY <1>1, FS_Interval
  <1>3. IsFiniteSet({p[1]}) /\ Cardinality({p[1]}) = 1
    BY FS_Singleton
  <1>4. Cardinality(a .. b) = n
    BY <1>1, <1>2
  <1> HIDE DEF a, b
  <1>5. /\ IsFiniteSet({p[1]} \X (a .. b))
        /\ Cardinality({p[1]} \X (a .. b)) =
             Cardinality({p[1]}) * Cardinality(a .. b)
    BY <1>2, <1>3, FS_Product
  <1>6. Cardinality({p[1]} \X (a .. b)) = n
    BY <1>3, <1>4, <1>5
  <1>7. QED
    BY <1>5, <1>6 DEF Cells, a, b

(* The heap is finite.                                                      *)
LEMMA HeapFinite == IsFiniteSet(Address)
  <1>1. IsFiniteSet(0 .. HeapSize - 1)
    BY SizeAssumption, FS_Interval
  <1>2. IsFiniteSet({0, 1})
    <2>1. IsFiniteSet({0})
      BY FS_Singleton
    <2>2. IsFiniteSet({0} \cup {1})
      BY <2>1, FS_AddElement
    <2>3. {0, 1} = {0} \cup {1}
      OBVIOUS
    <2>4. QED
      BY <2>2, <2>3
  <1>3. QED
    BY <1>1, <1>2, FS_Product DEF Address

(* The cells of objects are in the heap, and there are finitely many.       *)
LEMMA CellsOfObjects ==
  ASSUME IInv, NEW S, S \subseteq DOMAIN m_metadata
  PROVE  /\ CellsOf(S) \subseteq Address
         /\ IsFiniteSet(CellsOf(S)) /\ Cardinality(CellsOf(S)) \in Nat
         /\ \A o \in S : Cells(o, m_metadata[o].size) \subseteq CellsOf(S)
  <1>1. CellsOf(S) \subseteq Address
    BY ObjectCells DEF CellsOf
  <1>2. IsFiniteSet(CellsOf(S)) /\ Cardinality(CellsOf(S)) \in Nat
    BY <1>1, HeapFinite, FS_Subset, FS_CardinalityType
  <1>3. QED
    BY <1>1, <1>2 DEF CellsOf

(* Cells of one object are in none that is apart from it.                   *)
LEMMA ApartCells ==
  ASSUME NEW p, NEW q, NEW n \in Nat, NEW m \in Nat, p[2] \in Nat, q[2] \in Nat,
         p[1] # q[1] \/ Apart(p, n, q, m)
  PROVE  Cells(p, n) \cap Cells(q, m) = {}
  BY DEF Cells, Apart

(* Room for an object of aligned size, with its padding                     *)
LEMMA AlignedSize ==
  ASSUME NEW r \in Metadata, r.size > 0, r.size % r.align = 0
  PROVE  r.align <= r.size
  <1>1. r.size \in Nat /\ r.align \in Nat \ {0}
    BY DEF Metadata
  <1>2. ASSUME r.size < r.align PROVE r.size % r.align = r.size
    BY <1>1, <1>2
  <1>3. QED
    BY <1>1, <1>2

(* What is reserved, padding included, is less than twice as large as the   *)
(* request.                                                                 *)
LEMMA PaddedEnd ==
  ASSUME TypeOK, NEW s \in {0, 1}, NEW r \in Metadata, r.align <= r.size
  PROVE  /\ At(s, r) \in Nat /\ At(s, r) >= m_nexts[s]
         /\ End(s, r) \in Nat /\ End(s, r) < m_nexts[s] + 2 * r.size
  <1>1. m_nexts[s] \in Nat /\ r.align \in Nat \ {0} /\ r.size \in Nat
    BY SizeAssumption DEF TypeOK, Metadata
  <1>2. m_nexts[s] % r.align \in 0 .. (r.align - 1)
    BY <1>1
  <1>3. Padding(m_nexts[s], r.align) \in 0 .. (r.align - 1)
    BY <1>1, <1>2 DEF Padding
  <1>4. QED
    BY <1>1, <1>3 DEF At, End

(* Adding a set to those that are joined                                    *)
LEMMA UnionAdd ==
  ASSUME NEW X, NEW e
  PROVE  UNION (X \cup {e}) = (UNION X) \cup e
  <1>1. ASSUME NEW x, x \in UNION (X \cup {e})
        PROVE  x \in (UNION X) \cup e
    <2>1. PICK y \in X \cup {e} : x \in y
      BY <1>1
    <2>2. CASE y \in X
      BY <2>1, <2>2
    <2>3. CASE y = e
      BY <2>1, <2>3
    <2>4. QED
      BY <2>2, <2>3
  <1>2. ASSUME NEW x, x \in (UNION X) \cup e
        PROVE  x \in UNION (X \cup {e})
    <2>1. CASE x \in e
      <3>1. e \in X \cup {e}
        OBVIOUS
      <3>2. QED
        BY <2>1, <3>1
    <2>2. CASE x \in UNION X
      <3>1. PICK y \in X : x \in y
        BY <2>2
      <3>2. y \in X \cup {e}
        OBVIOUS
      <3>3. QED
        BY <3>1, <3>2
    <2>3. QED
      BY <1>2, <2>1, <2>2
  <1>3. QED
    BY <1>1, <1>2

(* A step that places and drops nothing leaves the room there is.           *)
LEMMA CapacityKept ==
  ASSUME CapacityInv,
         UNCHANGED <<m_nexts, m_space_num, m_metadata, m_collect_result>>,
         Used' = Used, Placing' = Placing,
         w'.pc \in {"check", "emplace"} =>
           w.pc \in {"check", "emplace"} /\ w'.new = w.new,
         w'.pc # "aborted",
         \A t \in Threads : th'[t].pc = "emplace" => th[t].pc = "emplace",
         NoHeapCorruption'
  PROVE  CapacityInv'
  <1>1. ObjectsIn(m_space_num)' = ObjectsIn(m_space_num)
    BY DEF ObjectsIn
  <1>2. Taken' = Taken
    BY <1>1 DEF Taken, CellsOf
  <1>3. QED
    BY <1>1, <1>2 DEF CapacityInv

(* With nothing but its own objects in its space, behind which it reserves, *)
(* a mutator meets no overlap.                                              *)
LEMMA CapacityReserve ==
  ASSUME Serial, IInv, SerialInv, CapacityInv, NEW t \in Threads, Reserve(t)
  PROVE  CapacityInv'
  <1> DEFINE r == th[t].req  p == <<m_space_num, At(m_space_num, r)>>
  <1>0. /\ TypeOK /\ th \in [Threads -> ThreadState] /\ w.pc = "idle"
        /\ \A u \in Threads : u = t
    BY SerialAlone, SerialQuiet DEF IInv, TypeOK, OneMutator, Mutator, Call
  <1>1. m_collect_result # "pending"
    BY <1>0 DEF Reserve, SerialInv
  <1>2. /\ r \in Metadata /\ r.size \in Nat /\ r.size > 0
        /\ m_space_num \in {0, 1} /\ m_nexts[m_space_num] \in Nat
    BY <1>0, RequestType, WorkerType DEF Reserve, IInv, ThreadInv
  <1>3. /\ At(m_space_num, r) \in Nat /\ At(m_space_num, r) >= m_nexts[m_space_num]
        /\ At(m_space_num, r) + r.size <= MaxAlloc
    BY <1>0, <1>2, NotBefore, Placed, SizeAssumption DEF Reserve
  <1>4. ~ Overlaps(p, r.size)
    <2>1. \A o \in DOMAIN m_metadata :
            o[2] + m_metadata[o].size <= m_nexts[m_space_num]
      BY <1>1 DEF CapacityInv
    <2>2. \A o \in DOMAIN m_metadata :
            /\ o[2] \in Nat /\ m_metadata[o].size \in Nat
            /\ m_metadata[o].size > 0
      BY WorkerType
    <2>3. QED
      BY <1>2, <1>3, <2>1, <2>2 DEF Overlaps
  <1>5. th' = [th EXCEPT ![t] = [th[t] EXCEPT !.pc = "emplace", !.ptr = p]]
    BY <1>0, <1>4 DEF Reserve, ThreadState
  <1>6. /\ UNCHANGED <<m_space_num, m_metadata, m_collect_result, w>>
        /\ m_nexts'[m_space_num] = At(m_space_num, r) + r.size
    BY <1>0, <1>2 DEF Reserve, collection, TypeOK, End
  <1> HIDE DEF p, r
  <1>7. NoHeapCorruption'
    <2>1. [th[t] EXCEPT !.pc = "emplace", !.ptr = p].pc = "emplace"
      BY <1>0 DEF ThreadState
    <2>2. QED
      BY <1>0, <1>5, <2>1 DEF NoHeapCorruption
  <1>8. /\ Used' = Used /\ ObjectsIn(m_space_num)' = ObjectsIn(m_space_num)
    BY <1>6 DEF Used, CellsOf, ObjectsIn, old_data
  <1>9. \A o \in ObjectsIn(m_space_num) :
          o[2] + m_metadata[o].size <= m_nexts'[m_space_num]
    BY <1>2, <1>3, <1>6, WorkerType DEF CapacityInv, ObjectsIn
  <1>10. QED
    BY <1>0, <1>1, <1>3, <1>6, <1>7, <1>8, <1>9 DEF CapacityInv

(* What mutators may reserve bounds what they place.                        *)
LEMMA CapacityEmplace ==
  ASSUME Serial, AlignedRequests, IInv, SerialInv, DInv, CapacityInv,
         NEW t \in Threads, Emplace(t)
  PROVE  CapacityInv'
  <1> DEFINE r == th[t].req  p == th[t].ptr
  <1>0. /\ TypeOK /\ th \in [Threads -> ThreadState] /\ w.pc = "idle"
        /\ \A u \in Threads : u = t
    BY SerialAlone, SerialQuiet DEF IInv, TypeOK, OneMutator, Mutator, Call
  <1>1. m_collect_result # "pending" /\ UNCHANGED m_collect_result
    BY <1>0 DEF Emplace, SerialInv
  <1>2. /\ r \in Metadata /\ r.size \in Nat /\ r.size > 0 /\ p \in Address
        /\ p[1] = m_space_num /\ ClearOf(p, r.size)
        /\ p[2] + r.size <= m_nexts[m_space_num]
        /\ m_nexts[m_space_num] <= MaxAlloc
    BY <1>0, RequestType
       DEF Emplace, IInv, ThreadInv, DInv, PendingInv, CapacityInv
  <1>3. r.align <= r.size
    <2>1. r \in Requests
      BY <1>0, <1>2 DEF ThreadState, NoRequest
    <2>2. QED
      BY <1>2, <2>1, AlignedSize DEF AlignedRequests
  <1>4. /\ UNCHANGED <<m_nexts, m_space_num, w>>
        /\ m_metadata' = Emplaced(m_metadata, p, r)
    BY DEF Emplace, collection
  <1>5. \A u \in Threads : th'[u].pc = "construct"
    BY <1>0 DEF Emplace, ThreadState
  <1> HIDE DEF p, r
  <1>6. /\ DOMAIN m_metadata' = DOMAIN m_metadata \cup {p} /\ m_metadata'[p] = r
        /\ \A o \in DOMAIN m_metadata : m_metadata'[o] = m_metadata[o]
    BY <1>2, <1>4, EmplaceDisjoint DEF DInv
  <1>7. \A o \in DOMAIN m_metadata' :
          /\ o[1] = m_space_num /\ o[2] \in Nat /\ m_metadata'[o].size \in Nat
          /\ o[2] + m_metadata'[o].size <= m_nexts[m_space_num]
          /\ m_metadata'[o].align <= m_metadata'[o].size
    <2>1. \A o \in DOMAIN m_metadata :
          /\ o[1] = m_space_num /\ o[2] \in Nat /\ m_metadata[o].size \in Nat
          /\ o[2] + m_metadata[o].size <= m_nexts[m_space_num]
          /\ m_metadata[o].align <= m_metadata[o].size
      BY <1>1, WorkerType DEF CapacityInv, ObjectsIn
    <2>2. p[2] \in Nat
      BY <1>2, SizeAssumption DEF Address
    <2>3. QED
      BY <1>2, <1>3, <1>6, <2>1, <2>2
  <1>8. Cardinality(Used') <= MaxAlloc
    <2> DEFINE free == <<m_space_num, 0>>  n == m_nexts[m_space_num]
    <2>1. free \in Address /\ n \in Nat
      BY <1>2, WorkerType, SizeAssumption DEF Address
    <2>2. IsFiniteSet(Cells(free, n)) /\ Cardinality(Cells(free, n)) = n
      BY <2>1, CellsCount
    <2>3. \A o \in DOMAIN m_metadata' :
            Cells(o, m_metadata'[o].size) \subseteq Cells(free, n)
      BY <1>7, <2>1 DEF Cells
    <2>4. Used' \subseteq Cells(free, n)
      BY <2>3 DEF Used, CellsOf
    <2>5. QED
      BY <1>2, <2>1, <2>2, <2>4, FS_Subset, FS_CardinalityType, SizeAssumption
  <1>9. ObjectsIn(m_space_num)' = DOMAIN m_metadata'
    BY <1>4, <1>7 DEF ObjectsIn
  <1>10. QED
    BY <1>0, <1>1, <1>4, <1>5, <1>7, <1>8, <1>9
       DEF CapacityInv, NoHeapCorruption

(* The flip leads into an empty space.                                      *)
LEMMA CapacityFlip ==
  ASSUME Serial, IInv, CapacityInv, NEW t \in Threads, StartCollection(t)
  PROVE  CapacityInv'
  <1>0. /\ th \in [Threads -> ThreadState] /\ \A u \in Threads : u = t
        /\ m_nexts \in [{0, 1} -> 0 .. HeapSize] /\ m_space_num \in {0, 1}
    BY SerialAlone DEF IInv, TypeOK, OneMutator
  <1>1. m_collect_result # "pending" /\ w.pc = "idle"
    BY DEF StartCollection, MayStart, IInv, SingleCollection
  <1>2. /\ UNCHANGED <<m_metadata, w>> /\ m_collect_result' = "pending"
        /\ m_space_num' = 1 - m_space_num
        /\ m_nexts' = [m_nexts EXCEPT ![m_space_num] = 0]
    BY DEF StartCollection, NextsAfterFlip, collection
  <1>3. \A u \in Threads : th'[u].pc = "inline"
    <2>1. [th[t] EXCEPT !.pc = "inline"].pc = "inline"
      BY <1>0 DEF ThreadState
    <2>2. QED
      BY <1>0, <2>1 DEF StartCollection
  <1>4. m_nexts'[m_space_num'] = 0
    BY <1>0, <1>2 DEF IInv, InactiveSpaceReset
  <1>5. ObjectsIn(m_space_num)' = {}
    BY <1>0, <1>1, <1>2 DEF CapacityInv, ObjectsIn
  <1>6. Taken' = 0
    <2>1. CellsOf(ObjectsIn(m_space_num))' = {}
      BY <1>5 DEF CellsOf
    <2>2. QED
      BY <1>1, <1>2, <2>1, FS_EmptySet DEF Taken, Placing
  <1>7. Used' = Used
    BY <1>2 DEF Used, CellsOf, old_data
  <1>8. QED
    BY <1>1, <1>2, <1>3, <1>4, <1>5, <1>6, <1>7
       DEF CapacityInv, NoHeapCorruption

(* Every step of the mutator keeps to its half of the space.                *)
LEMMA CapacityMutator ==
  ASSUME Serial, AlignedRequests, IInv, SerialInv, DInv, CapacityInv,
         NEW t \in Threads, Mutator(t)
  PROVE  CapacityInv'
  <1>1. CASE Reserve(t)
    BY <1>1, CapacityReserve
  <1>2. CASE Emplace(t)
    BY <1>2, CapacityEmplace
  <1>3. CASE StartCollection(t)
    BY <1>3, CapacityFlip
  <1>4. CASE ~ Reserve(t) /\ ~ Emplace(t) /\ ~ StartCollection(t)
    <2>1. /\ UNCHANGED <<m_nexts, m_space_num, m_metadata, w, visited>>
          /\ \A u \in Threads : th'[u].pc = "emplace" => th'[u] = th[u]
      BY <1>4, OtherMutatorSteps
    <2>2. UNCHANGED m_collect_result
      BY <1>4 DEF Mutator, Call, Use, CallAlloc, CallCollect, FrontCheck, NoRoom,
         Construct, Catch, CollectLoop, SkipCollection, LoadPtr, ClearSlot,
         StorePtr, WriteField, WriteData, Uses
    <2>3. NoHeapCorruption'
      <3>0. th \in [Threads -> ThreadState] /\ \A u \in Threads : u = t
        BY SerialAlone DEF IInv, TypeOK, OneMutator
      <3>1. CASE \/ \E r \in Requests : CallAlloc(t, r)
                 \/ \E k \in Slots : LoadPtr(t, k) \/ ClearSlot(t, k)
                 \/ SkipCollection(t)
        <4>1. CASE \E r \in Requests : CallAlloc(t, r)
          <5>1. PICK r \in Requests : CallAlloc(t, r)
            BY <4>1
          <5> DEFINE p == IF FrontEnd THEN "front" ELSE Entry(r)
          <5>2. p # "heap_corruption"
            BY DEF Entry
          <5>3. th' = [th EXCEPT ![t] = [th[t] EXCEPT !.req = r, !.pc = p]]
            BY <3>0, <5>1 DEF CallAlloc, ThreadState
          <5> HIDE DEF p
          <5>4. [th[t] EXCEPT !.req = r, !.pc = p].pc = p
            BY <3>0 DEF ThreadState
          <5>5. QED
            BY <3>0, <5>2, <5>3, <5>4 DEF NoHeapCorruption
        <4>2. CASE \E k \in Slots : LoadPtr(t, k)
          <5>1. PICK k \in Slots : LoadPtr(t, k)
            BY <4>2
          <5> DEFINE p == mem[<<t, k>>]
          <5>2. th' = [th EXCEPT ![t] = [th[t] EXCEPT !.pc = "use", !.ptr = p]]
            BY <3>0, <5>1 DEF LoadPtr, ThreadState
          <5> HIDE DEF p
          <5>3. [th[t] EXCEPT !.pc = "use", !.ptr = p].pc = "use"
            BY <3>0 DEF ThreadState
          <5>4. QED
            BY <3>0, <5>2, <5>3 DEF NoHeapCorruption
        <4>3. CASE \E k \in Slots : ClearSlot(t, k)
          BY <4>3 DEF ClearSlot, CapacityInv, NoHeapCorruption
        <4>4. CASE SkipCollection(t)
          <5>1. Resumed(th[t]).pc # "heap_corruption"
            BY <3>0 DEF Resumed, IdleThread, ThreadState
          <5>2. QED
            BY <3>0, <4>4, <5>1 DEF SkipCollection, NoHeapCorruption
        <4>5. QED
          BY <3>1, <4>1, <4>2, <4>3, <4>4
      <3>2. CASE CallCollect(t) \/ FrontCheck(t) \/ NoRoom(t) \/ CollectLoop(t)
        BY <3>0, <3>2 DEF CallCollect, FrontCheck, NoRoom, CollectLoop, Entry,
                          ThreadState, NoHeapCorruption
      <3>3. CASE \/ \E k \in Slots, v \in Fresh : Construct(t, k, v)
                 \/ Catch(t) \/ Use(t)
        <4>1. th' = [th EXCEPT ![t] = IdleThread]
          BY <3>3 DEF Construct, Catch, Use, StorePtr, WriteField, WriteData
        <4>2. QED
          BY <3>0, <4>1 DEF IdleThread, NoHeapCorruption
      <3>4. QED
        BY <1>4, <3>1, <3>2, <3>3 DEF Mutator, Call
    <2>4. Used' = Used /\ Placing' = Placing
      BY <2>1 DEF Used, Placing, CellsOf, old_data
    <2>5. w.pc # "aborted"
      BY DEF CapacityInv
    <2>6. QED
      BY <2>1, <2>2, <2>3, <2>4, <2>5, CapacityKept
  <1>5. QED
    BY <1>1, <1>2, <1>3, <1>4

-----------------------------------------------------------------------------
(* The object being moved and what is in the new space have no cell in      *)
(* common, and together not more than mutators may use.                     *)
LEMMA RoomForCopy ==
  ASSUME IInv, CapacityInv, w.pc \in {"scan", "check", "emplace"}
  PROVE  /\ old_data.size \in Nat /\ old_data.size > 0
         /\ Cardinality(CellsOf(ObjectsIn(m_space_num))) \in Nat
         /\ Cardinality(CellsOf(ObjectsIn(m_space_num))) + old_data.size <= MaxAlloc
  <1> DEFINE A == CellsOf(ObjectsIn(m_space_num))  B == Cells(w.val, old_data.size)
             D == CellsOf(DOMAIN m_metadata)
  <1>1. /\ w.val \in DOMAIN m_metadata /\ w.val[1] # m_space_num
        /\ old_data.size \in Nat /\ old_data.size > 0 /\ w.val \in Address
    BY WorkerType DEF Moving
  <1>2. IsFiniteSet(A) /\ Cardinality(A) \in Nat
    BY CellsOfObjects DEF ObjectsIn
  <1>3. IsFiniteSet(B) /\ Cardinality(B) = old_data.size
    BY <1>1, CellsCount
  <1>4. A \cap B = {}
    BY <1>1 DEF CellsOf, ObjectsIn, Cells
  <1>5. A \cup B \subseteq D
    BY <1>1 DEF CellsOf, ObjectsIn, old_data
  <1>6. IsFiniteSet(D) /\ Cardinality(D) <= MaxAlloc /\ Cardinality(D) \in Nat
    <2>1. Used = D
      BY DEF Used
    <2>2. QED
      BY <2>1, CellsOfObjects DEF CapacityInv
  <1> HIDE DEF A, B, D
  <1>7. Cardinality(A \cup B) = Cardinality(A) + old_data.size
    <2>1. Cardinality(A \cup B) =
            Cardinality(A) + Cardinality(B) - Cardinality(A \cap B)
      BY <1>2, <1>3, FS_Union
    <2>2. Cardinality(A \cap B) = 0
      BY <1>4, FS_EmptySet
    <2>3. QED
      BY <1>1, <1>2, <1>3, <2>1, <2>2
  <1>8. Cardinality(A \cup B) <= Cardinality(D)
    BY <1>5, <1>6, FS_Subset
  <1>9. Cardinality(A) + old_data.size <= MaxAlloc
    BY <1>1, <1>2, <1>6, <1>7, <1>8, SizeAssumption
  <1>10. QED
    BY <1>1, <1>2, <1>9 DEF A

(* No collection is given up.                                               *)
LEMMA NoAbort ==
  ASSUME IInv, DInv, CapacityInv, CopyAbort
  PROVE  FALSE
  <1> DEFINE c == Cardinality(CellsOf(ObjectsIn(m_space_num)))
  <1>0. w.pc \in {"scan", "check", "emplace"} /\ TypeOK
    BY DEF CopyAbort, IInv
  <1>1. /\ w.to = m_space_num /\ m_space_num \in {0, 1}
        /\ m_collect_result = "pending"
        /\ old_data \in Metadata /\ m_nexts[m_space_num] \in Nat
    BY <1>0, WorkerType DEF Moving, IInv, SingleCollection
  <1>2. /\ old_data.size \in Nat /\ old_data.size > 0 /\ c \in Nat
        /\ c + old_data.size <= MaxAlloc
    BY <1>0, RoomForCopy
  <1> HIDE DEF c
  <1>3. CASE w.pc = "scan" /\ ~ Fits(w.to, old_data, HeapSize)
    <2>1. m_nexts[m_space_num] <= 2 * c
      <3>1. Taken = c + 0 /\ m_nexts[m_space_num] <= 2 * Taken
        BY <1>1, <1>3 DEF CapacityInv, Taken, Placing, c
      <3>2. QED
        BY <1>2, <3>1
    <2>2. old_data.align <= old_data.size
      BY <1>3, WorkerType DEF CapacityInv, Moving, old_data
    <2>3. /\ End(w.to, old_data) \in Nat
          /\ End(w.to, old_data) < m_nexts[m_space_num] + 2 * old_data.size
      BY <1>0, <1>1, <2>2, PaddedEnd
    <2>4. QED
      BY <1>1, <1>2, <1>3, <2>1, <2>3, SizeAssumption DEF Fits
  <1>4. CASE w.pc = "check" /\ Overlaps(w.new, old_data.size)
    <2>1. /\ w.new \in Address /\ w.new[2] \in Nat /\ w.new[1] = m_space_num
      BY <1>1, <1>4, WorkerType DEF Moving, DInv, PendingInv
    <2>2. \A o \in ObjectsIn(m_space_num) : o[2] + m_metadata[o].size <= w.new[2]
      BY <1>4 DEF CapacityInv
    <2>3. ClearOf(w.new, old_data.size)
      BY <2>1, <2>2 DEF ClearOf, Apart, ObjectsIn
    <2>4. QED
      BY <1>2, <1>4, <2>1, <2>3, Unmanaged
  <1>5. CASE w.pc = "emplace" /\ w.new[2] + old_data.size >= HeapSize
    <2>1. w.new[2] + old_data.size <= m_nexts[m_space_num] /\ w.new[2] \in Nat
      BY <1>1, <1>5, WorkerType DEF DInv, PendingInv, Moving
    <2>2. m_nexts[m_space_num] < 2 * (c + old_data.size)
      BY <1>1, <1>5 DEF CapacityInv, Taken, Placing, c
    <2>3. QED
      BY <1>1, <1>2, <1>5, <2>1, <2>2, SizeAssumption
  <1>6. QED
    BY <1>3, <1>4, <1>5 DEF CopyAbort

(* Padding takes fewer cells than the copy.                                 *)
LEMMA CapacityCopyReserve ==
  ASSUME Serial, IInv, SerialInv, CapacityInv, CopyReserve
  PROVE  CapacityInv'
  <1> DEFINE p == <<w.to, At(w.to, old_data)>>
             c == Cardinality(CellsOf(ObjectsIn(m_space_num)))
  <1>0. /\ w \in WorkerState /\ w.pc = "scan" /\ TypeOK
    BY WorkerType DEF CopyReserve, IInv
  <1>1. /\ w.to = m_space_num /\ m_space_num \in {0, 1}
        /\ m_collect_result = "pending"
        /\ old_data \in Metadata /\ m_nexts[m_space_num] \in Nat
        /\ old_data.align <= old_data.size
    BY <1>0, WorkerType
       DEF Moving, IInv, SingleCollection, CapacityInv, old_data
  <1>2. /\ old_data.size \in Nat /\ old_data.size > 0 /\ c \in Nat
    BY <1>0, RoomForCopy
  <1>3. /\ At(w.to, old_data) \in Nat
        /\ At(w.to, old_data) >= m_nexts[m_space_num]
        /\ End(w.to, old_data) \in Nat
        /\ End(w.to, old_data) < m_nexts[m_space_num] + 2 * old_data.size
    BY <1>0, <1>1, PaddedEnd
  <1>4. /\ UNCHANGED <<m_space_num, m_metadata, m_collect_result, th>>
        /\ m_nexts'[m_space_num] = End(w.to, old_data)
        /\ w' = [w EXCEPT !.pc = "check", !.new = p]
    BY <1>0, <1>1 DEF CopyReserve, Mutators, TypeOK
  <1>5. m_nexts[m_space_num] <= 2 * c
    <2>1. Taken = c + 0 /\ m_nexts[m_space_num] <= 2 * Taken
      BY <1>0, <1>1 DEF CapacityInv, Taken, Placing
    <2>2. QED
      BY <1>2, <2>1
  <1>6. p[2] = At(w.to, old_data)
    OBVIOUS
  <1> HIDE DEF p
  <1>7. w'.pc = "check" /\ w'.new = p /\ w'.val = w.val
    BY <1>0, <1>4 DEF WorkerState
  <1>8. /\ old_data' = old_data
        /\ ObjectsIn(m_space_num)' = ObjectsIn(m_space_num)
    BY <1>4, <1>7 DEF old_data, ObjectsIn
  <1>9. Taken' = c + old_data.size
    BY <1>4, <1>7, <1>8 DEF Taken, Placing, CellsOf
  <1>10. Used' = Used
    BY <1>0, <1>4, <1>7 DEF Used, CellsOf
  <1> HIDE DEF c
  <1>11. m_nexts'[m_space_num] < 2 * Taken'
    <2>1. End(w.to, old_data) < 2 * c + 2 * old_data.size
      BY <1>1, <1>2, <1>3, <1>5
    <2>2. 2 * Taken' = 2 * c + 2 * old_data.size
      BY <1>2, <1>9
    <2>3. QED
      BY <1>4, <2>1, <2>2
  <1>12. \A o \in ObjectsIn(m_space_num) :
           /\ o[2] + m_metadata[o].size <= m_nexts'[m_space_num]
           /\ o[2] + m_metadata[o].size <= p[2]
    <2>1. ASSUME NEW o \in ObjectsIn(m_space_num)
          PROVE  /\ o[2] + m_metadata[o].size <= m_nexts[m_space_num]
                 /\ o[2] + m_metadata[o].size \in Nat
      BY WorkerType DEF CapacityInv, ObjectsIn
    <2>2. End(w.to, old_data) >= At(w.to, old_data)
      BY <1>2, <1>3 DEF End
    <2>3. QED
      BY <1>1, <1>3, <1>4, <1>6, <2>1, <2>2
  <1>13. \A t \in Threads : th[t].pc = "inline"
    BY <1>1 DEF SerialInv
  <1>14. QED
    <2>1. w'.pc = "check" /\ w'.pc # "aborted"
      BY <1>7
    <2>2. NoHeapCorruption'
      BY <1>4, <1>13 DEF NoHeapCorruption
    <2>3. m_collect_result' = "pending"
      BY <1>1, <1>4
    <2>4. \A o \in ObjectsIn(m_space_num)' :
            /\ o[2] + m_metadata'[o].size <= m_nexts'[m_space_num']
            /\ o[2] + m_metadata'[o].size <= w'.new[2]
      BY <1>4, <1>7, <1>8, <1>12
    <2>5. /\ \A o \in DOMAIN m_metadata' : m_metadata'[o].align <= m_metadata'[o].size
          /\ Cardinality(Used') <= MaxAlloc
      BY <1>4, <1>10 DEF CapacityInv
    <2>6. m_nexts'[m_space_num'] < 2 * Taken' /\ m_nexts'[m_space_num'] <= 2 * Taken'
      BY <1>1, <1>2, <1>3, <1>4, <1>9, <1>11
    <2>7. \A t \in Threads : th'[t].pc # "emplace"
      BY <1>4, <1>13
    <2>8. QED
      BY <2>1, <2>2, <2>3, <2>4, <2>5, <2>6, <2>7 DEF CapacityInv

(* The copy takes the cells its object stops counting for.                  *)
LEMMA CapacityCopyEmplace ==
  ASSUME IInv, DInv, CapacityInv, CopyEmplace
  PROVE  CapacityInv'
  <1> DEFINE p == w.new  r == old_data
             A == CellsOf(ObjectsIn(m_space_num))  N == Cells(p, r.size)
             D == CellsOf(DOMAIN m_metadata)  B == Cells(w.val, r.size)
  <1>0. w \in WorkerState /\ w.pc = "emplace"
    BY WorkerType DEF CopyEmplace
  <1>1. /\ w.to = m_space_num /\ m_collect_result = "pending"
        /\ r \in Metadata /\ r.size \in Nat /\ r.size > 0 /\ r.align <= r.size
        /\ p \in Address /\ p[1] = w.to /\ ClearOf(p, r.size)
        /\ p[2] \in Nat /\ p[2] + r.size <= m_nexts[m_space_num]
        /\ w.val \in DOMAIN m_metadata /\ r = m_metadata[w.val]
        /\ m_nexts[m_space_num] < 2 * Taken /\ Taken = Cardinality(A) + r.size
        /\ w.val \in Address
    BY <1>0, WorkerType
       DEF Moving, IInv, SingleCollection, DInv, PendingInv, CapacityInv,
           old_data, Taken, Placing
  <1>2. /\ UNCHANGED <<m_nexts, m_space_num, m_collect_result, th>>
        /\ m_metadata' = Emplaced(m_metadata, p, r)
        /\ w'.pc = "copy" /\ w'.val = w.val
    BY <1>0 DEF CopyEmplace, Mutators, WorkerState
  <1>3. /\ DOMAIN m_metadata' = DOMAIN m_metadata \cup {p} /\ m_metadata'[p] = r
        /\ \A o \in DOMAIN m_metadata : m_metadata'[o] = m_metadata[o]
    BY <1>1, <1>2, EmplaceDisjoint DEF DInv
  <1>4. /\ ObjectsIn(m_space_num)' = ObjectsIn(m_space_num) \cup {p}
        /\ CellsOf(ObjectsIn(m_space_num))' = A \cup N
        /\ CellsOf(DOMAIN m_metadata)' = D \cup N
        /\ old_data' = r
    <2>1. ObjectsIn(m_space_num)' = ObjectsIn(m_space_num) \cup {p}
      BY <1>1, <1>2, <1>3 DEF ObjectsIn
    <2> DEFINE U(S) == UNION {Cells(o, m_metadata'[o].size) : o \in S}
    <2>2. ASSUME NEW S, S \subseteq DOMAIN m_metadata
          PROVE  U(S \cup {p}) = CellsOf(S) \cup N
      <3>1. m_metadata'[p].size = r.size
        BY <1>3
      <3> HIDE DEF p, r
      <3>2. Cells(p, m_metadata'[p].size) = N
        BY <3>1
      <3> HIDE DEF N
      <3>3. \A o \in S : Cells(o, m_metadata'[o].size) = Cells(o, m_metadata[o].size)
        BY <1>3, <2>2
      <3>4. {Cells(o, m_metadata'[o].size) : o \in S \cup {p}} =
              {Cells(o, m_metadata[o].size) : o \in S} \cup {N}
        BY <3>2, <3>3
      <3>5. QED
        BY <3>4, UnionAdd DEF CellsOf
    <2>3. ObjectsIn(m_space_num) \subseteq DOMAIN m_metadata
      BY DEF ObjectsIn
    <2>4. /\ CellsOf(ObjectsIn(m_space_num))' = U(ObjectsIn(m_space_num)')
          /\ CellsOf(DOMAIN m_metadata)' = U(DOMAIN m_metadata')
      BY DEF CellsOf
    <2> HIDE DEF U, p, N
    <2>5. /\ CellsOf(ObjectsIn(m_space_num))' = A \cup N
          /\ CellsOf(DOMAIN m_metadata)' = D \cup N
      BY <1>3, <2>1, <2>2, <2>3, <2>4
    <2>6. old_data' = r
      BY <1>1, <1>2, <1>3 DEF old_data
    <2>7. QED
      BY <2>1, <2>5, <2>6
  <1>5. Used = D /\ Used' = (D \cup N) \ B
    BY <1>0, <1>2, <1>4 DEF Used
  <1>6. /\ IsFiniteSet(A) /\ Cardinality(A) \in Nat
        /\ IsFiniteSet(D) /\ Cardinality(D) \in Nat /\ Cardinality(D) <= MaxAlloc
        /\ IsFiniteSet(N) /\ Cardinality(N) = r.size
        /\ IsFiniteSet(B) /\ Cardinality(B) = r.size
    BY <1>1, <1>5, CellsOfObjects, CellsCount DEF ObjectsIn, CapacityInv
  <1>7. A \cap N = {}
    <2>1. ASSUME NEW o \in ObjectsIn(m_space_num)
          PROVE  Cells(o, m_metadata[o].size) \cap N = {}
      BY <1>1, ApartCells, WorkerType DEF ClearOf, ObjectsIn
    <2>2. QED
      BY <2>1 DEF CellsOf
  <1>8. B \subseteq D
    BY <1>1 DEF CellsOf
  <1>9. \A o \in ObjectsIn(m_space_num)' :
          /\ o[2] + m_metadata'[o].size <= m_nexts[m_space_num]
    BY <1>1, <1>3, <1>4 DEF CapacityInv, ObjectsIn
  <1> HIDE DEF A, B, D, N, p, r
  <1>10. Taken' = Taken
    <2>1. Cardinality(A \cup N) = Cardinality(A) + r.size
      <3>1. Cardinality(A \cup N) =
              Cardinality(A) + Cardinality(N) - Cardinality(A \cap N)
        BY <1>6, FS_Union
      <3>2. Cardinality(A \cap N) = 0
        BY <1>7, FS_EmptySet
      <3>3. QED
        BY <1>1, <1>6, <3>1, <3>2
    <2>2. Taken' = Cardinality(A \cup N) + 0
      BY <1>2, <1>4 DEF Taken, Placing
    <2>3. QED
      BY <1>1, <1>6, <2>1, <2>2
  <1>11. Cardinality(Used') <= MaxAlloc
    <2>1. IsFiniteSet(D \ B) /\ Cardinality(D \ B) = Cardinality(D) - r.size
      <3>1. D \cap B = B
        BY <1>8
      <3>2. /\ IsFiniteSet(D \ B)
            /\ Cardinality(D \ B) = Cardinality(D) - Cardinality(D \cap B)
        BY <1>6, FS_Difference
      <3>3. QED
        BY <1>6, <3>1, <3>2
    <2>2. /\ IsFiniteSet((D \ B) \cup N)
          /\ Cardinality((D \ B) \cup N) =
               Cardinality(D \ B) + Cardinality(N) - Cardinality((D \ B) \cap N)
      BY <1>6, <2>1, FS_Union
    <2>3. Cardinality((D \ B) \cap N) \in Nat
      BY <2>1, FS_Intersection, FS_CardinalityType
    <2>4. Used' \subseteq (D \ B) \cup N
      BY <1>5
    <2>5. IsFiniteSet(Used') /\ Cardinality(Used') <= Cardinality((D \ B) \cup N)
      BY <2>2, <2>4, FS_Subset
    <2>6. Cardinality(Used') \in Nat
      BY <2>5, FS_CardinalityType
    <2>7. QED
      BY <1>1, <1>6, <2>1, <2>2, <2>3, <2>5, <2>6, SizeAssumption
  <1>12. \A o \in DOMAIN m_metadata' : m_metadata'[o].align <= m_metadata'[o].size
    BY <1>1, <1>3 DEF CapacityInv
  <1>13. m_nexts[m_space_num] <= 2 * Taken'
    BY <1>1, <1>6, <1>10, WorkerType
  <1>14. QED
    BY <1>1, <1>2, <1>9, <1>11, <1>12, <1>13 DEF CapacityInv, NoHeapCorruption

(* Steps that neither place a copy nor remove an object                     *)
LEMMA CapacityTrace ==
  ASSUME IInv, CapacityInv,
         \/ TaskStart \/ (\E l \in w.roots : TakeRoot(l)) \/ ReadTop
         \/ Redirect \/ Ignore \/ Scan \/ ScanMember
         \/ CopyCheck \/ CopyWord \/ Swing
  PROVE  CapacityInv'
  <1>0. w \in WorkerState
    BY WorkerType
  <1>1. UNCHANGED <<m_nexts, m_space_num, m_metadata, m_collect_result, th>>
    BY DEF TaskStart, TakeRoot, ReadTop, Redirect, Ignore, Scan, ScanMember,
           CopyCheck, CopyWord, Swing, Mutators
  <1>2. NoHeapCorruption'
    BY <1>1 DEF CapacityInv, NoHeapCorruption
  <1>3. ASSUME w.pc \notin {"check", "emplace", "copy", "swing", "erase"},
               w'.pc \notin {"check", "emplace", "copy", "swing", "erase"},
               w'.pc # "aborted"
        PROVE  CapacityInv'
    <2>1. Used' = Used /\ Placing' = Placing
      BY <1>1, <1>3 DEF Used, Placing, CellsOf
    <2>2. QED
      BY <1>1, <1>2, <1>3, <2>1, CapacityKept
  <1>4. CASE \/ TaskStart \/ (\E l \in w.roots : TakeRoot(l)) \/ ReadTop
             \/ Redirect \/ Ignore \/ Scan \/ ScanMember
    <2>1. w.pc \in {"idle", "trace", "forward", "scan"}
      BY <1>4 DEF TaskStart, TakeRoot, ReadTop, Redirect, Ignore, Scan, ScanMember
    <2>2. w'.pc \in {"trace", "forward", "scan"}
      BY <1>0, <1>4 DEF TaskStart, TakeRoot, ReadTop, Redirect, Ignore, Scan,
                        ScanMember, WorkerState, IdleWorker
    <2>3. QED
      BY <1>3, <2>1, <2>2
  <1>5. CASE CopyCheck
    <2>1. /\ w.pc = "check" /\ w'.pc = "emplace"
          /\ w'.val = w.val /\ w'.new = w.new
      BY <1>0, <1>5 DEF CopyCheck, WorkerState
    <2>2. Used' = Used /\ Placing' = Placing
      BY <1>1, <2>1 DEF Used, Placing, CellsOf, old_data
    <2>3. QED
      BY <1>1, <1>2, <2>1, <2>2, CapacityKept
  <1>6. CASE CopyWord \/ Swing
    <2>1. /\ w.pc \in {"copy", "swing"} /\ w'.pc \in {"copy", "swing", "erase"}
          /\ w'.val = w.val
      BY <1>0, <1>6 DEF CopyWord, Swing, WorkerState
    <2>2. Used' = Used /\ Placing' = Placing
      BY <1>1, <2>1 DEF Used, Placing, CellsOf, old_data
    <2>3. QED
      BY <1>1, <1>2, <2>1, <2>2, CapacityKept
  <1>7. QED
    BY <1>4, <1>5, <1>6

(* Removing objects of the old space                                        *)
LEMMA CapacityRemoval ==
  ASSUME IInv, CapacityInv,
         UNCHANGED <<m_nexts, m_space_num, m_collect_result, th>>,
         m_collect_result = "pending",
         w.pc \notin {"check", "emplace"}, w'.pc \in {"trace", "swept"},
         DOMAIN m_metadata' \subseteq DOMAIN m_metadata,
         \A o \in DOMAIN m_metadata' : m_metadata'[o] = m_metadata[o],
         ObjectsIn(m_space_num) \subseteq DOMAIN m_metadata',
         CellsOf(DOMAIN m_metadata)' \subseteq Used
  PROVE  CapacityInv'
  <1>1. ObjectsIn(m_space_num)' = ObjectsIn(m_space_num)
    BY DEF ObjectsIn
  <1>2. \A o \in ObjectsIn(m_space_num) : m_metadata'[o] = m_metadata[o]
    OBVIOUS
  <1>3. CellsOf(ObjectsIn(m_space_num))' = CellsOf(ObjectsIn(m_space_num))
    <2>1. {Cells(o, m_metadata'[o].size) : o \in ObjectsIn(m_space_num)} =
            {Cells(o, m_metadata[o].size) : o \in ObjectsIn(m_space_num)}
      BY <1>2
    <2>2. QED
      BY <1>1, <2>1 DEF CellsOf
  <1>4. Taken' = Taken
    BY <1>3 DEF Taken, Placing
  <1>5. Used' = CellsOf(DOMAIN m_metadata)'
    BY DEF Used
  <1>6. Cardinality(Used') <= MaxAlloc
    <2>1. IsFiniteSet(Used)
      <3>1. IsFiniteSet(CellsOf(DOMAIN m_metadata))
        BY CellsOfObjects
      <3>2. Used \subseteq CellsOf(DOMAIN m_metadata)
        BY DEF Used
      <3>3. QED
        BY <3>1, <3>2, FS_Subset
    <2>2. IsFiniteSet(Used') /\ Cardinality(Used') <= Cardinality(Used)
      BY <1>5, <2>1, FS_Subset
    <2>3. Cardinality(Used') \in Nat /\ Cardinality(Used) \in Nat
      BY <2>1, <2>2, FS_CardinalityType
    <2>4. QED
      BY <2>2, <2>3, SizeAssumption DEF CapacityInv
  <1>7. NoHeapCorruption'
    BY DEF CapacityInv, NoHeapCorruption
  <1>8. \A o \in ObjectsIn(m_space_num)' :
          o[2] + m_metadata'[o].size <= m_nexts[m_space_num]
    BY <1>1, <1>2 DEF CapacityInv
  <1>9. QED
    BY <1>4, <1>6, <1>7, <1>8 DEF CapacityInv

(* The cells of an object are counted once: for its copy.                   *)
LEMMA CapacityErase ==
  ASSUME IInv, DInv, CapacityInv, EraseOld
  PROVE  CapacityInv'
  <1>0. w \in WorkerState /\ w.pc = "erase"
    BY WorkerType DEF EraseOld
  <1>1. /\ UNCHANGED <<m_nexts, m_space_num, m_collect_result, th>>
        /\ w'.pc = "trace"
    BY <1>0 DEF EraseOld, Mutators, WorkerState
  <1>2. /\ DOMAIN m_metadata' = DOMAIN m_metadata \ {w.val}
        /\ \A o \in DOMAIN m_metadata' : m_metadata'[o] = m_metadata[o]
    BY DEF EraseOld, Restrict
  <1>3. /\ w.val \in DOMAIN m_metadata /\ w.val[1] # m_space_num
        /\ m_collect_result = "pending" /\ old_data = m_metadata[w.val]
    BY <1>0, WorkerType DEF Moving, IInv, SingleCollection, old_data
  <1>4. ASSUME NEW o \in DOMAIN m_metadata'
        PROVE  Cells(o, m_metadata'[o].size) \subseteq Used
    <2>1. /\ o \in DOMAIN m_metadata /\ o # w.val
          /\ m_metadata'[o] = m_metadata[o]
      BY <1>2
    <2>2. /\ o[1] # w.val[1] \/ Apart(o, m_metadata[o].size, w.val, old_data.size)
          /\ m_metadata[o].size \in Nat /\ old_data.size \in Nat
          /\ o[2] \in Nat /\ w.val[2] \in Nat
      BY <1>3, <2>1, WorkerType DEF DInv, MetadataDisjoint, Apart
    <2>3. Cells(o, m_metadata[o].size) \cap Cells(w.val, old_data.size) = {}
      BY <2>2, ApartCells
    <2>4. Cells(o, m_metadata[o].size) \subseteq CellsOf(DOMAIN m_metadata)
      BY <2>1, CellsOfObjects
    <2>5. QED
      BY <1>0, <2>1, <2>3, <2>4 DEF Used
  <1>5. CellsOf(DOMAIN m_metadata)' \subseteq Used
    BY <1>4 DEF CellsOf
  <1>6. ObjectsIn(m_space_num) \subseteq DOMAIN m_metadata'
    BY <1>2, <1>3 DEF ObjectsIn
  <1>7. QED
    BY <1>0, <1>1, <1>2, <1>3, <1>5, <1>6, CapacityRemoval

(* The sweep only makes room.                                               *)
LEMMA CapacitySweep ==
  ASSUME IInv, DInv, CapacityInv, Sweep
  PROVE  CapacityInv'
  <1>0. w \in WorkerState /\ w.pc = "trace"
    BY WorkerType DEF Sweep
  <1>1. /\ UNCHANGED <<m_nexts, m_space_num, m_collect_result, th>>
        /\ w'.pc = "swept"
    BY <1>0 DEF Sweep, Mutators, WorkerState
  <1>2. /\ DOMAIN m_metadata' = {o \in DOMAIN m_metadata : Survives(o)}
        /\ \A o \in DOMAIN m_metadata' : m_metadata'[o] = m_metadata[o]
    BY DEF Sweep, Restrict
  <1>3. w.to = m_space_num /\ m_collect_result = "pending"
    BY <1>0, WorkerType DEF IInv, SingleCollection
  <1>4. ObjectsIn(m_space_num) \subseteq DOMAIN m_metadata'
    BY <1>2, <1>3 DEF ObjectsIn, Survives
  <1>5. CellsOf(DOMAIN m_metadata)' \subseteq Used
    <2>1. Used = CellsOf(DOMAIN m_metadata)
      BY <1>0 DEF Used
    <2>2. ASSUME NEW o \in DOMAIN m_metadata'
          PROVE  Cells(o, m_metadata'[o].size) \subseteq CellsOf(DOMAIN m_metadata)
      BY <1>2, CellsOfObjects
    <2>3. QED
      BY <2>1, <2>2 DEF CellsOf
  <1>6. QED
    BY <1>0, <1>1, <1>2, <1>3, <1>4, <1>5, CapacityRemoval

(* Only a collection that swept finishes.                                   *)
LEMMA CapacityFinish ==
  ASSUME IInv, DInv, CapacityInv, Finish
  PROVE  CapacityInv'
  <1>0. th \in [Threads -> ThreadState]
    BY DEF IInv, TypeOK
  <1>1. /\ UNCHANGED <<m_nexts, m_space_num, m_metadata>>
        /\ w.pc = "swept" /\ w'.pc = "idle" /\ m_collect_result' = "ready"
    BY DEF Finish, heap, IdleWorker, CapacityInv
  <1>2. \A o \in DOMAIN m_metadata : o[1] = m_space_num
    BY <1>1, WorkerType DEF DInv, OldSpaceEmptied
  <1>3. ObjectsIn(m_space_num)' = ObjectsIn(m_space_num)
        /\ ObjectsIn(m_space_num) = DOMAIN m_metadata
    BY <1>1, <1>2 DEF ObjectsIn
  <1>4. \A t \in Threads :
          /\ th'[t].pc = "emplace" => th[t].pc = "emplace"
          /\ th'[t].pc # "heap_corruption"
    BY <1>0 DEF Finish, Woken, Resumed, IdleThread, ThreadState, CapacityInv,
                NoHeapCorruption
  <1>5. Used' = Used
    BY <1>1 DEF Used, CellsOf
  <1>6. QED
    BY <1>1, <1>3, <1>4, <1>5 DEF CapacityInv, NoHeapCorruption

-----------------------------------------------------------------------------
(* Every step preserves the invariant.                                      *)
LEMMA StepCapacity ==
  ASSUME Serial, AlignedRequests, IInv, SerialInv, DInv, CapacityInv,
         [Next]_vars
  PROVE  CapacityInv'
  <1>1. CASE \E t \in Threads : Mutator(t)
    BY <1>1, CapacityMutator
  <1>2. CASE Collection
    BY <1>2, NoAbort, CapacityTrace, CapacityCopyReserve, CapacityCopyEmplace,
       CapacityErase, CapacitySweep, CapacityFinish DEF Collection
  <1>3. CASE UNCHANGED vars
    BY <1>3 DEF vars, CapacityInv, ObjectsIn, CellsOf, Used, Taken, Placing,
                old_data, NoHeapCorruption
  <1>4. QED
    BY <1>1, <1>2, <1>3 DEF Next

(* The heap is empty at first.                                              *)
LEMMA InitCapacity == Init => CapacityInv
  <1> SUFFICES ASSUME Init PROVE CapacityInv
    OBVIOUS
  <1>1. DOMAIN m_metadata = {} /\ w.pc = "idle" /\ m_collect_result = "invalid"
    BY DEF Init, IdleWorker
  <1>2. \A t \in Threads : th[t].pc = "idle"
    BY DEF Init, IdleThread
  <1>3. Used = {}
    BY <1>1 DEF Used, CellsOf
  <1>4. Cardinality(Used) = 0
    BY <1>3, FS_EmptySet
  <1>5. QED
    BY <1>1, <1>2, <1>4, SizeAssumption DEF CapacityInv, ObjectsIn, NoHeapCorruption

(* What survives fits, its padding included, because mutators may use no    *)
(* more than half of a space.                                               *)
LEMMA CapacityHolds ==
  ASSUME Serial, AlignedRequests
  PROVE  Spec => [](IInv /\ SerialInv /\ DInv /\ CapacityInv)
  <1> DEFINE Inv == IInv /\ SerialInv /\ DInv /\ CapacityInv
  <1>1. Inv /\ [Next]_vars => Inv'
    BY SerialAlone, StepIInv, SerialStep, StepDInv, StepCapacity
  <1>2. Init => Inv
    <2>1. Init => SerialInv
      BY DEF Init, SerialInv
    <2>2. QED
      BY <2>1, InitIInv, InitDInv, InitCapacity
  <1>3. QED
    BY <1>1, <1>2, PTL DEF Spec

(* The overlap check of alloc_attempt never throws: nothing is left in a    *)
(* space that is handed out from its first cell again.                      *)
THEOREM NoOverlapFound ==
  ASSUME Serial, AlignedRequests
  PROVE  Spec => []NoHeapCorruption
  <1>1. IInv /\ SerialInv /\ DInv /\ CapacityInv => NoHeapCorruption
    BY DEF CapacityInv
  <1>2. QED
    BY <1>1, CapacityHolds, PTL

(* No collection throws: the room that mutators leave is enough for every   *)
(* copy, with its padding, whatever survives.                               *)
NotGivenUp == w.pc # "aborted"
THEOREM CollectionsSucceed ==
  ASSUME Serial, AlignedRequests
  PROVE  Spec => []NotGivenUp
  <1>1. CapacityInv => NotGivenUp
    BY DEF CapacityInv, NotGivenUp
  <1>2. QED
    BY <1>1, CapacityHolds, PTL

-----------------------------------------------------------------------------
(* Every collection runs to its end, so pointers stay forwarded.            *)
LEMMA SerialHeap ==
  ASSUME Serial, AlignedRequests, "field" \notin Ops
  PROVE  Spec => [](HeapInv /\ CapacityInv)
  <1>0. OneMutator /\ PointersInVariables
    BY SerialAlone DEF PointersInVariables
  <1>1. HeapInv /\ CapacityInv /\ [Next]_vars => HeapInv' /\ CapacityInv'
    <2> SUFFICES ASSUME HeapInv, CapacityInv, [Next]_vars
                 PROVE  HeapInv' /\ CapacityInv'
      OBVIOUS
    <2>1. IInv' /\ DInv'
      BY <1>0, StepIInv, StepDInv DEF HeapInv
    <2>2. Finish => w.pc = "swept"
      BY DEF Finish, CapacityInv
    <2>3. PtrInv'
      BY <1>0, <2>2, StepPtrInv DEF HeapInv
    <2>4. CopiedInv'
      BY <1>0, StepCopied DEF HeapInv
    <2>5. CapacityInv'
      BY StepCapacity DEF HeapInv, PtrInv
    <2>6. QED
      BY <2>1, <2>3, <2>4, <2>5 DEF HeapInv
  <1>2. Init => HeapInv /\ CapacityInv
    <2>1. Init => CopiedInv
      BY DEF Init, CopiedInv, IdleWorker
    <2>2. QED
      BY <2>1, InitIInv, InitDInv, InitPtrInv, InitCapacity DEF HeapInv
  <1>3. QED
    BY <1>1, <1>2, PTL DEF Spec

(* No object lies behind the copy that is being filled: mutators wait.      *)
LastInv ==
  w.pc = "copy" =>
    \A o \in DOMAIN m_metadata \ {w.new} :
      o[1] = w.to => o[2] + m_metadata[o].size <= w.new[2]

(* Copies are placed behind everything else in the space.                   *)
LEMMA StepLast ==
  ASSUME Serial, HeapInv, CapacityInv, LastInv, [Next]_vars
  PROVE  LastInv'
  <1>0. w \in WorkerState
    BY WorkerType DEF HeapInv
  <1>1. CASE UNCHANGED vars
    BY <1>1 DEF vars, LastInv
  <1>2. CASE \E t \in Threads : Mutator(t)
    <2>1. UNCHANGED w
      BY <1>2
         DEF Mutator, Call, Use, CallAlloc, CallCollect, FrontCheck, Reserve,
             NoRoom, Emplace, Construct, Catch, CollectLoop, StartCollection,
             SkipCollection, LoadPtr, ClearSlot, StorePtr, WriteField,
             WriteData, Uses, collection
    <2>2. w.pc = "idle"
      BY <1>2, SerialQuiet DEF HeapInv, PtrInv
    <2>3. QED
      BY <2>1, <2>2 DEF LastInv
  <1>3. CASE CopyWord
    <2>1. /\ UNCHANGED m_metadata /\ w.pc = "copy"
          /\ w'.new = w.new /\ w'.to = w.to
      BY <1>3, CopyWordHeap DEF HeapInv
    <2>2. QED
      BY <2>1 DEF LastInv
  <1>4. CASE CopyEmplace
    <2>1. /\ w.pc = "emplace" /\ w'.pc = "copy" /\ w'.new = w.new /\ w'.to = w.to
          /\ w.to = m_space_num
      BY <1>0, <1>4, WorkerType DEF CopyEmplace, WorkerState, HeapInv
    <2>2. /\ DOMAIN m_metadata' = DOMAIN m_metadata \cup {w.new}
          /\ \A o \in DOMAIN m_metadata : m_metadata'[o] = m_metadata[o]
      BY <1>4 DEF CopyEmplace, Emplaced
    <2>3. \A o \in DOMAIN m_metadata :
            o[1] = w.to => o[2] + m_metadata[o].size <= w.new[2]
      BY <2>1 DEF CapacityInv, ObjectsIn
    <2>4. QED
      BY <2>1, <2>2, <2>3 DEF LastInv
  <1>5. CASE \/ TaskStart \/ (\E l \in w.roots : TakeRoot(l)) \/ ReadTop
             \/ Redirect \/ Ignore \/ Scan \/ ScanMember
             \/ CopyReserve \/ CopyCheck \/ CopyAbort
             \/ Swing \/ EraseOld \/ Sweep \/ Finish
    <2>1. w'.pc # "copy"
      <3>1. CASE CopyReserve
        BY <1>0, <3>1 DEF CopyReserve, WorkerState
      <3>2. CASE TaskStart
        BY <3>2 DEF TaskStart, IdleWorker
      <3>3. CASE Finish
        BY <3>3 DEF Finish, IdleWorker
      <3>4. CASE \/ (\E l \in w.roots : TakeRoot(l)) \/ ReadTop
                 \/ Redirect \/ Ignore \/ Scan \/ ScanMember
        BY <1>0, <3>4 DEF TakeRoot, ReadTop, Redirect, Ignore, Scan, ScanMember,
                          WorkerState
      <3>5. CASE CopyCheck \/ CopyAbort \/ Swing \/ EraseOld \/ Sweep
        BY <1>0, <3>5 DEF CopyCheck, CopyAbort, Swing, EraseOld, Sweep,
                          WorkerState
      <3>6. QED
        BY <1>5, <3>1, <3>2, <3>3, <3>4, <3>5
    <2>2. QED
      BY <2>1 DEF LastInv
  <1>6. QED
    BY <1>1, <1>2, <1>3, <1>4, <1>5 DEF Next, Collection

(* What an access writes behind the copy belongs to no object.              *)
LEMMA NothingClobbered ==
  ASSUME HeapInv, LastInv, CopyWord, NEW l \in Stack
  PROVE  ~ Clobbered(l)
  <1>1. w.pc = "copy" /\ w.new[1] = w.to
    BY DEF CopyWord, HeapInv, DInv, MovedInv
  <1>2. PICK p : p = Target(l)
    OBVIOUS
  <1>3. SUFFICES ASSUME p \in DOMAIN m_metadata,
                        NEW c \in Cells(p, m_metadata[p].size), c \in Overrun
                 PROVE  FALSE
    BY <1>2 DEF Clobbered
  <1>4. /\ w.new[2] \in Nat /\ old_data.size \in Nat
        /\ m_metadata[w.new] = old_data
        /\ p[2] \in Nat /\ m_metadata[p].size \in Nat
    BY <1>1, <1>3, CopyingType, WorkerType DEF HeapInv, Moving
  <1>5. /\ c[1] = w.new[1] /\ c[1] = p[1] /\ c[2] \in Int
        /\ c[2] >= w.new[2] + old_data.size
        /\ c[2] < p[2] + m_metadata[p].size
    <2>1. c \in {p[1]} \X (p[2] .. (p[2] + m_metadata[p].size - 1))
      BY <1>3 DEF Cells
    <2>2. c \in {w.new[1]} \X (w.new[2] + old_data.size .. w.new[2] + copied - 1)
      BY <1>3 DEF Overrun
    <2>3. /\ c[1] = p[1] /\ c[2] \in p[2] .. (p[2] + m_metadata[p].size - 1)
          /\ c[1] = w.new[1]
          /\ c[2] \in w.new[2] + old_data.size .. w.new[2] + copied - 1
      BY <2>1, <2>2
    <2>4. QED
      BY <1>4, <2>3
  <1>6. p[2] + m_metadata[p].size <= w.new[2] \/ p = w.new
    BY <1>1, <1>3, <1>5 DEF LastInv
  <1>7. QED
    BY <1>4, <1>5, <1>6

(* With the serial policy the program cannot tell that there is a           *)
(* collector, whatever it copies and writes through its pointers: the       *)
(* mutators do what a managed heap offers, and no collection shows.  A copy *)
(* may overrun, but nobody has been given what lies behind it.              *)
THEOREM SerialInvisible ==
  ASSUME Serial, AlignedRequests, "field" \notin Ops
  PROVE  Spec => CollectionInvisible
  <1> DEFINE Inv == HeapInv /\ CapacityInv /\ LastInv
  <1>0. OneMutator /\ PointersInVariables
    BY SerialAlone DEF PointersInVariables
  <1>1. /\ Inv /\ HeapInv' /\ [Next]_vars => [Program!Next]_(Program!vars)
        /\ Inv /\ HeapInv' /\ [Next]_vars =>
             [Collection => UNCHANGED Program!vars]_vars
    <2>1. ASSUME CapacityInv PROVE Finish => w.pc = "swept"
      BY <2>1 DEF Finish, CapacityInv
    <2>2. ASSUME HeapInv, LastInv
          PROVE  CopyWord => \A l \in Stack : ~ Clobbered(l)
      BY <2>2, NothingClobbered
    <2>3. QED
      BY <1>0, <2>1, <2>2, StepView
  <1>2. LastInv /\ HeapInv /\ CapacityInv /\ [Next]_vars => LastInv'
    BY StepLast
  <1>3. Init => LastInv
    BY DEF Init, IdleWorker, LastInv
  <1>4. QED
    BY <1>1, <1>2, <1>3, InitView, SerialHeap, PTL
       DEF Spec, CollectionInvisible, Program!Spec

(* ... and what it writes through a pointer is what it reads there next.    *)
THEOREM SerialWritesKept ==
  ASSUME Serial, AlignedRequests, "field" \notin Ops
  PROVE  Spec => WritesKept
  <1>1. HeapInv /\ HeapInv' =>
          \A t \in Threads, d \in Data :
            WriteData(t, d) => \E l \in Stack : Program!Write(l, d)
    BY WriteDataIsWrite
  <1>2. QED
    BY <1>1, SerialHeap, PTL DEF WritesKept
=============================================================================
