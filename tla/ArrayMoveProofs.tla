-------------------------- MODULE ArrayMoveProofs --------------------------
(***************************************************************************)
(* Proofs about an array that is moved while the program uses it, for      *)
(* arrays of any length at any address, of elements of 1, 2, 4 or 8 bytes, *)
(* and any number of writes.                                               *)
(***************************************************************************)
EXTENDS ArrayMove, TLAPS

(* Elements whose copy is complete, and elements in the register            *)
Copied == {e \in Elements : (e + 1) * array.elem <= i}
InReg == {e \in Elements : i <= e * array.elem /\ (e + 1) * array.elem <= Loaded}
(* Whoever will use the old object next has written nowhere else.           *)
OldInUse == m_ptr = "old" \/ (th.pc \in {"access", "read"} /\ th.ptr = "old")

ThreadType == [pc : {"idle", "access", "clone", "read"},
               ptr : {"old", "new"}, e : Nat]
Cells == Nat \cup {Behind, Neighbour}

TypeInv ==
  /\ array \in Arrays
  /\ n \in Nat /\ i \in Nat /\ moved \in BOOLEAN /\ m_ptr \in {"old", "new"}
  /\ old \in [0 .. (Size(array) - 1) -> 0 .. n]
  /\ new \in [0 .. (Size(array) + 6) -> Cells]
  /\ reg \in Seq(Cells)
  /\ th \in ThreadType
  /\ th.pc \in {"access", "read"} => th.e \in Elements
  /\ res \in Seq(Nat)
  /\ want \in [Elements -> 0 .. n]
  /\ late \subseteq Elements

(* The copy loop is between two elements, and not beyond the last word that *)
(* holds a byte of the array; what it has not reached is as it was.         *)
LoopInv ==
  /\ i % array.elem = 0
  /\ array.src + i <= 8 * ((array.src + Size(array) + 7) \div 8)
  /\ reg # <<>> => Copying /\ Len(reg) = Width(array.src + i)
  /\ \A b \in DOMAIN new : b >= i => new[b] = Neighbour
  /\ moved => ~ Copying /\ reg = <<>>
  /\ (m_ptr = "new") <=> moved
  /\ th.ptr = "new" => m_ptr = "new"

(* No element is torn, in the old object, the copy or the register.         *)
WholeInv ==
  /\ \A e \in Elements : \A b, c \in Bytes(e) : old[b] = old[c]
  /\ \A e \in Copied : \A b, c \in Bytes(e) :
       new[b] = new[c] /\ new[b] \in 0 .. n
  /\ \A e \in InReg : \A b, c \in Bytes(e) :
       reg[b - i + 1] = reg[c - i + 1] /\ reg[b - i + 1] \in 0 .. n

(* Where the last value written to an element is                            *)
WantInv ==
  /\ OldInUse => \A e \in Elements : \A b \in Bytes(e) : old[b] = want[e]
  /\ \A e \in Copied \ late : \A b \in Bytes(e) : new[b] = want[e]
  /\ \A e \in InReg \ late : \A b \in Bytes(e) : reg[b - i + 1] = want[e]
  /\ th.pc \in {"clone", "read"} =>
       /\ Len(res) = th.e
       /\ \A k \in 1 .. Len(res) : k - 1 \notin late => res[k] = want[k - 1]

IInv == TypeInv /\ LoopInv /\ WholeInv /\ WantInv

-----------------------------------------------------------------------------
(* The elements of an array lie next to each other and fill it.             *)
LEMMA Layout ==
  ASSUME array \in Arrays
  PROVE  /\ array.elem \in {1, 2, 4, 8} /\ array.src \in Nat
         /\ array.len \in Nat \ {0} /\ array.src % array.elem = 0
         /\ Size(array) \in Nat /\ Size(array) > 0
         /\ \A e \in Elements :
              /\ e \in Nat /\ e * array.elem \in Bytes(e)
              /\ Bytes(e) \subseteq 0 .. (Size(array) - 1)
         /\ \A e, f \in Elements : e # f => Bytes(e) \cap Bytes(f) = {}
<1>1. /\ array.elem \in {1, 2, 4, 8} /\ array.src \in Nat
      /\ array.len \in Nat \ {0} /\ array.src % array.elem = 0
  BY ArraysAssumption
<1>2. CASE array.elem = 1
  BY <1>1, <1>2 DEF Elements, Bytes, Size
<1>3. CASE array.elem = 2
  BY <1>1, <1>3 DEF Elements, Bytes, Size
<1>4. CASE array.elem = 4
  BY <1>1, <1>4 DEF Elements, Bytes, Size
<1>5. CASE array.elem = 8
  BY <1>1, <1>5 DEF Elements, Bytes, Size
<1>q. QED
  BY <1>1, <1>2, <1>3, <1>4, <1>5

(* A place between two elements has every element on one side of it.        *)
LEMMA Boundary ==
  ASSUME array \in Arrays, NEW j \in Nat, j % array.elem = 0,
         NEW e \in Elements
  PROVE  \/ (e + 1) * array.elem <= j /\ \A b \in Bytes(e) : b < j
         \/ j <= e * array.elem /\ \A b \in Bytes(e) : b >= j
<1>1. array.elem \in {1, 2, 4, 8} /\ array.len \in Nat \ {0}
  BY ArraysAssumption
<1>2. CASE array.elem = 1
  BY <1>1, <1>2 DEF Elements, Bytes
<1>3. CASE array.elem = 2
  BY <1>1, <1>3 DEF Elements, Bytes
<1>4. CASE array.elem = 4
  BY <1>1, <1>4 DEF Elements, Bytes
<1>5. CASE array.elem = 8
  BY <1>1, <1>5 DEF Elements, Bytes
<1>q. QED
  BY <1>1, <1>2, <1>3, <1>4, <1>5

(* Only one side, and if everything is on the left the array ends there.    *)
LEMMA Sides ==
  ASSUME array \in Arrays, NEW j \in Nat, NEW k \in Nat, j <= k,
         NEW e \in Elements
  PROVE  /\ ~ ((e + 1) * array.elem <= j /\ k <= e * array.elem)
         /\ (e + 1) * array.elem <= j => (e + 1) * array.elem <= k
         /\ k <= e * array.elem => j <= e * array.elem
         /\ Size(array) <= j => (e + 1) * array.elem <= j
<1>1. array.elem \in {1, 2, 4, 8} /\ array.len \in Nat \ {0}
  BY ArraysAssumption
<1>2. CASE array.elem = 1
  BY <1>1, <1>2 DEF Elements, Size
<1>3. CASE array.elem = 2
  BY <1>1, <1>3 DEF Elements, Size
<1>4. CASE array.elem = 4
  BY <1>1, <1>4 DEF Elements, Size
<1>5. CASE array.elem = 8
  BY <1>1, <1>5 DEF Elements, Size
<1>q. QED
  BY <1>1, <1>2, <1>3, <1>4, <1>5

(* An access begins and ends between two elements, and inside one word.     *)
LEMMA Access ==
  ASSUME array \in Arrays, NEW j \in Nat, j % array.elem = 0
  PROVE  /\ Width(array.src + j) \in {1, 2, 4, 8}
         /\ (j + Width(array.src + j)) % array.elem = 0
         /\ j < Size(array) =>
              array.src + (j + Width(array.src + j))
                <= 8 * ((array.src + Size(array) + 7) \div 8)
<1> DEFINE at == array.src + j
           w == Width(array.src + j)
<1>1. /\ array.elem \in {1, 2, 4, 8} /\ array.src \in Nat
      /\ array.src % array.elem = 0 /\ Size(array) \in Nat
  BY Layout
<1>2. /\ w \in {1, 2, 4, 8}
      /\ w = 8 => at % 8 = 0
      /\ w = 4 => at % 8 = 4
      /\ w = 2 => at % 4 = 2
      /\ w = 1 => at % 4 # 2 /\ at % 8 # 4 /\ at % 8 # 0
  BY <1>1 DEF Width
<1> HIDE DEF w
<1>3. at \in Nat
  BY <1>1
<1>4. at + w <= 8 * (at \div 8) + 8
  <2>1. CASE w = 8
    BY <1>2, <1>3, <2>1
  <2>2. CASE w = 4
    BY <1>2, <1>3, <2>2
  <2>3. CASE w = 2
    BY <1>2, <1>3, <2>3
  <2>4. CASE w = 1
    BY <1>2, <1>3, <2>4
  <2>q. QED
    BY <1>2, <2>1, <2>2, <2>3, <2>4
<1>5. j < Size(array) =>
        8 * (at \div 8) + 8 <= 8 * ((array.src + Size(array) + 7) \div 8)
  BY <1>1
<1>6. (j + w) % array.elem = 0
  <2>1. CASE array.elem = 1
    BY <1>2, <2>1
  <2>2. CASE array.elem = 2
    BY <1>1, <1>2, <2>2
  <2>3. CASE array.elem = 4
    <3>1. at \in Nat /\ at % 4 = 0 /\ (at % 8 = 0 \/ at % 8 = 4)
      BY <1>1, <2>3
    <3>2. w = 8 \/ w = 4
      BY <1>2, <3>1
    <3>q. QED
      BY <2>3, <3>2
  <2>4. CASE array.elem = 8
    BY <1>1, <1>2, <2>4
  <2>q. QED
    BY <1>1, <2>1, <2>2, <2>3, <2>4
<1>7. j < Size(array) =>
        array.src + (j + w) <= 8 * ((array.src + Size(array) + 7) \div 8)
  BY <1>1, <1>2, <1>3, <1>4, <1>5
<1>q. QED
  BY <1>2, <1>6, <1>7 DEF w

-----------------------------------------------------------------------------
(* The first state satisfies the invariant.                                 *)
LEMMA InitInv == Init => IInv
<1> SUFFICES ASSUME Init PROVE IInv
  OBVIOUS
<1>1. array \in Arrays
  BY DEF Init
<1>2. /\ array.elem \in {1, 2, 4, 8} /\ array.src \in Nat
      /\ Size(array) \in Nat /\ Size(array) > 0
      /\ \A e \in Elements : Bytes(e) \subseteq 0 .. (Size(array) - 1)
  BY <1>1, Layout
<1>3. TypeInv
  BY <1>1, <1>2 DEF Init, TypeInv, Cells, ThreadType, Idle
<1>4. LoopInv
  <2>1. 0 % array.elem = 0
    BY <1>2
  <2>2. array.src <= 8 * ((array.src + Size(array) + 7) \div 8)
    BY <1>2
  <2>q. QED
    BY <1>2, <2>1, <2>2 DEF Init, LoopInv, Idle
<1>5. Copied = {} /\ InReg = {}
  <2>1. i = 0 /\ Loaded = 0
    BY DEF Init, Loaded
  <2>2. \A e \in Elements : ~ ((e + 1) * array.elem <= 0)
    BY <1>1, <1>2, Layout DEF Elements
  <2>q. QED
    BY <2>1, <2>2 DEF Copied, InReg
<1>6. \A e \in Elements : \A b \in Bytes(e) : old[b] = 0 /\ want[e] = 0
  BY <1>2 DEF Init
<1>7. WholeInv
  BY <1>5, <1>6 DEF WholeInv
<1>8. WantInv
  BY <1>5, <1>6 DEF WantInv, Init, Idle
<1>q. QED
  BY <1>3, <1>4, <1>7, <1>8 DEF IInv

(* What the register holds is loaded between two elements.                  *)
LEMMA Loading ==
  ASSUME TypeInv, LoopInv
  PROVE  /\ Loaded \in Nat /\ Loaded % array.elem = 0 /\ i <= Loaded
         /\ array.src + Loaded <= 8 * ((array.src + Size(array) + 7) \div 8)
         /\ Loaded = i + Len(reg) /\ (reg = <<>> => Loaded = i)
<1>1. array \in Arrays /\ i \in Nat /\ i % array.elem = 0 /\ reg \in Seq(Cells)
  BY DEF TypeInv, LoopInv
<1>2. CASE reg = <<>>
  BY <1>1, <1>2 DEF Loaded, LoopInv
<1>3. CASE reg # <<>>
  <2>1. i < Size(array) /\ Len(reg) = Width(array.src + i)
    BY <1>3 DEF LoopInv, Copying
  <2>2. /\ Len(reg) \in {1, 2, 4, 8} /\ (i + Len(reg)) % array.elem = 0
        /\ array.src + (i + Len(reg))
             <= 8 * ((array.src + Size(array) + 7) \div 8)
    BY <1>1, <2>1, Access
  <2>q. QED
    BY <1>1, <1>3, <2>2 DEF Loaded
<1>q. QED
  BY <1>2, <1>3

(* An element is copied, in the register, or not reached yet.               *)
LEMMA Places ==
  ASSUME TypeInv, LoopInv, NEW e \in Elements
  PROVE  \/ e \in Copied /\ e \notin InReg /\ \A b \in Bytes(e) : b < i
         \/ /\ e \in InReg /\ e \notin Copied
            /\ \A b \in Bytes(e) : i <= b /\ b < Loaded
         \/ /\ e \notin Copied /\ e \notin InReg /\ Loaded <= e * array.elem
            /\ \A b \in Bytes(e) : Loaded <= b
<1>1. /\ array \in Arrays /\ i \in Nat /\ i % array.elem = 0
      /\ Loaded \in Nat /\ Loaded % array.elem = 0 /\ i <= Loaded
  BY Loading DEF TypeInv, LoopInv
<1>2. \/ (e + 1) * array.elem <= i /\ \A b \in Bytes(e) : b < i
      \/ i <= e * array.elem /\ \A b \in Bytes(e) : b >= i
  BY <1>1, Boundary
<1>3. \/ (e + 1) * array.elem <= Loaded /\ \A b \in Bytes(e) : b < Loaded
      \/ Loaded <= e * array.elem /\ \A b \in Bytes(e) : b >= Loaded
  BY <1>1, Boundary
<1>4. /\ ~ ((e + 1) * array.elem <= i /\ Loaded <= e * array.elem)
      /\ (e + 1) * array.elem <= i => (e + 1) * array.elem <= Loaded
      /\ Loaded <= e * array.elem => i <= e * array.elem
  BY <1>1, Sides
<1>5. /\ ~ ((e + 1) * array.elem <= i /\ i <= e * array.elem)
      /\ ~ ((e + 1) * array.elem <= Loaded /\ Loaded <= e * array.elem)
  BY <1>1, Sides
<1>6. \A b \in Bytes(e) : b \in Int
  BY <1>1, Layout
<1>q. QED
  BY <1>2, <1>3, <1>4, <1>5, <1>6 DEF Copied, InReg

(* The bytes of an element in the register are those of the last load.      *)
Reached == \A e \in InReg : \A b \in Bytes(e) : i <= b /\ b < Loaded
LEMMA BytesReached == TypeInv /\ LoopInv => Reached
BY Places DEF InReg, Reached

(* An empty register holds no element.                                      *)
NoneInReg == reg = <<>> => InReg = {}
LEMMA NothingLoaded == TypeInv /\ LoopInv => NoneInReg
<1> SUFFICES ASSUME TypeInv, LoopInv, reg = <<>> PROVE InReg = {}
  BY DEF NoneInReg
<1>1. array \in Arrays /\ i \in Nat /\ Loaded = i
  BY Loading DEF TypeInv
<1>2. \A e \in Elements : ~ ((e + 1) * array.elem <= i /\ i <= e * array.elem)
  BY <1>1, Sides
<1>q. QED
  BY <1>1, <1>2 DEF InReg

(* Once the loop is done everything is copied.                              *)
LEMMA AllCopied ==
  ASSUME TypeInv, LoopInv, ~ Copying
  PROVE  Copied = Elements /\ InReg = {}
<1>1. array \in Arrays /\ i \in Nat /\ Size(array) \in Nat
  BY Layout DEF TypeInv
<1>2. \A e \in Elements : (e + 1) * array.elem <= i
  BY <1>1, Sides DEF Copying
<1>q. QED
  BY <1>2, Places DEF Copied, InReg

(* What the program sees of an element through the pointer it has loaded    *)
LEMMA Seen ==
  ASSUME TypeInv, LoopInv, WholeInv, WantInv, th.pc \in {"access", "read"},
         NEW b \in Bytes(th.e)
  PROVE  /\ Memory[th.ptr][b] \in Nat
         /\ th.e \notin late => Memory[th.ptr][b] = want[th.e]
<1>1. /\ th.e \in Elements /\ array \in Arrays /\ n \in Nat
      /\ th.ptr \in {"old", "new"}
      /\ old \in [0 .. (Size(array) - 1) -> 0 .. n]
  BY DEF TypeInv, ThreadType
<1>2. b \in 0 .. (Size(array) - 1)
  BY <1>1, Layout
<1>3. CASE th.ptr = "old"
  <2>1. Memory[th.ptr][b] = old[b] /\ OldInUse
    BY <1>3 DEF Memory, OldInUse
  <2>q. QED
    BY <1>1, <1>2, <2>1 DEF WantInv
<1>4. CASE th.ptr = "new"
  <2>1. Memory[th.ptr][b] = new[b]
    BY <1>4 DEF Memory
  <2>2. th.e \in Copied
    BY <1>1, <1>4, AllCopied DEF LoopInv
  <2>q. QED
    BY <1>1, <2>1, <2>2 DEF WholeInv, WantInv
<1>q. QED
  BY <1>1, <1>3, <1>4

(* Layout of the array that all states have in common                       *)
LEMMA SameArray ==
  ASSUME UNCHANGED array
  PROVE  /\ Elements' = Elements /\ Size(array') = Size(array)
         /\ \A e : Bytes(e)' = Bytes(e)
  BY DEF Elements, Bytes

-----------------------------------------------------------------------------
(* A load fills the register with the whole elements it reaches.            *)
LEMMA CpyLoadStep == IInv /\ CpyLoad => IInv'
<1> SUFFICES ASSUME IInv, CpyLoad PROVE IInv'
  OBVIOUS
<1> DEFINE w == Width(array.src + i)
<1>0. /\ TypeInv /\ LoopInv /\ WholeInv /\ WantInv
      /\ Copying /\ reg = <<>> /\ i \in Nat /\ array \in Arrays
      /\ UNCHANGED <<array, old, new, i, moved, m_ptr, th, res, n, want, late>>
  BY DEF IInv, CpyLoad, program, TypeInv
<1>1. w \in {1, 2, 4, 8}
  BY <1>0, Access DEF LoopInv
<1>2. DOMAIN old = 0 .. (Size(array) - 1) /\ Size(array) \in Nat
  BY <1>0, Layout DEF TypeInv
<1>3. /\ reg' = [k \in 1 .. w |-> IF i + k - 1 \in DOMAIN old
                                  THEN old[i + k - 1] ELSE Behind]
      /\ \A k \in 1 .. w : reg'[k] \in Cells
      /\ reg' \in Seq(Cells) /\ Len(reg') = w /\ reg' # <<>>
  <2>1. reg' = [k \in 1 .. w |-> IF i + k - 1 \in DOMAIN old
                                 THEN old[i + k - 1] ELSE Behind]
    BY DEF CpyLoad
  <2>2. \A k \in DOMAIN old : old[k] \in Nat
    BY <1>0 DEF TypeInv
  <2>3. \A k \in 1 .. w : reg'[k] \in Cells
    BY <2>1, <2>2 DEF Cells
  <2> HIDE DEF w
  <2>4. reg' \in Seq(Cells) /\ Len(reg') = w /\ reg' # <<>>
    BY <1>1, <2>1, <2>3
  <2>q. QED
    BY <2>1, <2>3, <2>4
<1>4. TypeInv'
  BY <1>0, <1>3, SameArray DEF TypeInv
<1>5. LoopInv'
  BY <1>0, <1>3 DEF LoopInv, Copying
<1>6. Copied' = Copied
  BY <1>0 DEF Copied, Elements
<1>7. ASSUME NEW e \in InReg', NEW b \in Bytes(e)
      PROVE  e \in Elements /\ reg'[b - i + 1] = old[b] /\ b \in DOMAIN old
  <2>1. e \in Elements /\ Bytes(e)' = Bytes(e) /\ e \in Elements'
    BY <1>0, <1>7, SameArray DEF InReg
  <2>2. \A c \in Bytes(e)' : i' <= c /\ c < Loaded'
    <3>1. Reached'
      BY <1>4, <1>5, BytesReached, PTL
    <3>q. QED
      BY <1>7, <3>1 DEF Reached
  <2>3. Loaded' = i + w
    BY <1>0, <1>3 DEF Loaded
  <2>4. b \in 0 .. (Size(array) - 1)
    BY <1>0, <1>7, <2>1, Layout
  <2>q. QED
    BY <1>0, <1>1, <1>2, <1>3, <1>7, <2>1, <2>2, <2>3, <2>4
<1>8. \A b \in DOMAIN old : old[b] \in 0 .. n
  BY <1>0 DEF TypeInv
<1>9. WholeInv'
  BY <1>0, <1>6, <1>7, <1>8, SameArray DEF WholeInv
<1>10. OldInUse /\ OldInUse'
  BY <1>0 DEF OldInUse, LoopInv, TypeInv
<1>11. WantInv'
  BY <1>0, <1>6, <1>7, <1>10, SameArray DEF WantInv
<1>q. QED
  BY <1>4, <1>5, <1>9, <1>11 DEF IInv

(* A store moves the whole elements of the register into the copy.          *)
LEMMA CpyStoreStep == IInv /\ CpyStore => IInv'
<1> SUFFICES ASSUME IInv, CpyStore PROVE IInv'
  OBVIOUS
<1>0. /\ TypeInv /\ LoopInv /\ WholeInv /\ WantInv
      /\ reg # <<>> /\ reg \in Seq(Cells) /\ i \in Nat /\ array \in Arrays
      /\ Copying /\ ~ moved
      /\ reg' = <<>> /\ i' = i + Len(reg)
      /\ UNCHANGED <<array, old, moved, m_ptr, th, res, n, want, late>>
  BY DEF IInv, CpyStore, program, TypeInv, LoopInv
<1>1. /\ i' = Loaded /\ Loaded \in Nat /\ Loaded % array.elem = 0
      /\ array.src + Loaded <= 8 * ((array.src + Size(array) + 7) \div 8)
      /\ Loaded' = Loaded /\ i <= Loaded
  BY <1>0, Loading DEF Loaded
<1>2. /\ DOMAIN new = 0 .. (Size(array) + 6) /\ Size(array) \in Nat
      /\ \A b \in DOMAIN new : new[b] \in Cells
      /\ new' = [b \in DOMAIN new |-> IF b - i + 1 \in DOMAIN reg
                                      THEN reg[b - i + 1] ELSE new[b]]
  BY <1>0, Layout DEF TypeInv, CpyStore
<1>3. /\ DOMAIN reg = 1 .. Len(reg) /\ Len(reg) \in Nat
      /\ \A k \in DOMAIN reg : reg[k] \in Cells
  BY <1>0
<1>4. ASSUME NEW b \in DOMAIN new
      PROVE  /\ b < i => new'[b] = new[b]
             /\ i <= b /\ b < Loaded => new'[b] = reg[b - i + 1]
             /\ Loaded <= b => new'[b] = new[b]
  BY <1>0, <1>1, <1>2, <1>3, Loading
<1>5. TypeInv'
  <2>1. \A b \in DOMAIN new : new'[b] \in Cells
    BY <1>2, <1>3
  <2>2. new' \in [0 .. (Size(array) + 6) -> Cells]
    BY <1>2, <2>1
  <2>3. <<>> \in Seq(Cells)
    OBVIOUS
  <2>q. QED
    BY <1>0, <1>1, <2>2, <2>3, SameArray DEF TypeInv
<1>6. LoopInv'
  <2>1. \A b \in DOMAIN new' : b >= i' => new'[b] = Neighbour
    BY <1>0, <1>1, <1>2, <1>4 DEF LoopInv
  <2>2. Size(array') = Size(array) /\ array' = array
    BY <1>0, SameArray
  <2>q. QED
    BY <1>0, <1>1, <2>1, <2>2 DEF LoopInv
<1>7. InReg' = {}
  <2>1. NoneInReg'
    BY <1>5, <1>6, NothingLoaded, PTL
  <2>q. QED
    BY <1>0, <2>1 DEF NoneInReg
<1>8. ASSUME NEW e \in Copied'
      PROVE  /\ e \in Elements
             /\ \/ e \in Copied /\ \A b \in Bytes(e) : new'[b] = new[b]
                \/ e \in InReg /\ \A b \in Bytes(e) : new'[b] = reg[b - i + 1]
  <2>1. e \in Elements /\ (e + 1) * array.elem <= Loaded
    BY <1>0, <1>1, <1>8 DEF Copied, Elements
  <2>2. \A b \in Bytes(e) : b \in DOMAIN new
    BY <1>0, <1>2, <2>1, Layout
  <2>3. ~ (Loaded <= e * array.elem)
    BY <1>0, <1>1, <2>1, Sides
  <2>q. QED
    BY <1>0, <1>4, <2>1, <2>2, <2>3, Places
<1>9. WholeInv'
  BY <1>0, <1>7, <1>8, SameArray DEF WholeInv
<1>10. WantInv'
  BY <1>0, <1>7, <1>8, SameArray DEF WantInv, OldInUse
<1>q. QED
  BY <1>5, <1>6, <1>9, <1>10 DEF IInv

(* The pointer is redirected when every element has been copied.            *)
LEMMA SwingStep == IInv /\ Swing => IInv'
<1> SUFFICES ASSUME IInv, Swing PROVE IInv'
  OBVIOUS
<1>0. /\ TypeInv /\ LoopInv /\ WholeInv /\ WantInv
      /\ ~ Copying /\ reg = <<>> /\ ~ moved /\ moved' = TRUE
      /\ m_ptr = "old" /\ m_ptr' = "new"
      /\ UNCHANGED <<array, old, new, i, reg, th, res, n, want, late>>
  BY DEF IInv, Swing, TypeInv, LoopInv
<1>1. TypeInv'
  BY <1>0, SameArray DEF TypeInv
<1>2. LoopInv'
  BY <1>0, SameArray DEF LoopInv, Copying
<1>3. Copied' = Copied /\ InReg' = InReg /\ OldInUse
  BY <1>0 DEF Copied, InReg, Elements, Loaded, OldInUse
<1>4. WholeInv'
  BY <1>0, <1>3, SameArray DEF WholeInv
<1>5. WantInv'
  BY <1>0, <1>3, SameArray DEF WantInv
<1>q. QED
  BY <1>1, <1>2, <1>4, <1>5 DEF IInv

(* What the program does without writing touches its own state only.        *)
LEMMA QuietStep ==
  ASSUME IInv, UNCHANGED <<array, old, new, i, reg, moved, m_ptr, n, want, late>>,
         th' \in ThreadType, th'.pc \in {"access", "read"} => th'.e \in Elements,
         th'.ptr = "new" => m_ptr = "new", res' \in Seq(Nat),
         OldInUse' => OldInUse,
         th'.pc \in {"clone", "read"} =>
           /\ Len(res') = th'.e
           /\ \A k \in 1 .. Len(res') : k - 1 \notin late => res'[k] = want[k - 1]
  PROVE  IInv'
<1>0. TypeInv /\ LoopInv /\ WholeInv /\ WantInv
  BY DEF IInv
<1>1. TypeInv'
  BY <1>0, SameArray DEF TypeInv
<1>2. LoopInv'
  BY <1>0, SameArray DEF LoopInv, Copying
<1>3. Copied' = Copied /\ InReg' = InReg
  BY DEF Copied, InReg, Elements, Loaded
<1>4. WholeInv'
  BY <1>0, <1>3, SameArray DEF WholeInv
<1>5. WantInv'
  BY <1>0, <1>3, SameArray DEF WantInv
<1>q. QED
  BY <1>1, <1>2, <1>4, <1>5 DEF IInv

(* Loading the pointer, reading, and the parts of clone are such steps.     *)
LEMMA ProgramStep ==
  ASSUME IInv,
         \/ \E e \in Elements : LoadPtr(e)
         \/ Read \/ Clone \/ CloneLoad \/ CloneRead
  PROVE  IInv'
<1>0. /\ TypeInv /\ LoopInv /\ WholeInv /\ WantInv
      /\ th \in ThreadType /\ res \in Seq(Nat) /\ m_ptr \in {"old", "new"}
      /\ array \in Arrays
      /\ th.pc \in {"access", "read"} => th.e \in Elements
  BY DEF IInv, TypeInv
<1>1. ASSUME NEW e \in Elements, LoadPtr(e) PROVE IInv'
  <2>1. e \in Nat
    BY <1>0, Layout
  <2>2. /\ th' \in ThreadType /\ th'.pc = "access" /\ th'.ptr = m_ptr
        /\ th'.e = e
    BY <1>0, <1>1, <2>1 DEF LoadPtr, ThreadType
  <2>q. QED
    BY <1>0, <1>1, <2>2, QuietStep DEF LoadPtr, OldInUse
<1>2. CASE Read
  <2>1. th' \in ThreadType /\ th'.pc = "idle" /\ th'.ptr = "old"
    BY <1>2 DEF Read, Idle, ThreadType
  <2>q. QED
    BY <1>0, <1>2, <2>1, QuietStep DEF Read, OldInUse
<1>3. CASE Clone
  <2>1. /\ th' \in ThreadType /\ th'.pc = "clone" /\ th'.ptr = "old"
        /\ th'.e = 0 /\ res' = <<>>
    BY <1>3 DEF Clone, Idle, ThreadType
  <2>2. res' \in Seq(Nat) /\ Len(res') = 0
    BY <2>1
  <2>q. QED
    BY <1>0, <1>3, <2>1, <2>2, QuietStep DEF Clone, OldInUse
<1>4. CASE CloneLoad
  <2>1. CASE th.e < array.len
    <3>1. /\ th' \in ThreadType /\ th'.pc = "read" /\ th'.ptr = m_ptr
          /\ th'.e = th.e
      BY <1>0, <1>4, <2>1 DEF CloneLoad, ThreadType
    <3>2. th.e \in Elements
      BY <1>0, <2>1, Layout DEF Elements, ThreadType
    <3>q. QED
      BY <1>0, <1>4, <3>1, <3>2, QuietStep DEF CloneLoad, OldInUse, WantInv
  <2>2. CASE ~ (th.e < array.len)
    <3>1. th' \in ThreadType /\ th'.pc = "idle" /\ th'.ptr = "old"
      BY <1>4, <2>2 DEF CloneLoad, Idle, ThreadType
    <3>q. QED
      BY <1>0, <1>4, <3>1, QuietStep DEF CloneLoad, OldInUse
  <2>q. QED
    BY <2>1, <2>2
<1>5. CASE CloneRead
  <2> DEFINE v == Memory[th.ptr][th.e * array.elem]
  <2>1. /\ th' \in ThreadType /\ th'.pc = "clone" /\ th'.ptr = th.ptr
        /\ th'.e = th.e + 1 /\ th.pc = "read"
        /\ res' = Append(res, v)
    <3>1. /\ th' = [th EXCEPT !.pc = "clone", !.e = th.e + 1]
          /\ th.pc = "read"
      BY <1>5 DEF CloneRead
    <3>2. th \in ThreadType /\ th.e + 1 \in Nat
      BY <1>0 DEF ThreadType
    <3>3. /\ th' \in ThreadType /\ th'.pc = "clone" /\ th'.ptr = th.ptr
          /\ th'.e = th.e + 1
      <4>1. \A y \in ThreadType, m \in Nat :
              LET z == [y EXCEPT !.pc = "clone", !.e = m]
              IN  z \in ThreadType /\ z.pc = "clone" /\ z.ptr = y.ptr /\ z.e = m
        BY DEF ThreadType
      <4>q. QED
        BY <3>1, <3>2, <4>1
    <3>4. res' = Append(res, v)
      BY <1>5 DEF CloneRead
    <3> HIDE DEF v
    <3>q. QED
      BY <3>1, <3>3, <3>4
  <2>2. th.e \in Elements /\ th.e \in Nat /\ th.e * array.elem \in Bytes(th.e)
    BY <1>0, <2>1, Layout
  <2>3. v \in Nat /\ (th.e \notin late => v = want[th.e])
    BY <1>0, <2>1, <2>2, Seen
  <2>4. /\ Len(res) = th.e
        /\ \A k \in 1 .. Len(res) : k - 1 \notin late => res[k] = want[k - 1]
    BY <1>0, <2>1 DEF WantInv
  <2> HIDE DEF v
  <2>5. /\ res' \in Seq(Nat) /\ Len(res') = Len(res) + 1
        /\ res'[Len(res) + 1] = v
        /\ \A k \in 1 .. Len(res) : res'[k] = res[k]
    BY <1>0, <2>1, <2>3
  <2>6. ASSUME NEW k \in 1 .. Len(res'), k - 1 \notin late
        PROVE  res'[k] = want[k - 1]
    <3>1. CASE k = Len(res) + 1
      BY <2>2, <2>3, <2>4, <2>5, <2>6, <3>1
    <3>2. CASE k \in 1 .. Len(res)
      BY <2>4, <2>5, <2>6, <3>2
    <3>q. QED
      BY <1>0, <2>5, <3>1, <3>2
  <2>q. QED
    <3>1. /\ UNCHANGED <<array, old, new, i, reg, moved, m_ptr, n, want, late>>
          /\ th'.ptr = "new" => m_ptr = "new"
      BY <1>0, <1>5, <2>1 DEF CloneRead, LoopInv
    <3>2. OldInUse' => OldInUse
      BY <2>1, <3>1 DEF OldInUse
    <3>3. Len(res') = th'.e
      BY <2>1, <2>2, <2>4, <2>5
    <3>q. QED
      BY <2>1, <2>5, <2>6, <3>1, <3>2, <3>3, QuietStep
<1>q. QED
  BY <1>1, <1>2, <1>3, <1>4, <1>5

(* A write goes to one whole element; the old object keeps it from the copy *)
(* exactly when the loop has read the element, which is then late.          *)
LEMMA StoreStep == IInv /\ Store => IInv'
<1> SUFFICES ASSUME IInv, Store PROVE IInv'
  OBVIOUS
<1>0. /\ TypeInv /\ LoopInv /\ WholeInv /\ WantInv
      /\ array \in Arrays /\ n \in Nat /\ i \in Nat /\ th.pc = "access"
      /\ th.e \in Elements /\ th.ptr \in {"old", "new"} /\ n' = n + 1
      /\ want' = [want EXCEPT ![th.e] = n + 1]
      /\ want \in [Elements -> 0 .. n] /\ late \subseteq Elements
      /\ old \in [0 .. (Size(array) - 1) -> 0 .. n]
      /\ new \in [0 .. (Size(array) + 6) -> Cells]
      /\ th' = Idle
      /\ UNCHANGED <<array, i, reg, moved, m_ptr, res>>
  BY DEF IInv, TypeInv, ThreadType, Store
<1>1. /\ \A e \in Elements : e # th.e =>
           \A b \in Bytes(e) : b \notin Bytes(th.e)
      /\ \A e \in Elements : \A b \in Bytes(e) :
           b \in DOMAIN old /\ b \in DOMAIN new
      /\ \A b \in Bytes(th.e) : b < Size(array)
      /\ Size(array) \in Nat
  BY <1>0, Layout
<1>2. /\ want'[th.e] = n + 1
      /\ \A e \in Elements \ {th.e} : want'[e] = want[e]
      /\ want' \in [Elements -> 0 .. n']
  BY <1>0
<1>3. /\ th' \in ThreadType /\ th'.pc = "idle" /\ th'.ptr = "old"
  BY <1>0 DEF Idle, ThreadType
<1>4. Copied' = Copied /\ InReg' = InReg /\ Loaded' = Loaded
  BY <1>0 DEF Copied, InReg, Elements, Loaded
<1>7. /\ Elements' = Elements /\ reg' = reg /\ i' = i
      /\ \A e : Bytes(e)' = Bytes(e)
  BY <1>0, SameArray
<1>5. CASE th.ptr = "old"
  <2>1. /\ old' = [b \in DOMAIN old |-> IF b \in Bytes(th.e) THEN n + 1 ELSE old[b]]
        /\ new' = new
        /\ late' = IF th.e * array.elem < Loaded THEN late \cup {th.e} ELSE late
    BY <1>0, <1>5 DEF Store
  <2>2. /\ \A b \in Bytes(th.e) : old'[b] = n + 1
        /\ \A e \in Elements \ {th.e} : \A b \in Bytes(e) : old'[b] = old[b]
    BY <1>0, <1>1, <2>1
  <2>3. OldInUse /\ late \subseteq late' /\ late' \subseteq Elements
    BY <1>0, <1>5, <2>1 DEF OldInUse
  <2>4. th.e \in Copied \cup InReg => th.e \in late'
    <3>1. /\ Loaded \in Nat /\ i <= Loaded
          /\ th.e * array.elem \in Bytes(th.e) /\ th.e * array.elem \in Int
      BY <1>0, Layout, Loading
    <3>2. th.e \in Copied \cup InReg => th.e * array.elem < Loaded
      BY <1>0, <3>1, Places
    <3>q. QED
      BY <2>1, <3>2
  <2>5. TypeInv'
    <3>1. old' \in [0 .. (Size(array) - 1) -> 0 .. n']
      BY <1>0, <2>1
    <3>q. QED
      BY <1>0, <1>2, <1>3, <2>1, <2>3, <3>1, SameArray DEF TypeInv
  <2>6. LoopInv'
    BY <1>0, <1>3, <2>1, SameArray DEF LoopInv, Copying
  <2>7. WholeInv'
    <3>1. \A e \in Elements : \A b, c \in Bytes(e) : old'[b] = old'[c]
      BY <1>0, <2>2 DEF WholeInv
    <3>2. \A e \in Copied : \A b, c \in Bytes(e) :
            new[b] = new[c] /\ new[b] \in 0 .. n'
      BY <1>0 DEF WholeInv
    <3>3. \A e \in InReg : \A b, c \in Bytes(e) :
            reg[b - i + 1] = reg[c - i + 1] /\ reg[b - i + 1] \in 0 .. n'
      BY <1>0 DEF WholeInv
    <3>4. (\A e \in Elements : \A b, c \in Bytes(e) : old[b] = old[c])'
      BY <1>7, <3>1
    <3>5. (\A e \in Copied : \A b, c \in Bytes(e) :
             new[b] = new[c] /\ new[b] \in 0 .. n)'
      BY <1>4, <1>7, <2>1, <3>2
    <3>6. (\A e \in InReg : \A b, c \in Bytes(e) :
             reg[b - i + 1] = reg[c - i + 1] /\ reg[b - i + 1] \in 0 .. n)'
      BY <1>4, <1>7, <3>3
    <3>q. QED
      BY <3>4, <3>5, <3>6 DEF WholeInv
  <2>8. WantInv'
    <3>1. \A e \in Elements : \A b \in Bytes(e) : old'[b] = want'[e]
      BY <1>0, <1>2, <2>2, <2>3 DEF WantInv
    <3>2. \A e \in Copied \ late' : \A b \in Bytes(e) : new[b] = want'[e]
      BY <1>0, <1>2, <2>3, <2>4 DEF WantInv, Copied
    <3>3. \A e \in InReg \ late' : \A b \in Bytes(e) :
            reg[b - i + 1] = want'[e]
      BY <1>0, <1>2, <2>3, <2>4 DEF WantInv, InReg
    <3>q. QED
      BY <1>3, <1>4, <1>7, <2>1, <3>1, <3>2, <3>3 DEF WantInv
  <2>q. QED
    BY <2>5, <2>6, <2>7, <2>8 DEF IInv
<1>6. CASE th.ptr = "new"
  <2>1. /\ new' = [b \in DOMAIN new |-> IF b \in Bytes(th.e) THEN n + 1 ELSE new[b]]
        /\ old' = old /\ late' = late \ {th.e}
    BY <1>0, <1>6 DEF Store
  <2>2. /\ \A b \in Bytes(th.e) : new'[b] = n + 1
        /\ \A e \in Elements \ {th.e} : \A b \in Bytes(e) : new'[b] = new[b]
        /\ DOMAIN new' = DOMAIN new
    BY <1>0, <1>1, <2>1
  <2>3. /\ m_ptr = "new" /\ ~ Copying /\ Copied = Elements /\ InReg = {}
    BY <1>0, <1>6, AllCopied DEF LoopInv
  <2>4. ~ OldInUse'
    BY <1>0, <1>3, <2>3 DEF OldInUse
  <2>5. TypeInv'
    <3>1. new' \in [0 .. (Size(array) + 6) -> Cells]
      BY <1>0, <2>1 DEF Cells
    <3>2. old' \in [0 .. (Size(array) - 1) -> 0 .. n']
      BY <1>0, <2>1
    <3>q. QED
      BY <1>0, <1>2, <1>3, <2>1, <3>1, <3>2, SameArray DEF TypeInv
  <2>6. LoopInv'
    <3>1. \A b \in DOMAIN new' : b >= i => new'[b] = Neighbour
      BY <1>0, <1>1, <2>1, <2>3 DEF LoopInv, Copying
    <3>q. QED
      BY <1>0, <1>3, <2>3, <3>1, SameArray DEF LoopInv, Copying
  <2>7. WholeInv'
    <3>1. \A e \in Elements : \A b, c \in Bytes(e) :
            new'[b] = new'[c] /\ new'[b] \in 0 .. n'
      <4>1. n + 1 \in 0 .. n' /\ 0 .. n \subseteq 0 .. n'
        BY <1>0
      <4>q. QED
        BY <1>0, <2>2, <2>3, <4>1 DEF WholeInv
    <3>q. QED
      <4>1. \A e \in Elements : \A b, c \in Bytes(e) : old[b] = old[c]
        BY <1>0 DEF WholeInv
      <4>q. QED
        BY <1>4, <1>7, <2>1, <2>3, <3>1, <4>1 DEF WholeInv
  <2>8. WantInv'
    <3>1. \A e \in Elements \ late' : \A b \in Bytes(e) : new'[b] = want'[e]
      <4>1. \A e \in Elements \ late : \A b \in Bytes(e) : new[b] = want[e]
        BY <1>0, <2>3 DEF WantInv
      <4>2. \A e \in Elements \ late' : e # th.e => e \in Elements \ late
        BY <2>1
      <4>q. QED
        BY <1>2, <2>2, <4>1, <4>2
    <3>q. QED
      BY <1>0, <1>3, <1>4, <2>3, <2>4, <3>1, SameArray DEF WantInv
  <2>q. QED
    BY <2>5, <2>6, <2>7, <2>8 DEF IInv
<1>q. QED
  BY <1>0, <1>5, <1>6

(* Every step preserves the invariant.                                      *)
LEMMA StepInv == IInv /\ [Next]_vars => IInv'
<1> SUFFICES ASSUME IInv, [Next]_vars PROVE IInv'
  OBVIOUS
<1>1. CASE Collection
  BY <1>1, CpyLoadStep, CpyStoreStep, SwingStep DEF Collection
<1>2. CASE Program
  BY <1>2, ProgramStep, StoreStep DEF Program
<1>3. CASE UNCHANGED vars
  <2>1. th \in ThreadType /\ res \in Seq(Nat)
    BY DEF IInv, TypeInv
  <2>q. QED
    BY <1>3, <2>1, QuietStep
       DEF vars, IInv, TypeInv, LoopInv, WantInv, OldInUse, Elements
<1>q. QED
  BY <1>1, <1>2, <1>3 DEF Next

(* The invariant for every array and every number of writes                 *)
THEOREM Invariance == Spec => []IInv
  BY InitInv, StepInv, PTL DEF Spec

(* No element of the copy is torn: the widths seq_cst_cpy chooses by the    *)
(* alignment of the source never split an element.                          *)
THEOREM NoElementTorn == Spec => []ElementsWhole
<1>1. IInv => ElementsWhole
  BY DEF IInv, WholeInv, ElementsWhole, Copied
<1>q. QED
  BY <1>1, Invariance, PTL

(* The copy loop writes behind the copy at most up to where the last word   *)
(* of the source ends.                                                      *)
THEOREM LittleOverrun == Spec => []OverrunBounded
<1>1. IInv => OverrunBounded
  <2> SUFFICES ASSUME IInv, NEW b \in DOMAIN new,
                      b >= Size(array), new[b] # Neighbour
               PROVE  array.src + b < 8 * ((array.src + Size(array) + 7) \div 8)
    BY DEF OverrunBounded
  <2>1. /\ b \in Nat /\ i \in Nat /\ array.src \in Nat /\ Size(array) \in Nat
        /\ b < i
        /\ array.src + i <= 8 * ((array.src + Size(array) + 7) \div 8)
    BY Layout DEF IInv, TypeInv, LoopInv
  <2>q. QED
    BY <2>1
<1>q. QED
  BY <1>1, Invariance, PTL

(* The writes the comment in copy gives up are the only ones lost: through  *)
(* whichever address the program has loaded it finds, and clones, the last  *)
(* value written to an element that was not written behind the copy loop.   *)
THEOREM OtherWritesKept == Spec => []OnlyLateWritesLost
<1>1. IInv => OnlyLateWritesLost
  BY Seen DEF IInv, WantInv, OnlyLateWritesLost
<1>q. QED
  BY <1>1, Invariance, PTL
=============================================================================
