------------------------ MODULE ReserveSpaceProofs ------------------------
(***************************************************************************)
(* Proofs about reserve_space for every set of callers, every request size *)
(* and alignment, every limit and every width of the padding counter.      *)
(***************************************************************************)
EXTENDS ReserveSpace, TLAPS

InLoop(c) == pc[c] \in {"pad", "cas"}

(* What a caller knows in the loop: its copy of m_next is not ahead of the  *)
(* shared value, and no index it has padded over is aligned.                *)
LoopInv ==
  \A c \in Callers : InLoop(c) =>
    /\ next[c] <= m_next
    /\ \A j \in next[c] .. (next[c] + padding_bytes[c] - 1) :
         j % req[c].alignment # 0

(* What it knows once the request has been found to fit. *)
CasInv ==
  \A c \in Callers : pc[c] = "cas" => IsAligned(c) /\ EndOf(c) <= Limit[c]

(* Every reservation lies below m_next, so the next one is apart from it.   *)
BelowNext == \A o \in objects : o.at + o.size <= m_next

IInv == /\ TypeOK
        /\ LoopInv
        /\ CasInv
        /\ BelowNext
        /\ ReservationsDisjoint
        /\ ReservationsPlaced

-----------------------------------------------------------------------------
(* A caller inside reserve_space has a request with a positive size and     *)
(* alignment: what the arithmetic of the loop relies on.                    *)
LEMMA ActiveRequest ==
  ASSUME TypeOK, NEW c \in Callers, pc[c] # "idle"
  PROVE  /\ req[c] \in Requests
         /\ req[c].size \in Nat \ {0}
         /\ req[c].alignment \in Nat \ {0}
         /\ Limit[c] \in Nat
         /\ next[c] \in Nat
         /\ padding_bytes[c] \in Nat
         /\ m_next \in Nat
  <1>1. req[c] \in Requests
    BY DEF TypeOK
  <1>2. QED
    BY <1>1, RequestsAssumption, LimitAssumption DEF TypeOK

(* Initially nobody is in a call, and no reservation exists.                *)
LEMMA InitIInv == Init => IInv
  BY DEF Init, IInv, TypeOK, LoopInv, InLoop, CasInv, BelowNext,
         ReservationsDisjoint, ReservationsPlaced

(* Each step of reserve_space keeps its variables well typed.               *)
LEMMA TypeStep == TypeOK /\ [Next]_vars => TypeOK'
  <1> SUFFICES ASSUME TypeOK, [Next]_vars PROVE TypeOK'
    OBVIOUS
  <1> USE DEF TypeOK
  <1>1. ASSUME NEW c \in Callers, NEW r \in Requests, Call(c, r)
        PROVE  TypeOK'
    BY <1>1, RequestsAssumption DEF Call
  <1>2. ASSUME NEW c \in Callers, Load(c) PROVE TypeOK'
    BY <1>2 DEF Load
  <1>3. ASSUME NEW c \in Callers, Pad(c) PROVE TypeOK'
    <2>1. (padding_bytes[c] + 1) % PadModulus \in Nat
      BY PadModulusAssumption
    <2>2. QED
      BY <1>3, <2>1 DEF Pad
  <1>4. ASSUME NEW c \in Callers, Full(c) PROVE TypeOK'
    BY <1>4 DEF Full, Return
  <1>5. ASSUME NEW c \in Callers, Fit(c) PROVE TypeOK'
    BY <1>5 DEF Fit
  <1>6. ASSUME NEW c \in Callers, CasOk(c) PROVE TypeOK'
    <2>1. pc[c] # "idle"
      BY <1>6 DEF CasOk
    <2>2. /\ req[c].size \in Nat \ {0} /\ req[c].alignment \in Nat \ {0}
      BY <2>1, ActiveRequest
    <2>3. Reservation(c) \in [at : Nat, size : Nat \ {0},
                              alignment : Nat \ {0}, by : Callers]
      BY <2>2 DEF Reservation
    <2>4. EndOf(c) \in Nat
      BY <2>2 DEF EndOf
    <2>5. QED
      BY <1>6, <2>3, <2>4 DEF CasOk, Return
  <1>7. ASSUME NEW c \in Callers, CasLost(c) PROVE TypeOK'
    BY <1>7 DEF CasLost
  <1>8. CASE UNCHANGED vars
    BY <1>8 DEF vars
  <1>9. QED
    BY <1>1, <1>2, <1>3, <1>4, <1>5, <1>6, <1>7, <1>8 DEF Next, Step

(* A new reservation starts at or above m_next and the others end there.    *)
LEMMA NewReservation ==
  ASSUME IInv, NEW c \in Callers, CasOk(c)
  PROVE  /\ EndOf(c) > m_next
         /\ Reservation(c).at >= m_next
         /\ Reservation(c).at + Reservation(c).size = EndOf(c)
         /\ Reservation(c).at % Reservation(c).alignment = 0
         /\ EndOf(c) <= Limit[c]
         /\ Reservation(c).by = c
  <1>1. pc[c] = "cas" /\ m_next = next[c]
    BY DEF CasOk
  <1>2. /\ req[c].size \in Nat \ {0} /\ next[c] \in Nat
        /\ padding_bytes[c] \in Nat
    BY <1>1, ActiveRequest DEF IInv
  <1>3. IsAligned(c) /\ EndOf(c) <= Limit[c]
    BY <1>1 DEF IInv, CasInv
  <1>4. QED
    BY <1>1, <1>2, <1>3 DEF Reservation, EndOf, IsAligned

(* What a caller knows in the loop stays true while the others reserve:     *)
(* m_next only grows, and the padding grows over unaligned indices only.    *)
LEMMA LoopStep == IInv /\ [Next]_vars => LoopInv' /\ CasInv'
  <1> SUFFICES ASSUME IInv, [Next]_vars PROVE LoopInv' /\ CasInv'
    OBVIOUS
  <1> USE DEF LoopInv, CasInv, InLoop, IsAligned, EndOf
  <1>0. TypeOK /\ LoopInv /\ CasInv
    BY DEF IInv
  <1>1. ASSUME NEW c \in Callers, NEW r \in Requests, Call(c, r)
        PROVE  LoopInv' /\ CasInv'
    BY <1>0, <1>1 DEF Call, TypeOK
  <1>2. ASSUME NEW c \in Callers, Load(c) PROVE LoopInv' /\ CasInv'
    BY <1>0, <1>2 DEF Load, TypeOK
  <1>3. ASSUME NEW c \in Callers, Pad(c) PROVE LoopInv' /\ CasInv'
    <2>1. /\ next[c] <= m_next
          /\ \A j \in next[c] .. (next[c] + padding_bytes[c] - 1) :
               j % req[c].alignment # 0
          /\ (next[c] + padding_bytes[c]) % req[c].alignment # 0
          /\ next[c] \in Nat /\ padding_bytes[c] \in Nat
      BY <1>0, <1>3 DEF Pad, TypeOK
    <2>2. (padding_bytes[c] + 1) % PadModulus <= padding_bytes[c] + 1
      BY <2>1, PadModulusAssumption
    <2>3. (padding_bytes[c] + 1) % PadModulus \in Nat
      BY <2>1, PadModulusAssumption
    <2>4. \A j \in next[c] .. (next[c] + ((padding_bytes[c] + 1) % PadModulus) - 1) :
            j % req[c].alignment # 0
      <3> DEFINE q == (padding_bytes[c] + 1) % PadModulus
      <3> HIDE DEF q
      <3>1. q \in Nat /\ q <= padding_bytes[c] + 1
        BY <2>2, <2>3 DEF q
      <3>2. \A j \in next[c] .. (next[c] + q - 1) :
              \/ j \in next[c] .. (next[c] + padding_bytes[c] - 1)
              \/ j = next[c] + padding_bytes[c]
        BY <2>1, <3>1
      <3>3. \A j \in next[c] .. (next[c] + q - 1) : j % req[c].alignment # 0
        BY <2>1, <3>2
      <3>4. QED
        BY <3>3 DEF q
    <2>5. QED
      BY <1>0, <1>3, <2>1, <2>4 DEF Pad, TypeOK
  <1>4. ASSUME NEW c \in Callers, Full(c) PROVE LoopInv' /\ CasInv'
    BY <1>0, <1>4 DEF Full, Return, TypeOK
  <1>5. ASSUME NEW c \in Callers, Fit(c) PROVE LoopInv' /\ CasInv'
    BY <1>0, <1>5 DEF Fit, TypeOK
  <1>6. ASSUME NEW c \in Callers, CasOk(c) PROVE LoopInv' /\ CasInv'
    <2>1. m_next' > m_next /\ m_next' \in Nat /\ m_next \in Nat
      BY <1>0, <1>6, NewReservation, TypeStep DEF CasOk, IInv, TypeOK
    <2>2. \A d \in Callers : d # c =>
            /\ pc'[d] = pc[d] /\ next'[d] = next[d] /\ req'[d] = req[d]
            /\ padding_bytes'[d] = padding_bytes[d] /\ next[d] \in Nat
      BY <1>0, <1>6 DEF CasOk, Return, TypeOK
    <2>3. pc'[c] = "idle"
      BY <1>0, <1>6 DEF CasOk, Return, TypeOK
    <2>4. LoopInv'
      BY <1>0, <2>1, <2>2, <2>3
    <2>5. CasInv'
      BY <1>0, <2>2, <2>3
    <2>6. QED
      BY <2>4, <2>5
  <1>7. ASSUME NEW c \in Callers, CasLost(c) PROVE LoopInv' /\ CasInv'
    BY <1>0, <1>7 DEF CasLost, TypeOK
  <1>8. CASE UNCHANGED vars
    BY <1>0, <1>8 DEF vars
  <1>9. QED
    BY <1>1, <1>2, <1>3, <1>4, <1>5, <1>6, <1>7, <1>8 DEF Next, Step

(* Only a successful compare_exchange touches the reservations.             *)
LEMMA ReservationsStep ==
  IInv /\ [Next]_vars =>
    BelowNext' /\ ReservationsDisjoint' /\ ReservationsPlaced'
  <1> SUFFICES ASSUME IInv, [Next]_vars
               PROVE  BelowNext' /\ ReservationsDisjoint' /\ ReservationsPlaced'
    OBVIOUS
  <1> USE DEF BelowNext, ReservationsDisjoint, ReservationsPlaced, Apart
  <1>0. /\ TypeOK /\ BelowNext /\ ReservationsDisjoint /\ ReservationsPlaced
    BY DEF IInv
  <1>1. CASE UNCHANGED <<m_next, objects>>
    BY <1>0, <1>1
  <1>2. ASSUME NEW c \in Callers, CasOk(c)
        PROVE  BelowNext' /\ ReservationsDisjoint' /\ ReservationsPlaced'
    <2> DEFINE n == Reservation(c)
    <2>1. /\ EndOf(c) > m_next /\ n.at >= m_next /\ n.at + n.size = EndOf(c)
          /\ n.at % n.alignment = 0 /\ EndOf(c) <= Limit[c] /\ n.by = c
      BY <1>2, NewReservation
    <2>2. objects' = objects \cup {n} /\ m_next' = EndOf(c)
      BY <1>2 DEF CasOk
    <2>3. \A o \in objects : /\ o.at \in Nat /\ o.size \in Nat
                             /\ o.at + o.size <= m_next
      BY <1>0 DEF TypeOK
    <2>4. m_next \in Nat /\ EndOf(c) \in Nat /\ n.at \in Nat /\ n.size \in Nat
      BY <2>2, TypeStep, <1>0 DEF TypeOK
    <2> HIDE DEF n
    <2>5. BelowNext'
      BY <2>1, <2>2, <2>3, <2>4
    <2>6. ReservationsDisjoint'
      <3>1. \A o \in objects : o.at + o.size <= n.at
        BY <2>1, <2>3, <2>4
      <3>2. QED
        BY <1>0, <2>2, <3>1
    <2>7. ReservationsPlaced'
      BY <1>0, <2>1, <2>2
    <2>8. QED
      BY <2>5, <2>6, <2>7
  <1>3. QED
    BY <1>1, <1>2 DEF Next, Step, Call, Load, Pad, Full, Fit, CasLost, vars

-----------------------------------------------------------------------------
(* The inductive invariant of reserve_space.                                *)
THEOREM Invariance == Spec => []IInv
  <1>1. IInv /\ [Next]_vars => IInv'
    BY TypeStep, LoopStep, ReservationsStep DEF IInv
  <1>2. QED
    BY InitIInv, <1>1, PTL DEF Spec

(* reserve_space: every reachable state is well typed.                      *)
THEOREM TypeCorrect == Spec => []TypeOK
  <1>1. IInv => TypeOK
    BY DEF IInv
  <1>2. QED
    BY Invariance, <1>1, PTL

(* reserve_space: the ranges handed out by the compare_exchange loop never  *)
(* overlap, whoever the callers are.                                        *)
THEOREM Disjointness == Spec => []ReservationsDisjoint
  <1>1. IInv => ReservationsDisjoint
    BY DEF IInv
  <1>2. QED
    BY Invariance, <1>1, PTL

(* reserve_space: a range starts on its alignment and respects the limit of *)
(* the caller, also after lost races.                                       *)
THEOREM Placement == Spec => []ReservationsPlaced
  <1>1. IInv => ReservationsPlaced
    BY DEF IInv
  <1>2. QED
    BY Invariance, <1>1, PTL

-----------------------------------------------------------------------------
(* A caller that has found its request not to fit decided on a copy of      *)
(* m_next that may be stale; there is no room for it now either.            *)
LEMMA FullMeansNoRoom ==
  ASSUME IInv, NEW c \in Callers, Full(c)
  PROVE  \A i \in m_next .. Limit[c] :
           i % req[c].alignment = 0 => i + req[c].size > Limit[c]
  <1>1. /\ pc[c] = "pad" /\ IsAligned(c) /\ EndOf(c) > Limit[c]
    BY DEF Full
  <1>2. /\ req[c].size \in Nat /\ next[c] \in Nat /\ m_next \in Nat
        /\ padding_bytes[c] \in Nat /\ Limit[c] \in Nat
    BY <1>1, ActiveRequest DEF IInv
  <1>3. /\ next[c] <= m_next
        /\ \A j \in next[c] .. (next[c] + padding_bytes[c] - 1) :
             j % req[c].alignment # 0
    BY <1>1 DEF IInv, LoopInv, InLoop
  <1> SUFFICES ASSUME NEW i \in m_next .. Limit[c], i % req[c].alignment = 0
               PROVE  i + req[c].size > Limit[c]
    OBVIOUS
  <1>4. i >= next[c] + padding_bytes[c]
    <2>1. i \notin next[c] .. (next[c] + padding_bytes[c] - 1)
      BY <1>3
    <2>2. QED
      BY <1>2, <1>3, <2>1
  <1>5. QED
    BY <1>1, <1>2, <1>4 DEF EndOf

(* The successful compare_exchange is the atomic grant: the copy the caller *)
(* worked with is the current value, so its index is the first aligned one. *)
LEMMA CasOkIsGrant ==
  ASSUME IInv, NEW c \in Callers, CasOk(c)
  PROVE  Atomic!Grant(c)
  <1>1. /\ pc[c] = "cas" /\ m_next = next[c] /\ m_next' = EndOf(c)
        /\ objects' = objects \cup {Reservation(c)}
        /\ req' = [req EXCEPT ![c] = NoRequest]
    BY DEF CasOk, Return
  <1>2. /\ req[c] \in Requests /\ req[c].size \in Nat \ {0}
        /\ next[c] \in Nat /\ padding_bytes[c] \in Nat /\ Limit[c] \in Nat
    BY <1>1, ActiveRequest DEF IInv
  <1>3. IsAligned(c) /\ EndOf(c) <= Limit[c]
    BY <1>1 DEF IInv, CasInv
  <1>4. \A j \in next[c] .. (next[c] + padding_bytes[c] - 1) :
          j % req[c].alignment # 0
    BY <1>1 DEF IInv, LoopInv, InLoop
  <1> DEFINE i == next[c] + padding_bytes[c]
  <1>5. /\ i \in m_next .. Limit[c]
        /\ i + req[c].size = EndOf(c)
        /\ i >= m_next
    BY <1>1, <1>2, <1>3 DEF EndOf
  <1>6. Atomic!FirstAligned(m_next, req[c].alignment, i)
    <2>1. i % req[c].alignment = 0
      BY <1>3 DEF IsAligned
    <2>2. \A j \in m_next .. (i - 1) : j % req[c].alignment # 0
      <3>1. m_next = next[c]
        BY <1>1
      <3>2. QED
        BY <3>1, <1>2, <1>4
    <2> HIDE DEF i
    <2>3. QED
      BY <1>5, <2>1, <2>2 DEF Atomic!FirstAligned
  <1>7. req[c] # NoRequest
    BY <1>2, RequestsAssumption
  <1>8. Reservation(c) = [at |-> i, size |-> req[c].size,
                          alignment |-> req[c].alignment, by |-> c]
    BY DEF Reservation
  <1> HIDE DEF i
  <1>9. QED
    BY <1>1, <1>3, <1>5, <1>6, <1>7, <1>8 DEF Atomic!Grant

(* What a caller does on its own copies is invisible to the abstraction, and *)
(* so is a compare_exchange that fails.                                      *)
LEMMA LocalSteps ==
  ASSUME NEW c \in Callers, Load(c) \/ Pad(c) \/ Fit(c) \/ CasLost(c)
  PROVE  UNCHANGED Atomic!vars
  BY DEF Load, Pad, Fit, CasLost, Atomic!vars

(* A call begins, and returns without a reservation, as in the abstraction. *)
LEMMA CallIsAsk ==
  ASSUME IInv, NEW c \in Callers, NEW r \in Requests, Call(c, r)
  PROVE  Atomic!Ask(c, r)
  BY DEF Call, IInv, TypeOK, Atomic!Ask

(* Finding no room is the abstract refusal.                                 *)
LEMMA FullIsRefuse ==
  ASSUME IInv, NEW c \in Callers, Full(c)
  PROVE  Atomic!Refuse(c)
  <1>1. req[c] # NoRequest
    BY DEF Full, IInv, TypeOK
  <1>2. QED
    BY <1>1, FullMeansNoRoom DEF Full, Return, Atomic!Refuse

(* reserve_space is linearisable: every behaviour of the compare_exchange   *)
(* loop is a behaviour of the atomic reservation its callers rely on.       *)
THEOREM Linearisability == Spec => ReserveIsAtomic
  <1>start. Init => Atomic!Init
    BY DEF Init, Atomic!Init
  <1>step. IInv /\ [Next]_vars => [Atomic!Next]_(Atomic!vars)
    <2> SUFFICES ASSUME IInv, [Next]_vars
                 PROVE  Atomic!Next \/ UNCHANGED Atomic!vars
      OBVIOUS
    <2>1. CASE Next
      <3> PICK c \in Callers : Step(c) \/ \E r \in Requests : Call(c, r)
        BY <2>1 DEF Next
      <3>1. CASE \E r \in Requests : Call(c, r)
        BY <3>1, CallIsAsk DEF Atomic!Next
      <3>2. CASE Step(c)
        BY <3>2, LocalSteps, FullIsRefuse, CasOkIsGrant DEF Step, Atomic!Next
      <3> QED
        BY <3>1, <3>2
    <2> QED
      BY <2>1 DEF vars, Atomic!vars
  <1> QED
    BY Invariance, <1>start, <1>step, PTL DEF Spec, ReserveIsAtomic, Atomic!Spec
=============================================================================
