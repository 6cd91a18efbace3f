--------------------------- MODULE ReserveSpace ---------------------------
(***************************************************************************)
(* CopyingCollector::reserve_space, the lock-free bump allocation in one   *)
(* space of the heap.  Two kinds of caller race on m_nexts[to_space]: a    *)
(* mutator inside alloc_attempt (it holds m_lock and may go up to          *)
(* m_max_alloc_size) and the collection thread inside copy (no lock, up to *)
(* m_heap_size).                                                           *)
(*                                                                         *)
(* Each access to the shared atomic is a step of its own, and so is each   *)
(* turn of the padding loop of calc_alignment_bytes.  A space starts on a  *)
(* page boundary, so an address is aligned when its index is.              *)
(***************************************************************************)
EXTENDS Naturals

CONSTANTS
  Callers,     \* threads that call reserve_space
  Requests,    \* records [size, alignment]; alloc has rejected size 0
  Limit,       \* Limit[c]: the max_alloc_size argument caller c passes
  NoRequest,   \* a caller that is not in reserve_space
  PadModulus   \* number of values of the padding counter, a uint8_t: 256

ASSUME RequestsAssumption ==
  /\ Requests \subseteq [size : Nat \ {0}, alignment : Nat \ {0}]
  /\ NoRequest \notin Requests
ASSUME LimitAssumption == Limit \in [Callers -> Nat]
ASSUME PadModulusAssumption == PadModulus \in Nat \ {0}

VARIABLES
  m_next,        \* m_nexts[to_space], the shared atomic
  objects,       \* history: every reservation made
  req,           \* req[c]: the arguments of c's call
  pc,            \* "idle", "load", "pad" (padding loop) or "cas"
  next,          \* next[c]: the local copy of m_next the loop works with
  padding_bytes  \* padding_bytes[c]: the local padding counter

vars == <<m_next, objects, req, pc, next, padding_bytes>>

Init ==
  /\ m_next = 0
  /\ objects = {}
  /\ req = [c \in Callers |-> NoRequest]
  /\ pc = [c \in Callers |-> "idle"]
  /\ next = [c \in Callers |-> 0]
  /\ padding_bytes = [c \in Callers |-> 0]

Call(c, r) ==
  /\ pc[c] = "idle"
  /\ req' = [req EXCEPT ![c] = r]
  /\ pc' = [pc EXCEPT ![c] = "load"]
  /\ UNCHANGED <<m_next, objects, next, padding_bytes>>

(* size_t next = m_nexts[to_space_num] *)
Load(c) ==
  /\ pc[c] = "load"
  /\ next' = [next EXCEPT ![c] = m_next]
  /\ padding_bytes' = [padding_bytes EXCEPT ![c] = 0]
  /\ pc' = [pc EXCEPT ![c] = "pad"]
  /\ UNCHANGED <<m_next, objects, req>>

IsAligned(c) == (next[c] + padding_bytes[c]) % req[c].alignment = 0

(* One turn of the loop of calc_alignment_bytes; the counter is 8 bits wide. *)
Pad(c) ==
  /\ pc[c] = "pad"
  /\ ~ IsAligned(c)
  /\ padding_bytes' =
       [padding_bytes EXCEPT ![c] = (padding_bytes[c] + 1) % PadModulus]
  /\ UNCHANGED <<m_next, objects, req, pc, next>>

EndOf(c) == next[c] + req[c].size + padding_bytes[c]

(* Mutant: the loop is left but the call is not over. *)
ReturnEarly(c) ==
  /\ req' = req
  /\ pc' = [pc EXCEPT ![c] = "idle"]
  /\ next' = [next EXCEPT ![c] = 0]
  /\ padding_bytes' = [padding_bytes EXCEPT ![c] = 0]

(* reserve_space returns; its locals go out of scope. *)
Return(c) ==
  /\ req' = [req EXCEPT ![c] = NoRequest]
  /\ pc' = [pc EXCEPT ![c] = "idle"]
  /\ next' = [next EXCEPT ![c] = 0]
  /\ padding_bytes' = [padding_bytes EXCEPT ![c] = 0]

(* The request does not fit below the caller's limit: std::nullopt. *)
Full(c) ==
  /\ pc[c] = "pad"
  /\ IsAligned(c)
  /\ EndOf(c) > Limit[c]
  /\ Return(c)
  /\ UNCHANGED <<m_next, objects>>

Fit(c) ==
  /\ pc[c] = "pad"
  /\ IsAligned(c)
  /\ EndOf(c) <= Limit[c]
  /\ pc' = [pc EXCEPT ![c] = "cas"]
  /\ UNCHANGED <<m_next, objects, req, next, padding_bytes>>

Reservation(c) ==
  [at |-> next[c] + padding_bytes[c], size |-> req[c].size,
   alignment |-> req[c].alignment, by |-> c]

(* Mutant: a plain store instead of the compare_exchange. *)
StoreBlind(c) ==
  /\ pc[c] = "cas"
  /\ m_next' = EndOf(c)
  /\ objects' = objects \cup {Reservation(c)}
  /\ Return(c)

(* compare_exchange succeeds: the reservation is c's. *)
CasOk(c) ==
  /\ pc[c] = "cas"
  /\ m_next = next[c]
  /\ m_next' = EndOf(c)
  /\ objects' = objects \cup {Reservation(c)}
  /\ Return(c)

(* Mutant: the retry keeps the padding and the limit check of the first turn. *)
CasLostKeepsPadding(c) ==
  /\ pc[c] = "cas"
  /\ m_next # next[c]
  /\ next' = [next EXCEPT ![c] = m_next]
  /\ UNCHANGED <<m_next, objects, req, pc, padding_bytes>>

(* Mutant: a lost race is reported as a full space. *)
CasLostGivesUp(c) ==
  /\ pc[c] = "cas"
  /\ m_next # next[c]
  /\ Return(c)
  /\ UNCHANGED <<m_next, objects>>

(* Mutant: compare_exchange does not store the current value in next. *)
CasLostStale(c) ==
  /\ pc[c] = "cas"
  /\ m_next # next[c]
  /\ padding_bytes' = [padding_bytes EXCEPT ![c] = 0]
  /\ pc' = [pc EXCEPT ![c] = "pad"]
  /\ UNCHANGED <<m_next, objects, req, next>>

(* compare_exchange fails, stores the current value in next, and the loop    *)
(* computes the padding again.                                               *)
CasLost(c) ==
  /\ pc[c] = "cas"
  /\ m_next # next[c]
  /\ next' = [next EXCEPT ![c] = m_next]
  /\ padding_bytes' = [padding_bytes EXCEPT ![c] = 0]
  /\ pc' = [pc EXCEPT ![c] = "pad"]
  /\ UNCHANGED <<m_next, objects, req>>

Step(c) == Load(c) \/ Pad(c) \/ Full(c) \/ Fit(c) \/ CasOk(c) \/ CasLost(c)

Next == \E c \in Callers : (\E r \in Requests : Call(c, r)) \/ Step(c)

(* A thread inside reserve_space is never descheduled for ever. *)
Fairness == \A c \in Callers : WF_vars(Step(c))

Spec == Init /\ [][Next]_vars
FairSpec == Spec /\ Fairness

-----------------------------------------------------------------------------
TypeOK ==
  /\ m_next \in Nat
  /\ objects \subseteq [at : Nat, size : Nat \ {0}, alignment : Nat \ {0},
                        by : Callers]
  /\ req \in [Callers -> Requests \cup {NoRequest}]
  /\ pc \in [Callers -> {"idle", "load", "pad", "cas"}]
  /\ next \in [Callers -> Nat]
  /\ padding_bytes \in [Callers -> Nat]
  /\ \A c \in Callers : (pc[c] = "idle") <=> (req[c] = NoRequest)

Apart(o, p) == o.at + o.size <= p.at \/ p.at + p.size <= o.at

(* No two reservations of a space overlap, although the collection thread   *)
(* reserves without the lock the mutators reserve under.                    *)
ReservationsDisjoint == \A o, p \in objects : o # p => Apart(o, p)

(* A reservation starts on its alignment and ends below the limit of the    *)
(* caller that made it, also when its compare_exchange was retried with     *)
(* another padding.                                                         *)
ReservationsPlaced ==
  \A o \in objects : /\ o.at % o.alignment = 0
                     /\ o.at + o.size <= Limit[o.by]

(* The loop is linearisable: every call behaves as one atomic step.  In     *)
(* particular a caller that decides on a stale copy of m_next is turned     *)
(* away only if there is still no room for it when it returns.              *)
Atomic == INSTANCE SpaceReservation WITH next <- m_next, asked <- req
ReserveIsAtomic == Atomic!Spec

(* Every call returns: a lost compare_exchange means another reservation    *)
(* succeeded, and a space has room for finitely many.                       *)
EveryCallReturns ==
  \A c \in Callers : (req[c] # NoRequest) ~> (req[c] = NoRequest)
=============================================================================
