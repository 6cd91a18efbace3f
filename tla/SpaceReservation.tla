------------------------- MODULE SpaceReservation -------------------------
(***************************************************************************)
(* What reserve_space promises its callers: one atomic step either claims  *)
(* the first suitably aligned room of a space or says that there is none.  *)
(* ReserveSpace refines this specification with the compare-and-swap loop  *)
(* of the code.                                                            *)
(***************************************************************************)
EXTENDS Naturals

CONSTANTS
  Callers,    \* threads that reserve room in the space
  Requests,   \* records [size, alignment] a caller may ask for
  Limit,      \* Limit[c]: first index caller c may not use
  NoRequest   \* not a request

VARIABLES
  next,       \* first index of the space not yet handed out
  objects,    \* every reservation made: [at, size, alignment, by]
  asked       \* asked[c]: the outstanding request of caller c, or NoRequest

vars == <<next, objects, asked>>

(* i is the first index at or above n that is a multiple of a. *)
FirstAligned(n, a, i) ==
  /\ i >= n
  /\ i % a = 0
  /\ \A j \in n .. (i - 1) : j % a # 0

Init ==
  /\ next = 0
  /\ objects = {}
  /\ asked = [c \in Callers |-> NoRequest]

Ask(c, r) ==
  /\ asked[c] = NoRequest
  /\ asked' = [asked EXCEPT ![c] = r]
  /\ UNCHANGED <<next, objects>>

(* The reservation starts at the first aligned index and moves next past it. *)
Grant(c) ==
  /\ asked[c] # NoRequest
  /\ \E i \in next .. Limit[c] :
       /\ FirstAligned(next, asked[c].alignment, i)
       /\ i + asked[c].size <= Limit[c]
       /\ next' = i + asked[c].size
       /\ objects' = objects \cup {[at |-> i, size |-> asked[c].size,
                                    alignment |-> asked[c].alignment, by |-> c]}
  /\ asked' = [asked EXCEPT ![c] = NoRequest]

(* A caller is turned away only when no aligned room is left for it. *)
Refuse(c) ==
  /\ asked[c] # NoRequest
  /\ \A i \in next .. Limit[c] :
       i % asked[c].alignment = 0 => i + asked[c].size > Limit[c]
  /\ asked' = [asked EXCEPT ![c] = NoRequest]
  /\ UNCHANGED <<next, objects>>

Next ==
  \E c \in Callers :
    \/ \E r \in Requests : Ask(c, r)
    \/ Grant(c)
    \/ Refuse(c)

Spec == Init /\ [][Next]_vars
=============================================================================
