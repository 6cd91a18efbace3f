-------------------------- MODULE MCReserveSpace --------------------------
(* One mutator (m_lock admits one at a time) and the collection thread.      *)
EXTENDS ReserveSpace

CONSTANTS mutator, collector, MaxAlloc, HeapSize

MCLimit == [c \in Callers |-> IF c = mutator THEN MaxAlloc ELSE HeapSize]
MCRequests == {[size |-> 1, alignment |-> 1], [size |-> 2, alignment |-> 2],
               [size |-> 1, alignment |-> 4]}
(* An object of one byte, and one aligned to a page of 512 bytes             *)
MCWideRequests == {[size |-> 1, alignment |-> 1], [size |-> 1, alignment |-> 512]}
=============================================================================
