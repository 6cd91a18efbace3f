--------------------------- MODULE ManagedHeap ---------------------------
(***************************************************************************)
(* What a program sees of a garbage collected heap: which of its pointers  *)
(* are null, which of them share an object, and what the objects hold.     *)
(* There are no addresses, no spaces and no collector: a collection must   *)
(* not be observable.  CopyingCollector refines this specification.        *)
(***************************************************************************)
CONSTANTS
  Pointers,   \* pointer variables of the program
  Contents,   \* what a new object may hold: sequences of data
  Data,       \* what the program may write into the head of an object
  Nothing     \* content of a null pointer

VARIABLES
  content,    \* content[v]: what the object v points to holds
  same        \* pairs of pointers to one object

vars == <<content, same>>

Init ==
  /\ content = [v \in Pointers |-> Nothing]
  /\ same = {}

Others(v) == {p \in same : p[1] # v /\ p[2] # v}

New(v, c) ==
  /\ content' = [content EXCEPT ![v] = c]
  /\ same' = Others(v) \cup {<<v, v>>}

Clear(v) ==
  /\ content' = [content EXCEPT ![v] = Nothing]
  /\ same' = Others(v)

(* v becomes another pointer to the object of u. *)
Alias(u, v) ==
  /\ content[u] # Nothing
  /\ u # v
  /\ content' = [content EXCEPT ![v] = content[u]]
  /\ LET sharers == {x \in Pointers \ {v} : <<u, x>> \in same} \cup {v}
     IN  same' = Others(v) \cup (sharers \X {v}) \cup ({v} \X sharers)

(* A write through u is seen through every pointer to the same object. *)
Write(u, d) ==
  /\ content[u] # Nothing
  /\ content' = [x \in Pointers |-> IF <<u, x>> \in same
                                    THEN [content[x] EXCEPT ![1] = d]
                                    ELSE content[x]]
  /\ same' = same

Next ==
  \E v \in Pointers :
    \/ \E c \in Contents : New(v, c)
    \/ Clear(v)
    \/ \E u \in Pointers : Alias(u, v)
    \/ \E d \in Data : Write(v, d)

Spec == Init /\ [][Next]_vars
=============================================================================
