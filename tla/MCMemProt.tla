----------------------------- MODULE MCMemProt -----------------------------
(* Three heaps for a table of two entries, pages of four bytes, and regions  *)
(* that share one page, have one to themselves, and begin and end inside one.*)
EXTENDS MemProt

MCHeaps == {<<4, 8>>, <<8, 12>>, <<12, 16>>}
MCBehind == {<<0, 0>>, <<1, 20>>}
MCAddresses == {5, 10, 12}
MCRegions == {[start |-> 6, end |-> 9, mode |-> "ReadOnly"],
              [start |-> 8, end |-> 13, mode |-> "WriteOnly"]}
=============================================================================
