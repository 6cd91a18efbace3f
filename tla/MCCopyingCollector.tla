----------------------- MODULE MCCopyingCollector -----------------------
(* Small instances of the collector.                                         *)
EXTENDS CopyingCollector

(* One- and two-cell objects, the latter aligned, and what alloc turns away. *)
MCSerialRequests == {[size |-> 1, align |-> 1], [size |-> 2, align |-> 2],
                     [size |-> 0, align |-> 1],
                     [size |-> MaxAlloc + 1, align |-> 1]}
(* Objects of two cells, of which scan_memory looks at the first.            *)
MCPairs == {[size |-> 2, align |-> 1]}
(* Two sizes, so that objects can overlap without starting at one cell.      *)
MCMixed == {[size |-> 1, align |-> 1], [size |-> 2, align |-> 1]}
MCUnits == {[size |-> 1, align |-> 1]}
=============================================================================
