----------------------------- MODULE MCGcRoots -----------------------------
(* A mutator that calls and returns, and the collection thread, on two      *)
(* places for stacks.                                                       *)
EXTENDS GcRoots, TLC

CONSTANTS mutator, collector
MCDepth == (mutator :> 2) @@ (collector :> 1)
MCStacks == {0, 1}
=============================================================================
