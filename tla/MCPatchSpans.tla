----------------------------- MODULE MCPatchSpans -----------------------------
(* Lines of one and two code points, and the empty line.                     *)
EXTENDS PatchSpans
CONSTANTS a, bb, nil
mcWidth == [l \in Line |-> CASE l = a -> 1 [] l = bb -> 2 [] l = nil -> 0]
=============================================================================
