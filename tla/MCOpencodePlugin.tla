--------------------------- MODULE MCOpencodePlugin ---------------------------
(* OpencodePlugin with more sessions than the memory holds. *)
EXTENDS OpencodePlugin, TLC
Symmetric == Permutations(Session) \cup Permutations(Call)
=============================================================================
