--------------------------- MODULE MCAccessCache ----------------------------
(* One account on a small cluster. *)
EXTENDS AccessCache, TLC

Symmetry == Permutations(Workers) \cup Permutations(Requests) \cup Permutations(Changes)
=============================================================================
