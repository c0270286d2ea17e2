--------------------------- MODULE MCProfileImage ---------------------------
(* One user's image, changed by overlapping calls. *)
EXTENDS ProfileImage, TLC

Symmetry == Permutations(Files) \cup Permutations(Updates)
=============================================================================
