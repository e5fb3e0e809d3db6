--------------------------- MODULE MCEmailDigest ---------------------------
(* Small instances of EmailDigest. *)
EXTENDS EmailDigest, TLC
Symmetry == Permutations(Workers) \cup Permutations(Items)
=============================================================================
