---------------------------- MODULE MCAutoFollow ----------------------------
(* Small instances of AutoFollow. *)
EXTENDS AutoFollow

Symmetry == Permutations(Fake) \cup Permutations(Themed)
=============================================================================
