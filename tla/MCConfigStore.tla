--------------------------- MODULE MCConfigStore ---------------------------
(* Two threads, two custom names and a builtin one, two contents. *)
EXTENDS ConfigStore, TLC

Symmetry == Permutations(Threads) \cup Permutations(Contents)
=============================================================================
