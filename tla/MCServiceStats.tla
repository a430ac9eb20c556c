--------------------------- MODULE MCServiceStats ---------------------------
(* Instances of ServiceStats for TLC. *)
EXTENDS ServiceStats, TLC

Symmetry == Permutations(Conns)
=============================================================================
