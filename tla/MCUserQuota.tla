---------------------------- MODULE MCUserQuota ----------------------------
(* Instances of UserQuota for TLC. *)
EXTENDS UserQuota, TLC

Symmetry == Permutations(Procs) \cup Permutations(Forwards) \cup Permutations(Services)
=============================================================================
