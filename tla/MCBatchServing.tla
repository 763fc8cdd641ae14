--------------------------- MODULE MCBatchServing ---------------------------
(* Instances of BatchServing for TLC. *)
EXTENDS BatchServing, TLC

Symmetry == Permutations(Builders) \cup Permutations(Threads) \cup Permutations(Ids)
=============================================================================
