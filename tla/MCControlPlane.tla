--------------------------- MODULE MCControlPlane ---------------------------
(* Instances of ControlPlane for TLC. *)
EXTENDS ControlPlane, TLC

Symmetry == Permutations(Firms) \cup Permutations(Emails) \cup Permutations(Threads)
              \cup Permutations(Keys)
=============================================================================
