---------------------------- MODULE MCAlertRules ----------------------------
(* Instances of AlertRules for TLC. *)
EXTENDS AlertRules, TLC

Symmetry == Permutations(Rules)
=============================================================================
