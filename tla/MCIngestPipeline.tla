-------------------------- MODULE MCIngestPipeline --------------------------
(* Instances of IngestPipeline for TLC. *)
EXTENDS IngestPipeline, TLC

\* Five files, the good ones around the bad.
KindsOf5 == <<"good", "invalid", "unbuildable", "good", "unreadable">>
KindsOf3 == <<"good", "unmappable", "good">>
KindsOf2 == <<"invalid", "good">>

Symmetry == Permutations(Workers)
=============================================================================
