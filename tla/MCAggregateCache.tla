-------------------------- MODULE MCAggregateCache --------------------------
(***************************************************************************)
(* Instances of AggregateCache for TLC.  r1 and r2 are two root levels (two *)
(* filters of one pivot), d1 a level drilled from r1, roll a root level    *)
(* served by a rollup and huge one aggregate that is larger than the       *)
(* budget.                                                                 *)
(***************************************************************************)
EXTENDS AggregateCache, TLC

CONSTANTS r1, r2, d1, roll, huge

MCRootOf == [k \in Keys |-> IF k = d1 THEN r1 ELSE k]

\* With a budget of 4, r1 and d1 fit together and r2 evicts both.
MCSizeOf == [k \in Keys |-> CASE k = r1 -> 2 [] k = d1 -> 2 [] k = r2 -> 3
                              [] k = roll -> 1 [] k = huge -> 5]

MCRollups == {roll} \cap Keys

Symmetry == Permutations(Threads)
=============================================================================
