--------------------------- MODULE MCShockColumns ---------------------------
(* Instances of ShockColumns for TLC. *)
EXTENDS ShockColumns, TLC

Axis(count, step, symmetric, zero) ==
  [count |-> count, step |-> step, symmetric |-> symmetric, zero |-> zero]

\* The default 2-a-side grid, a 4-a-side one, a one-sided one with zero.
Two  == [price |-> Axis(2, 100, TRUE, FALSE), vol |-> Axis(2, 5, TRUE, TRUE), unit |-> "sigma", days |-> 1]
Four == [price |-> Axis(4, 100, TRUE, FALSE), vol |-> Axis(1, 5, TRUE, TRUE), unit |-> "sigma", days |-> 1]
Up   == [price |-> Axis(3, 100, FALSE, TRUE), vol |-> Axis(0, 5, TRUE, TRUE), unit |-> "sigma", days |-> 1]

MCContents == {Two, Four, Up}
MCDefault  == [name |-> "Exposure", is |-> Two]
\* "Tail risk" and "Tail-risk" are kept in one file.
MCSlug     == "Exposure" :> "exposure" @@ "Tail risk" :> "tail-risk" @@ "Tail-risk" :> "tail-risk"
MCCoordinates == {<<-200, 0>>, <<100, 0>>, <<100, 5>>}
=============================================================================
