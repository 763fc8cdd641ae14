------------------------------- MODULE MCPivot ------------------------------
(* Instances of Pivot for TLC. *)
EXTENDS Pivot, TLC

MCDims  == {"desk", "strike"}
MCNumbers == {"strike"}
MCScens == {"s000", "s001"}

P(desk, strike, m, down, up) ==
  [at |-> "desk" :> desk @@ "strike" :> strike, m |-> m, pnl |-> "s000" :> down @@ "s001" :> up]

\* Long, hedged and offsetting positions on two desks, one of no desk; three
\* strikes, one too many for a rollup.
Positions == <<P(1, 1, 3, 0 - 4, 4), P(1, 2, 0 - 2, 3, 0 - 3), P(2, 1, 1, 0 - 1, 1),
              P(2, 3, 2, 2, 0 - 5), P(0, 2, 1, 1, 1)>>
MCBooks == {[i \in 1..3 |-> Positions[n[i]]] :
              n \in {m \in [1..3 -> DOMAIN Positions] : m[1] <= m[2] /\ m[2] <= m[3]}} \cup {<<>>}

F(column, op, value) == [column |-> column, op |-> op, value |-> value]
MCFilters == {{}, {F("desk", "equals", 1)}, {F("desk", "blank", 0)}, {F("strike", "notEqual", 1)},
              {F("desk", "in", {1, 2}), F("worst", "greaterThan", 0 - 4)},
              {F("m", "greaterThan", 0)}, {F("positions", "greaterThan", 1)}, {F("s001", "greaterThan", 0)}}
=============================================================================
