---------------------------- MODULE ShockColumns ----------------------------
(***************************************************************************)
(* Shock configs, the scenario grids they expand to, and the grid columns  *)
(* that name scenarios (src/risk/templates.py, src/risk/scenarios.py, the  *)
(* config and column endpoints of src/api/main.py).                        *)
(*                                                                         *)
(* A batch keeps the scenarios of the config it was built with as columns  *)
(* s000, s001, ... and only the config's NAME.  A column template names a  *)
(* scenario by its coordinate; grid_columns turns the coordinate into one  *)
(* of the batch's columns with the config that has that name NOW.          *)
(*                                                                         *)
(* Points are integers: percent of a move or hundredths of a sigma.        *)
(***************************************************************************)
EXTENDS Integers, Sequences, SequencesExt

CONSTANTS
  Names,        \* config names
  Slug,         \* Slug[name]: the file it is kept in; names may share one
  Contents,     \* what a config may say: records [price, vol] of axes
  Default,      \* default_shock_config
  Coordinates,  \* scenario columns of the template: pairs <<price, vol>>
  MaxBuilds,    \* bound: batches built
  MaxEdits      \* bound: configs saved or deleted
                \* (a process start that seeds a config is bounded by these)

Slugs   == {Slug[n] : n \in Names}
Configs == {[name |-> n, is |-> c] : n \in Names, c \in Contents}
NoFile  == [name |-> "", is |-> Default.is]

\* No endpoint looks at what an axis says: a step may be zero or negative.
Axes == [count : Nat, step : Int, symmetric : BOOLEAN, zero : BOOLEAN]

ASSUME ColumnsAssumption ==
  /\ Default \in Configs /\ "" \notin Names
  /\ \A c \in Contents : c.price \in Axes /\ c.vol \in Axes

(***************************************************************************)
(* Scenario grids                                                          *)
(***************************************************************************)
\* Seeded fault: the negative points are not reversed.
PointsUnreversed(axis) ==
  LET up   == [i \in 1..axis.count |-> axis.step * i]
      down == [i \in 1..axis.count |-> 0 - up[i]]
  IN  (IF axis.symmetric THEN down ELSE <<>>) \o (IF axis.zero THEN <<0>> ELSE <<>>) \o up

\* ShockAxis.points: count points a side, the negative ones mirrored. When zero
\* is asked for the points are sorted, which turns those of a negative step.
Points(axis) ==
  LET up   == [i \in 1..axis.count |-> axis.step * i]
      down == [i \in 1..axis.count |-> 0 - up[axis.count + 1 - i]]
      all  == (IF axis.symmetric THEN down ELSE <<>>) \o (IF axis.zero THEN <<0>> ELSE <<>>) \o up
  IN  IF axis.zero /\ axis.step < 0 THEN Reverse(all) ELSE all

\* _cross: every price with every vol, vols running fastest.
Cross(prices, vols) ==
  [k \in 1..(Len(prices) * Len(vols)) |->
     <<prices[((k - 1) \div Len(vols)) + 1], vols[((k - 1) % Len(vols)) + 1]>>]

\* ShockConfig.to_grid.
Grid(content) == Cross(Points(content.price), Points(content.vol))

Missing == 0

\* Seeded fault: a coordinate is looked for by its price alone.
IndexOfPrice(grid, c) == SelectInSeq(grid, LAMBDA g : g[1] = c[1])

\* ScenarioGrid.index_of: the first scenario at a coordinate; resolve marks a
\* column whose coordinate is not there as missing. Position k is column s(k-1).
IndexOf(grid, c) == SelectInSeq(grid, LAMBDA g : g = c)

-----------------------------------------------------------------------------
VARIABLES
  files,     \* files[root][slug]: the config kept there. Root "firm" is what
             \* the API and the worker use, "plain" what the build command reads
  batches,   \* batches built: the config each was built with, its scenarios
  intact,    \* history: batches whose config the firm has kept as it was
  answer,    \* the last reply of grid_columns
  edits

vars == <<files, batches, intact, answer, edits>>

Roots    == {"firm", "plain"}
NoAnswer == [batch |-> 0, field |-> [c \in Coordinates |-> Missing]]

\* TemplateStore.__init__: a store without configs gets the default one.
Seeded(dir) == IF \A s \in Slugs : dir[s] = NoFile
               THEN [dir EXCEPT ![Slug[Default.name]] = Default] ELSE dir

\* Batches still intact once the firm's configs are dir.
StillIntact(dir) == {b \in intact : dir[Slug[batches[b].config.name]] = batches[b].config}

Init ==
  /\ files = [r \in Roots |-> Seeded([s \in Slugs |-> NoFile])]
  /\ batches = <<>> /\ intact = {}
  /\ answer = NoAnswer /\ edits = 0

EditFirm(dir) ==
  /\ edits < MaxEdits
  /\ edits' = edits + 1
  /\ files' = [files EXCEPT !["firm"] = dir]
  /\ intact' = StillIntact(dir)
  /\ UNCHANGED <<batches, answer>>

\* PUT /api/configs: one file per slug, so a name can take another's.
SaveConfig(name, content) ==
  EditFirm([files["firm"] EXCEPT ![Slug[name]] = [name |-> name, is |-> content]])

\* DELETE /api/configs: by slug, without looking who bears the name.
DeleteConfig(name) == EditFirm([files["firm"] EXCEPT ![Slug[name]] = NoFile])

\* An API process or a worker starts: each makes a TemplateStore.
StartProcess ==
  /\ files' = [files EXCEPT !["firm"] = Seeded(@)]
  /\ UNCHANGED <<batches, intact, answer, edits>>

\* The worker builds with the firm's configs, the build command with those in
\* the directory above the firms'.
Build(root, name) ==
  LET config == files[root][Slug[name]]
      after  == Append(batches, [config |-> config, grid |-> Grid(config.is)])
  IN
  /\ config # NoFile
  /\ Len(batches) < MaxBuilds
  /\ batches' = after
  /\ intact' = IF files["firm"][Slug[config.name]] = config
               THEN intact \cup {Len(after)} ELSE intact
  /\ UNCHANGED <<files, answer, edits>>

\* GET /api/grid/columns: 404 when the batch's config is gone.
GridColumns(b) ==
  LET config == files["firm"][Slug[batches[b].config.name]]
      grid   == Grid(config.is)
  IN
  /\ config # NoFile
  /\ answer' = [batch |-> b, field |-> [c \in Coordinates |-> IndexOf(grid, c)]]
  /\ UNCHANGED <<files, batches, intact, edits>>

Next ==
  \/ \E n \in Names, c \in Contents : SaveConfig(n, c)
  \/ \E n \in Names : DeleteConfig(n)
  \/ StartProcess
  \/ \E r \in Roots, n \in Names : Build(r, n)
  \/ \E b \in DOMAIN batches : GridColumns(b)

Spec == Init /\ [][Next]_vars

-----------------------------------------------------------------------------
\* A column of batch b fits when what it shows is the scenario its heading
\* names, and it is marked missing when the batch has no such scenario.
Fits(b, c, k) ==
  IF k = Missing THEN \A i \in DOMAIN batches[b].grid : batches[b].grid[i] # c
                 ELSE k \in DOMAIN batches[b].grid /\ batches[b].grid[k] = c

\* "A template survives a change to the shock config ... instead of silently
\* shifting to a different column" (ScenarioGrid.index_of): the columns of a
\* batch are headed by the scenarios they show.
HeadingFits ==
  answer.batch > 0 => \A c \in Coordinates : Fits(answer.batch, c, answer.field[c])

\* It is so while the firm keeps the config the batch was built with under its
\* name, whatever other configs and batches there are.
HeadingFitsIntact ==
  answer.batch \in intact => \A c \in Coordinates : Fits(answer.batch, c, answer.field[c])

\* What an axis says: count points a side, mirrored when symmetric, and zero
\* when asked for.
AxisPoints(a) ==
  {s * a.step * i : s \in IF a.symmetric THEN {-1, 1} ELSE {1}, i \in 1..a.count}
    \cup (IF a.zero THEN {0} ELSE {})

\* Every grid that is built has each scenario once, prices and then vols
\* ascending, so that index_of has one hit at most; and it has what the axes
\* say. Steps are positive, as in the default config: no endpoint sees to it.
GridsAreOrdered ==
  \A b \in DOMAIN batches :
    LET g  == batches[b].grid
        is == batches[b].config.is
    IN  /\ \A i, j \in DOMAIN g : i < j => \/ g[i][1] < g[j][1]
                                           \/ g[i][1] = g[j][1] /\ g[i][2] < g[j][2]
        /\ ToSet(g) = AxisPoints(is.price) \X AxisPoints(is.vol)

=============================================================================
