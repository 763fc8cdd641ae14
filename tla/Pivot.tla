-------------------------------- MODULE Pivot -------------------------------
(***************************************************************************)
(* The pivot engine (src/risk/aggregate.py), the rollups a batch answers   *)
(* root levels from (src/risk/batch.py), and the requests a grid makes of  *)
(* them (grid_rows of src/api/main.py): the root level with its totals,    *)
(* the level under an expanded row, the pages of a level.  A report        *)
(* (src/notify/render.py, deliver.py) is the same pivot walked to a depth. *)
(*                                                                         *)
(* Values of a dimension are numbers, 0 being null, and stand for names or *)
(* for themselves: -x is the number x > 0 written out as a string.  There  *)
(* is one measure and there are a few scenarios; sums are exact.           *)
(***************************************************************************)
EXTENDS Integers, Sequences, SequencesExt, FiniteSets, FiniteSetsExt

CONSTANTS
  Books,        \* books: functions from position ids to positions
  Dims,         \* dimensions that can be grouped on
  Numbers,      \* those whose column is numeric (strike); the others hold names
  Scens,        \* scenario columns
  Filters,      \* filter models: sets of filters, combined with AND
  MaxGroups,    \* ROLLUP_MAX_GROUPS
  PageSize,     \* rows in a page
  MaxRows       \* max_rows of a report

Null == 0       \* in a dimension or a filter value; None for a cell

Error == 0      \* in place of position ids: the request fails

\* A position: its dimensions, its measure (say delta), its P&L a scenario.
IsPosition(p) == p.at \in [Dims -> Nat] /\ p.m \in Int /\ p.pnl \in [Scens -> Int]

\* A frame's columns have names of their own, and a filter is on one of them.
ASSUME PivotAssumption ==
  /\ PageSize \in Nat \ {0} /\ MaxRows \in Int /\ IsFiniteSet(Scens)
  /\ Numbers \subseteq Dims /\ Dims \cap Scens = {} /\ {"positions", "m", "worst", "key"} \cap (Dims \cup Scens) = {}
  /\ \A b \in Books : IsFiniteSet(DOMAIN b) /\ \A p \in DOMAIN b : p \in Int /\ IsPosition(b[p])
  /\ \A fs \in Filters : \A f \in fs : f.column \in Dims \cup Scens \cup {"positions", "m", "worst"}

VARIABLES
  book,       \* the batch's frame
  rollups,    \* the rollup of each dimension that has one
  view,       \* the request on screen: order, filters, details, measured
  root,       \* the rows of its root level
  totals,     \* the grand total row
  opened,     \* the last row expanded: its group keys, and what was answered
  pages,      \* pages of the root level, as they were fetched
  report      \* the report, when the view is not on screen but mailed

vars == <<book, rollups, view, root, totals, opened, pages, report>>

Orders == {<<d>> : d \in Dims} \cup {<<d, e>> : d, e \in Dims}
Views  == {v \in [order : Orders, filters : Filters, details : SUBSET Dims, measured : BOOLEAN] :
             \A i, j \in DOMAIN v.order : v.order[i] = v.order[j] => i = j}
NoView   == [order |-> <<>>, filters |-> {}, details |-> {}, measured |-> TRUE]
NoTotals == [positions |-> 0, m |-> 0, pnl |-> [s \in Scens |-> 0], worst |-> 0]
Shut     == [keys |-> <<>>, leaf |-> FALSE, answer |-> {}]
NoReport == [depth |-> 0, lines |-> <<>>, note |-> FALSE]

\* The sum of a function's values, and the least of them; Null of none.
Sum(f)   == SumFunction(f)
Least(f) == IF DOMAIN f = {} THEN Null ELSE Min({f[s] : s \in DOMAIN f})

-----------------------------------------------------------------------------
(* Filters *)

\* Filter.expr: a comparison with a null is null, and a null drops the row.
Matches(f, cell) ==
  CASE f.op = "blank"       -> cell = Null
    [] f.op = "equals"      -> cell # Null /\ cell = f.value
    [] f.op = "notEqual"    -> cell # Null /\ cell # f.value
    [] f.op = "greaterThan" -> cell > f.value
    [] f.op = "in"          -> cell # Null /\ cell \in f.value

\* Columns of the positions of a frame b, and those that only rows have.
PositionCell(b, p, column) ==
  IF column \in Dims THEN b[p].at[column]
  ELSE IF column \in Scens THEN b[p].pnl[column]
  ELSE IF column = "worst" THEN Least(b[p].pnl) ELSE b[p].m

RowCell(row, column) ==
  IF column \in Scens THEN row.pnl[column]
  ELSE IF column = "worst" THEN row.worst
  ELSE IF column = "positions" THEN row.positions ELSE row.m

\* Seeded fault: every filter narrows the book.
PostNever(v) == {}

\* _split_filters: a filter on what only rows have, on a scenario, or on a
\* measure of the request, is about the rows; any other narrows the book.
Post(v) == {f \in v.filters : \/ f.column \in {"positions", "worst"} \cup Scens
                              \/ f.column = "m" /\ v.measured}
Pre(v)  == v.filters \ Post(v)

-----------------------------------------------------------------------------
(* Levels of a frame *)

Selected(b, v, path) ==
  {p \in DOMAIN b :
     /\ \A i \in DOMAIN path : path[i] # Null /\ b[p].at[v.order[i]] = path[i]
     /\ \A f \in Pre(v) : Matches(f, PositionCell(b, p, f.column))}

\* A detail cell: how many values the group holds, and the value if it is one.
Detail(b, P, d) ==
  LET held == {b[p].at[d] : p \in P}
  IN  [n |-> Cardinality(held), value |-> IF Cardinality(held) = 1 THEN Max(held) ELSE Null]

\* One row of a level, for the positions P; worst is worst-of-sum.
Row(b, P, key, v, details) ==
  LET pnl == [s \in Scens |-> Sum([p \in P |-> b[p].pnl[s]])]
  IN  [key |-> key, positions |-> Cardinality(P),
       m |-> IF v.measured THEN Sum([p \in P |-> b[p].m]) ELSE 0,
       pnl |-> pnl, worst |-> Least(pnl),
       detail |-> [d \in details |-> Detail(b, P, d)]]

\* aggregate_frame: the rows of the level under path.
Level(b, v, path) ==
  LET group   == v.order[Len(path) + 1]
      P       == Selected(b, v, path)
      details == v.details \ {v.order[i] : i \in 1..(Len(path) + 1)}
      rows    == {Row(b, {p \in P : b[p].at[group] = k}, k, v, details) :
                    k \in {b[p].at[group] : p \in P}}
  IN  {r \in rows : \A f \in Post(v) : Matches(f, RowCell(r, f.column))}

\* _leaf: the positions themselves; they have no column "positions".
Leaf(b, v, path) ==
  IF \E f \in Post(v) : f.column = "positions" THEN {Error}
  ELSE {p \in Selected(b, v, path) : \A f \in Post(v) : Matches(f, PositionCell(b, p, f.column))}

\* materialise_rollups: the root level of each dimension with few groups.
Materialised(b) ==
  [d \in {e \in Dims : Cardinality({b[p].at[e] : p \in DOMAIN b}) <= MaxGroups} |->
     Level(b, [NoView EXCEPT !.order = <<d>>, !.details = Dims], <<>>)]

\* Seeded fault: a filtered request is served from the rollup.
ServedByRollupAnyway(v) == v.order[1] \in DOMAIN rollups

\* _from_rollup: the whole book at one grain, and nothing narrower.
ServedByRollup(v) == v.filters = {} /\ v.order[1] \in DOMAIN rollups

\* The rollup's columns the request asks for.
FromRollup(v) ==
  {[r EXCEPT !.m = IF v.measured THEN @ ELSE 0,
             !.detail = [d \in v.details \ {v.order[1]} |-> r.detail[d]]] : r \in rollups[v.order[1]]}

RootLevel(v) == IF ServedByRollup(v) THEN FromRollup(v) ELSE Level(book, v, <<>>)

\* Seeded fault: the total's worst is the sum of the rows' worsts.
TotalsOfWorsts(rows) ==
  [positions |-> Sum([r \in rows |-> r.positions]), m |-> Sum([r \in rows |-> r.m]),
   pnl |-> [s \in Scens |-> Sum([r \in rows |-> r.pnl[s]])], worst |-> Sum([r \in rows |-> r.worst])]

\* totals_from: a fold of root rows; the worst is that of the summed P&L.
TotalsOf(rows) ==
  LET pnl == [s \in Scens |-> Sum([r \in rows |-> r.pnl[s]])]
  IN  [positions |-> Sum([r \in rows |-> r.positions]), m |-> Sum([r \in rows |-> r.m]),
       pnl |-> pnl, worst |-> Least(pnl)]

-----------------------------------------------------------------------------
(* Requests *)

Init ==
  /\ book \in Books
  /\ rollups = Materialised(book)
  /\ view = NoView /\ root = {} /\ totals = NoTotals
  /\ opened = Shut /\ pages = <<>> /\ report = NoReport

\* The grid opens a view: root level and totals. totals_request truncates to
\* the root dimension, so that both read one level.
Show(v) ==
  /\ view = NoView
  /\ view' = v
  /\ root' = RootLevel(v)
  /\ totals' = TotalsOf(RootLevel([v EXCEPT !.order = <<v.order[1]>>]))
  /\ UNCHANGED <<book, rollups, opened, pages, report>>

\* The grid's key of a group: a name as it is, a number as a string, a null as
\* null.
AsText(d, x) == IF d \in Numbers THEN 0 - x ELSE x

\* The group keys of a row, in whatever order of dimensions it was drilled to:
\* the datasource adds the order as it is when the request goes out.
Routes == {[i \in DOMAIN o |-> AsText(o[i], book[p].at[o[i]])] : o \in Orders, p \in DOMAIN book}

\* Seeded fault: the keys are taken for values.
BuildPathUncast(order, keys) == keys

\* build_path: _coerce casts a string back where the column is numeric.
BuildPath(order, keys) ==
  [i \in DOMAIN keys |-> IF order[i] \in Numbers THEN 0 - keys[i] ELSE keys[i]]

\* Its ValueError: more keys than dimensions, or a name where a number is due.
PathFails(order, keys) ==
  \/ Len(keys) > Len(order)
  \/ \E i \in DOMAIN keys : order[i] \in Numbers /\ keys[i] > 0

\* A row is expanded: the next level, or the positions, or a 400 that opens
\* nothing.
Expand(keys) ==
  LET path == BuildPath(view.order, keys)
      leaf == Len(path) >= Len(view.order)
  IN
  /\ view # NoView /\ report = NoReport
  /\ opened' = IF PathFails(view.order, keys) THEN Shut
               ELSE [keys |-> keys, leaf |-> leaf,
                     answer |-> IF leaf THEN Leaf(book, view, path) ELSE Level(book, view, path)]
  /\ UNCHANGED <<book, rollups, view, root, totals, pages, report>>

SortKey(r, column) == IF column = "key" THEN r.key ELSE RowCell(r, column)

\* _apply_sort: rows with equal keys come in any order, the sort is unstable.
Sorted(rows, column, descending) ==
  LET Before(a, b) == IF descending THEN SortKey(a, column) >= SortKey(b, column)
                                    ELSE SortKey(a, column) <= SortKey(b, column)
  IN  {s \in [1..Cardinality(rows) -> rows] :
         \A i, j \in DOMAIN s : i < j => s[i] # s[j] /\ Before(s[i], s[j])}

\* Seeded fault: the page starts with the last row of the one before.
SliceFrom(s, offset) == {s[i] : i \in {j \in DOMAIN s : offset <= j /\ j < offset + PageSize}}

\* _slice: rows offset + 1 to offset + limit.
Slice(s, offset) == {s[i] : i \in {j \in DOMAIN s : offset < j /\ j <= offset + PageSize}}

\* The grid scrolls: the next page of the root level, sorted anew.
FetchPage(column, descending) ==
  /\ view # NoView /\ report = NoReport
  /\ Len(pages) * PageSize < Cardinality(root)
  /\ pages # <<>> => column = pages[1].column /\ descending = pages[1].descending
  /\ \E s \in Sorted(RootLevel(view), column, descending) :
       pages' = Append(pages, [column |-> column, descending |-> descending,
                               rows |-> Slice(s, Len(pages) * PageSize)])
  /\ UNCHANGED <<book, rollups, view, root, totals, opened, report>>

\* The lines of one level, in the default order: groups by key, positions by id.
\* The sort a view may name is left out: it decides which lines a cut keeps, not
\* which a whole report has. The path is made of the rows' own values (child).
Lines(v, path) ==
  IF Len(path) < Len(v.order)
  THEN LET s == CHOOSE x \in Sorted(IF path = <<>> THEN RootLevel(v) ELSE Level(book, v, path), "key", FALSE) : TRUE
       IN  [i \in DOMAIN s |-> [path |-> Append(path, s[i].key), holds |-> s[i].positions]]
  ELSE LET L == Leaf(book, v, path)
           s == CHOOSE x \in [1..Cardinality(L) -> L] : \A i, j \in DOMAIN x : i < j => x[i] < x[j]
       IN  [i \in DOMAIN s |-> [path |-> Append(path, s[i]), holds |-> 1]]

\* flatten: a line, then the lines under it when it has a label; the first
\* MaxRows of them all.
Flatten(v, depth) ==
  LET under(line) == IF depth > 1 /\ line.path[1] # Null THEN Lines(v, line.path) ELSE <<>>
      roots == Lines(v, <<>>)
      all   == FlattenSeq([i \in DOMAIN roots |-> <<roots[i]>> \o under(roots[i])])
  IN  SubSeq(all, 1, Min({Len(all), MaxRows}))

\* Seeded fault: the note is for more lines than a report can have.
NotedAbove(lines) == Len(lines) > MaxRows

\* render_html: "showing the first ... rows; the view has more".
Noted(lines) == Len(lines) >= MaxRows

\* build_report_message: the totals, and the view to a depth. A leaf that
\* cannot be filtered fails, and nothing is sent.
Mail(v, depth) ==
  LET lines == Flatten(v, depth) IN
  /\ view = NoView
  /\ \A i \in DOMAIN lines : Len(lines[i].path) > Len(v.order) => Last(lines[i].path) # Error
  /\ view' = v
  /\ root' = RootLevel(v)
  /\ totals' = TotalsOf(RootLevel([v EXCEPT !.order = <<v.order[1]>>]))
  /\ report' = [depth |-> depth, lines |-> lines, note |-> Noted(lines)]
  /\ UNCHANGED <<book, rollups, opened, pages>>

Next ==
  \/ \E v \in Views : Show(v)
  \/ \E v \in Views, depth \in 1..2 : Mail(v, depth)
  \/ \E keys \in Routes : Expand(keys)
  \/ \E c \in {"key", "worst"}, desc \in BOOLEAN : FetchPage(c, desc)

Spec == Init /\ [][Next]_vars

-----------------------------------------------------------------------------
\* "A narrower request is a column selection rather than a different
\* aggregation" (_from_rollup): which tier answers cannot be told from what
\* is answered.
RollupIsExact == view # NoView => root = Level(book, view, <<>>)

\* "Built from the root-level aggregate so that post-aggregation filters are
\* reflected" (totals): the total row is that of the positions under the rows
\* on screen, no more and no fewer, counted from the book.
TotalsCoverRows ==
  view # NoView =>
    LET keys == {r.key : r \in root}
        P    == {p \in Selected(book, view, <<>>) : book[p].at[view.order[1]] \in keys}
    IN  /\ totals.positions = Cardinality(P)
        /\ \A s \in Scens : totals.pnl[s] = Sum([p \in P |-> book[p].pnl[s]])
        /\ totals.worst = Least(totals.pnl)
        /\ totals.worst >= Sum([r \in root |-> r.worst])

\* "Applying delta > 1000 to individual positions would ... silently change
\* every remaining group's sum" (_split_filters): what is filtered on a
\* measure of the request shows fewer rows, and none with another number.
GroupFilterKeepsSums ==
  view # NoView =>
    LET on == {f \in view.filters : f.column \in Dims}
    IN  (view.measured \/ \A f \in view.filters : f.column # "m") =>
          root \subseteq Level(book, [view EXCEPT !.filters = on], <<>>)

\* The positions whose cells read as the keys do, grouped as group_by groups them.
Under(keys) == {p \in DOMAIN book :
                  /\ \A i \in DOMAIN keys : AsText(view.order[i], book[p].at[view.order[i]]) = keys[i]
                  /\ \A f \in Pre(view) : Matches(f, PositionCell(book, p, f.column))}

\* What an expanded row opens adds up to the row: every position under it is
\* in one child, or is listed, though its keys come back as strings that "must
\* be cast back or the equality filter silently matches nothing" (build_path),
\* and may have been made in another order. Unless rows are filtered, as the
\* children are then filtered too, or a key is null: a null row opens empty, as
\* nothing equals null.
ExpandedAddsUp ==
  opened # Shut /\ Post(view) = {} /\ (\A i \in DOMAIN opened.keys : opened.keys[i] # Null) =>
    IF opened.leaf THEN opened.answer = Under(opened.keys)
    ELSE /\ Sum([r \in opened.answer |-> r.positions]) = Cardinality(Under(opened.keys))
         /\ \A s \in Scens : Sum([r \in opened.answer |-> r.pnl[s]])
                               = Sum([p \in Under(opened.keys) |-> book[p].pnl[s]])

\* Pages fetched one by one, each sorted anew, show every row of the level
\* once, when no two rows tie on the sort column.
PagesPartition ==
  LET n == Len(pages) IN
  (pages # <<>> /\ \A a, b \in root : SortKey(a, pages[1].column) = SortKey(b, pages[1].column) => a = b) =>
    /\ \A i, j \in 1..n : i # j => pages[i].rows \cap pages[j].rows = {}
    /\ n * PageSize >= Cardinality(root) => UNION {pages[i].rows : i \in 1..n} = root

\* A report without the note is the whole view: its groups hold the positions
\* its total row counts, and the lines under a group those of the group (when
\* no rows are filtered away). Read top down, each line is under its group.
ReportAddsUp ==
  LET lines    == report.lines
      Under1   == {i \in DOMAIN lines : Len(lines[i].path) > 1}
      Kids(k)  == {i \in Under1 : lines[i].path[1] = k}
      Holds(I) == Sum([i \in I |-> lines[i].holds])
  IN
  /\ \A i \in Under1 : i > 1 /\ lines[i - 1].path[1] = lines[i].path[1]
  /\ report # NoReport /\ ~report.note =>
       /\ Holds(DOMAIN lines \ Under1) = totals.positions
       /\ report.depth = 2 /\ Post(view) = {} =>
            \A i \in DOMAIN lines \ Under1 :
              lines[i].path[1] # Null => Holds(Kids(lines[i].path[1])) = lines[i].holds

=============================================================================
