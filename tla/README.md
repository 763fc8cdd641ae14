# A TLA+ model of risk_grid

TLA+ modules, TLC configurations and TLAPS proofs about the parts of risk_grid
that are hard to test, kept beside the code. Paths below are relative to the
repository; `tlc -config X.cfg M.tla` checks a run and `tlapm M.tla` a proof
module. `PROJECT.json` maps every definition to the lines it translates, lists
the runs, the hazards of the code and the properties that cover each, and for
every property a seeded fault that breaks it.

## 1. The system

| part | state | operations | talks to |
|---|---|---|---|
| Batch aggregates (`risk/batch.py`, `api/main.py`) | `_aggregates` (an OrderedDict), `_bytes`, `_lock`, rollups | `aggregate`, `totals`, `_store`, `warm` | called by every request thread of the API and by the worker |
| Pivot engine (`risk/aggregate.py`) | none | `aggregate_frame`, `present`, `totals_from`, `cache_key` | Polars |
| Batch artifacts (`risk/batch.py`, `risk/storage.py`, `risk/build.py`, `api/deps.py`) | Parquet files and a manifest per batch; a `BatchStore` per process | `write_batch`, `load_batch`, `batch_for`, `put`, `get` | object store, database |
| Ingestion worker (`ingest/worker.py`, `ingest/connectors.py`) | drop directory, `_processed`, quarantine, `ingestion_runs`, `batches` | `main`, `poll_firm`, `ingest_file`, connector `list`/`fetch`/`complete` | store, database, alerts, reports |
| Mapping and validation (`ingest/mapping.py`, `ingest/schema.py`, `ingest/validate.py`) | the previous batch's row count | `apply_profile`, `finalise`, `validate` | worker |
| Alert rules (`alerting.py`, `notify/deliver.py`, `api/admin.py`) | `alert_rules`, `alert_state`, `alert_events` | `evaluate_batch`, `deliver_alerts`, `save_alert`, `delete_alert` | worker on one side, administrators on the other |
| Saved views and reports (`notify/*`, `api/admin.py`) | `saved_views`, `reports` | `run_reports`, `flatten`, `save_view`, `delete_view`, `save_report` | batch, templates, mail |
| Templates and shock configs (`risk/templates.py`, `risk/scenarios.py`) | one JSON file each | `save_*`, `get_*`, `delete_*`, `to_grid`, `index_of`, `resolve` | API, worker, build command, reports |
| Control plane (`control/*`) | the database | `transaction`, `register_batch`, bootstrap, keys, audit | everything |
| Access (`control/auth.py`, `control/keys.py`) | users, API keys | `authenticate`, `resolve_firm`, `require_administer` | every endpoint |
| Grid client (`web/src`) | current batch, template, dimensions, open groups | fetches that answer in any order | API |
| Valuation (`risk/engine.py`, `risk/pricing.py`) | none | greeks, scenario P&L | worker |

What makes each correct, and what is hard about it:

* *Aggregates.* `cache_key` says that rows and totals reading one aggregate "is
  correctness, not just speed". The cache is shared by threads, the aggregation
  runs outside its lock, and its byte budget is kept by hand.
* *Pivot.* Three tiers answer a root level and must not be told apart. Filters are
  split into those before and those after grouping, worst is of the sums, and a level,
  its pages, its totals and the level below are separate requests that must agree.
* *Artifacts.* A batch is several files, written one by one and in place, under an
  id that may be built again while a process serves it from memory.
* *Ingestion.* A poll is one database transaction around file moves, uploads
  and mail that no rollback undoes; it can die anywhere, and the next one starts
  over, or has started already. "A batch present on disk but absent here is recoverable; the
  reverse is a broken pointer" (`control/models.py`).
* *Mapping and validation.* Every derived field has a default, and a rule can be
  silenced by a default that was meant to help it.
* *Alerts.* "You are told once per breach" needs state that survives batches,
  failing sends, aborted polls and administrators who change, switch off or
  delete a rule under the worker.
* *Templates.* A heading and the column under it come from two places that are edited apart.
* *Control plane.* Administrators' requests read, decide and commit at once with
  others; only constraints stand between them. Two layers keep firms apart.

## 2. Modules

| module | what it is |
|---|---|
| `AggregateCache`, `MCAggregateCache` | one batch's cache under request threads; its keys: two root levels, a drilled level, a rollup, one too big |
| `LruCache` | what the cache promises: an atomic memo; `AggregateCache` implements it |
| `AggregateCacheProofs` | theorems about the cache, among them that it implements `LruCache` |
| `IngestPipeline`, `MCIngestPipeline` | the worker's polls over a drop directory, the store and the database; good files among refused ones |
| `IngestPipelineProofs` | theorems about the pipeline |
| `AlertRules`, `MCAlertRules` | rules, their state and mail, over a sequence of batches |
| `AlertRulesProofs` | theorems about the rules |
| `BatchServing`, `MCBatchServing` | builds and rebuilds of ids under a process that serves them |
| `BatchServingProofs` | theorems about builds and serving |
| `ShockColumns`, `MCShockColumns` | configs, grids and headings |
| `ShockColumnsProofs` | theorems about headings and the order of grids |
| `Pivot`, `MCPivot` | the engine's answers over small books, and reports made of them |
| `PivotProofs` | theorems about rows, totals, rollups, expansions, pages and reports, for any book |
| `FileChecks`, `MCFileChecks` | mapping, derivation, rules and drift, file after file |
| `FileChecksProofs` | theorems about what is accepted |
| `ControlPlane`, `MCControlPlane` | users, keys and administrators' requests as transactions |
| `ControlPlaneProofs` | theorems about the control plane |

The interfaces between them: what `FileChecks` makes of a file is `Kind` in
`IngestPipeline`; a listed batch there is a record of `BatchServing`, in which each
query is a request of `AggregateCache` on the loaded batch; one computation there
is a row set of `Pivot`.

Operators commented "Seeded fault" are what `mutants` puts in the place of a
definition; no specification uses them.

### AggregateCache and LruCache

A thread's `pc` is where it is in `aggregate`: before the lookup, computing,
before `_store`, in its eviction loop, back in `grid_rows`. Each block under
`_lock` is one action, except that the eviction loop takes one action per turn
with the lock held, so that requests that need no lock go on meanwhile. `order`
and `held` are the OrderedDict, `bytes` is `_bytes`. An aggregate is only the number of the
computation that made it, as the hazard is that two computations differ. A request
is `aggregate` for the rows and, if asked for, `totals`, which is `aggregate`
of the root key once more. `spoiled` is a history variable: it marks a request
whose first result was not kept by the cache until its second read.

`LruCache` has four steps: use, compute, add, read a file. Adding an entry and
the evictions it costs are one step there and several here, so the refinement maps
the dictionary not to what it is but to what it will be when the thread in the
eviction loop is through (`Settled`): the insertion is the abstract step, and the
loop stutters. Were the lock released too soon, another thread could be
given an entry that is on its way out, and `ImplementsLru` would fail.

### IngestPipeline

Files are numbered in the order in which they arrive, and `Kind` says what the map,
validate and build steps make of each. Each worker takes one step for each
effect outside its transaction: fetch, quarantine, positions, frames, manifest, mail, move.
`txRuns` and `txReady` are its uncommitted rows; `Commit` publishes them and
`Rollback` drops them, and nothing else. `Abort` is a crash at any step, or an
exception outside `ingest_file`'s handlers; a file another poll has moved away
is one. `build_batch` names a batch by its label and the second it is built in, and the
worker's batches share their label, so `now`, which `Tick` moves on, is the id: builds of one
second, by one worker or two, have one set of artifacts, written over in place, and one record.
`store` holds of each artifact the file it was made of, or `Torn` where a write broke off.
`Register` looks for the record, `Flush` inserts or updates it, waiting for another
transaction that holds a row of that id, and `FlushClashes` is the unique constraint when the record
was committed after the look. `raced`, `built` and `shared` are history: files that two polls had
listed at once, the files each id was used for, and the ids used twice.

### AlertRules

A *pair* is a rule and a group. In each batch any set of pairs is in breach
(`book`). `evaluate_batch` evaluates the rules in any order, one action each,
then `deliver_alerts` reads all rules once (`asRead`) and takes the evaluations in that order;
edits made between its sends change `rules` and not what it has read. `breaching`/`known` are the committed `alert_state`,
`txBreaching`/`txKnown` what the session sees. A row that is not flushed yet does
not stop `delete_alert`, so `unflushed` and `doomed` model the foreign key
that fails afterwards. `heard`, `repeated`, `standing`, `judged` and `trouble` are
history: who has been told of what, and which rules were off, had nobody to tell, or failed. The condition of a rule is not modelled, so
a rule saved with another condition counts as looking for the same breach.

### BatchServing

A build writes positions, full frame, rollups and manifest, and then its record. An
artifact holds the number of the build that wrote it; in a local store it is
opened (truncated) and filled in two steps, in S3 put in one. A build can die between
any two. `batch_for` takes the id asked for or the newest record's, then a
process's `BatchStore`, then the manifest and each rollup it names, as separate
steps of a thread; the frame is read at each query, as it is lazy. `clean` and
`fresh` are history: ids whose last build ran to its end alone, and ids loaded since.

### ShockColumns

`Points`, `Cross` and `IndexOf` are the expansion of a config and the search for
a coordinate. A store keeps one file per slug; saving, deleting and the seeding of
a store without configs are actions, and the build command reads from a directory of
its own. A batch has the scenarios it was built with and the name of its config. `intact`
is history: batches whose config the firm has kept.

### Pivot

A book is a few positions with dimensions, a measure and scenarios, all of them integers.
`Level`, `Leaf`, `Detail`, `TotalsOf` and `FromRollup` compute answers the way the
code does, with the details of a row; the properties compare them with one another, or with sums over the
book. `Show`, `Expand`, `FetchPage` and `Mail` are the requests, so that an expansion
or a page is checked against the level that is on screen. A row is expanded by the keys the grid
has for it: a number comes back as a string (modelled as its negative), and the keys may
have been made in another order of dimensions than the request is sent with (`Routes`). `BuildPath` casts
them back by the type of each column, and `PathFails` is its `ValueError`. Sorting may order ties
anew at each request, as Polars' sort is not stable. What the null key, the filter on
a measure not requested and the filter on counts do at a leaf is kept as it is.

### FileChecks

`Problems` is the check of a profile against a file's columns, `Canonical` what
`finalise` makes of a row, `Report` the rules. A file has at most one kind of odd row,
because each rule speaks of the rows it finds and one is enough; sizes matter to the share of bad
prices and to drift. Each file is compared with the last one accepted.

### ControlPlane

Commands are one action; a request is two, its reads and its commit, and
another may commit between. `Rollback` stands for each failing constraint
and for any other exception. `authenticate` writes `last_used_at`, which locks the
key's row until the request ends. The database is Postgres with the constraints of `control/models.py`.

## 3. Runs

| run | question | bounds | states | result |
|---|---|---|---|---|
| `cache` | does the cache keep its accounts, share what it can, look atomic, and answer? | 2 threads, 5 keys, 3 requests | 196,394 | holds |
| `ingest` | do overlapping polls, shared ids, aborts, failing stores and mail leave a true record? | 2 workers, 3 files, 2 a poll, 2 seconds (`MaxTime`), 2 faults (`MaxStrikes`) | 5,442,038 | holds |
| `ingest_liveness` | are good files listed in the end? | 1 worker, 5 files, 3 refused, 4 a poll, 2 seconds | 1,383 | holds |
| `ingest_recorded` | has every file taken away its run? | 1 worker, 2 files, 1 abort | | **violated** |
| `alerts` | do state, batch and rules agree, and is each breach told once, through every edit and fault? | 2 rules, 1 group, 3 batches, 2 edits | 1,594,585 | holds |
| `serving` | is a batch served whole, and from one build? | 2 builders, 2 threads, 2 ids, 2 builds, 1 loaded batch, local store | 2,177,848 | holds |
| `columns` | does a heading fit while the firm keeps the config? | 3 names in 2 files, 3 edits, 2 builds | 8,662 | holds |
| `columns_heading` | does it always? | 1 edit | | **violated** |
| `pivot` | do rows, totals, rollups, expansions, pages and reports agree? | 3 positions, 2 dimensions, 2 scenarios, 8 filter models, pages of 1, reports of 4 lines, one dimension of numbers | 338,572 | holds |
| `checks` | is what is accepted priceable, and does the book keep its size? | files of 0, 1, 51, 100 and 149 rows, two odd cells, 7 profiles | 60,119 | holds |
| `checks_expired` | is an option that has expired refused? | files of 0 and 1 row, one odd cell | | **violated** |
| `control` | do profiles, views, reports and audit survive concurrent requests? | 2 firms, 2 people, 2 keys, 2 requests at once, 2 views, 2 versions | 411,219 | holds |

Why the bounds suffice. Every race in the cache is between two threads, and three
requests allow one to fill, one to evict and one to read; the sizes are
chosen so that two entries fit, a third evicts both and one fits nowhere. In the
pipeline an abort matters to the file in hand, to those before it in the poll and
to those after it, and two polls share a file, miss it or take it from each
other; two faults are a second abort, or one on top of a failing store or send. In the two
seconds, builds of different files, of one file twice, and of two workers share an id or do not, so that
every build meets an id that is new, used before, or being used. For alerts, breach, clear
and breach again need three batches, two edits switch a rule off and on, and two rules
share a pass, its mail and its transaction. In
serving, a rebuild needs two builds of an id or one of each of two ids, and room for one batch makes
every other load an eviction. For columns the contents differ in number of points, symmetry
and zero, and two names share a slug. In the pivot, three positions give a
group of two beside one of one, hedges, offsets, a null key and, with three contracts, a
dimension too fine for a rollup. The sizes of files stand at the edges of one bad price in a hundred and of the drift of a
half. In control every conflict is between two requests of one firm; the second firm is there to be kept out.

Fairness. `FairSpec` of the cache assumes that a thread in a request runs on, and that a
free lock is given to a thread waiting for it (weak fairness of each
thread's step). The pipeline assumes that a worker goes on and is started
again while files wait. `docs/operations.md` says that there is no scheduler yet, so
this is what the operator has to do; without it nothing is ingested at all. No
other specification states fairness.

Deadlock is checked in `control`, which always has a command left to give. Elsewhere
requests, files, batches, builds and edits are bounded, so behaviours end with
nothing left to do; for the cache, that nobody is left waiting is `RequestsFinish`.

## 4. What the violated runs show, and what else was learnt

1. `ingest_recorded`: a poll that dies after `connector.complete` leaves a file in
   `_processed` that no `IngestionRun` mentions. Its batch is on disk
   (`ArchivedIsOnDisk`, with the exception below), but unlisted.
2. `columns_heading`: after an edit of a shock config, the columns of a batch that was
   built before are headed by coordinates they do not show. `HeadingFitsIntact` says
   when headings can be trusted: while the firm keeps the config under its name,
   also when another name shares its file. The build command, which takes
   configs from another directory, breaks it without any edit.
3. `checks_expired`: an option whose expiry has passed becomes part of a batch, with no days left.
   `finalise` clips derived days at zero (`ingest/mapping.py:328`), so `options_are_coherent`,
   which refuses negative days, sees none; its docstring (`ingest/validate.py:163`) and
   `docs/operations.md:92` call an expired option an error. It is one only when the firm maps days itself, and that is
   what `AcceptedIsPriceable` asserts.

Some properties hold because they say less than one would like:

* Two first requests for one level both compute it. The one that stores second
  shows rows of its own computation and totals of the other's. `SharedUnlessSpoiled`
  says when rows and totals can differ: then, when an aggregate is larger
  than the budget, and when the entry is evicted between the two reads.
* Mail goes out before the commit. The batch can be opened by its id by then
  (`ReadyIsOnDisk`), but is in nobody's list, and after a rollback never will be.
* As many refused files as a poll has places starve a firm: they are the oldest in
  every poll. `GoodFilesAreListed` holds with one place more.
* `ListedOnce` excepts files two polls had listed at once: both can build and list them.
* Ids are seconds. The second of two builds in one second writes over the first, artifact by artifact,
  and takes its record: two good files of one poll can end as one listed batch, a run can name a batch of another
  file's rows, and a build that breaks off leaves a listed batch torn. So `ReadyIsOnDisk`, `RunsTellTheTruth` and
  `ArchivedIsOnDisk` say of an id used once that the batch is whole and made of the file, and of one used
  twice (`shared`) no more than that it was built of that file and no artifact is missing; `GoodFilesAreListed` takes a
  listed batch of the same second for the file's own.
* A rule that was switched off resumes with the state it had then, so a new breach may
  be taken for the old one; a breach whose mail failed, or that had no recipients, counts as told. `BreachIsTold`
  leaves out the rules this has happened to (`trouble`).
* A poll that is rolled back forgets what it has told, and the next tells it again as new. `ToldOnce`
  does not count such mail, `BreachIsTold` leaves out the rules there were.
* Deleting a rule can do that to every other rule. A worker that has evaluated the
  rule for the first time holds a state row it has not flushed; the delete succeeds
  (`api/admin.py:471`: no row the database has seen refers to the rule), the worker's
  flush then fails on the foreign key, and the rollback takes
  back the state of all the rules of the poll, after the mail of its earlier batches is out, although each mail
  says "You are told once per breach" (`notify/deliver.py:177`).
* A mode changed while earlier mail of the batch is being sent has no effect on the mail still to come: the rules were
  read before. `StandingIsQuiet` and `ToldOnce` are about the mode as it was read.
* `GridsAreOrdered` is about positive steps. Nothing checks the sign of an axis step: a
  negative one makes the axis descend, unless a zero is put in, which sorts it.
* During a rebuild of an id a request may fail or mix two builds; `QuietIsServed` and
  `SnapshotIfQuiet` are about ids nobody is building.
* `PagesPartition` needs a sort column without ties; `ExpandedAddsUp` keys without
  null (a request that fails opens nothing, and adds up to nothing); `GroupFilterKeepsSums` a measure that the template names.
* `BookKeepsItsSize` also means that a book which really halves is refused for ever.

## 5. Proofs

Each safety property of a passing run, invariant or action property, is a theorem of
`Spec` for every value of the constants. Assumptions are the named ones on the constants. `CacheAssumption`,
`IngestAssumption`, `AlertAssumption`, `ServingAssumption` and `ControlAssumption` give their types and, for the
cache, say that a root level's root is itself and that rollups serve root levels.
`ChecksAssumption` says that mapped fields are fields and cells numbers, `ColumnsAssumption`
that contents are made of axes and no config has an empty name, `PivotAssumption` that books
and scenarios are finite, positions numbered, a page has a row, and filters are on columns that there are.

*Cache.* `BytesAccounted` and `WithinBudget` are not inductive: what the budget is
when the lock is taken depends on who holds it. `CacheInv` adds that keys are
distinct, that a thread is in the eviction loop exactly while it holds the lock, and that the
newest entry is then the one it stored, fits the budget alone and is still
its own. So the loop can never pop it: when it is the only one left, the budget is met.
The bytes of a set of keys are the cardinality of a disjoint union (`Cells`), so that adding and
removing one key are lemmas on finite sets. `SharedUnlessSpoiled` needs one more
conjunct, `ShareInv`: while a request is between its two reads and not spoiled, the
entry it read is cached and unchanged.

`ImplementsLru` rests on `CacheInv` and on three facts about `Fit`, the keys an LRU memo
keeps: what fits is kept as it is (so with the lock free the memo is the cache), nothing
comes in, and where the oldest key has to go the rest is cut as if it had gone
already (so a turn of the loop is no step of the memo, and all of them
happened with the insertion). That there is a least number of keys to drop is the
well-foundedness of the naturals.

*Pipeline.* `StoreInv` says what the disk holds for everybody who relies on it. `HandInv` is about a
worker's own build: the artifacts it is through with are written (its own while the id is not shared, there at
all otherwise), those it is not through with are absent while the id is not shared, and two workers with one id have made
it shared. `BuiltInv` ties the two histories to the disk: nothing is there under an id not yet used, and an id that
is not shared was used for one file. `Kept` says of records, committed or not, that their batch holds their file, and
`Truthful` of runs that they tell the truth with respect to the records that would be committed with them. That
is why a commit, which publishes both, keeps the committed state true. A step writes one artifact of one id at most
(`WritesOne`); where somebody relies on it the id is shared, and the artifact stays present (`HoldsKept`). All of this holds for
any number of overlapping workers. So does `ListedOnceAlways`, whose only
assumption is an archiving connector: `OnceInv` says that two workers share only raced
files, and that a file with a record, committed or not, that is not raced
has left the directory or is the one being completed by the worker whose record it is.

*Alerts.* `NoOrphanState` is about committed rows; `RowsInv` adds the transaction's:
they refer to rules that exist unless the transaction is doomed, and it
can be doomed only before the flush that would fail. `PassInv` says that
what has been evaluated is settled and what has not is as it was when the batch began;
`StateFollowsBatch` and `StandingIsQuiet` follow.

`ToldOnceAlways` and `BreachIsToldAlways` have no hypotheses. `OnceInv` says that a pair somebody has
heard of is in breach as the session sees it, and that no two evaluations that wait for delivery are
of one rule; so an evaluation finds fresh only what nobody has heard of, and a rollback, which takes the session back, takes
what was heard with it. `ToldInv` is about the
other direction, and about rules that exist and are without trouble (`Sound`): a pair of theirs that stands has been heard of, or
is in an evaluation that waits for delivery, or its rule has yet to find it cleared (`Answered`).

*Serving.* The three invariants of `BatchServing` are facts about its history, so each needs
one of the present. `AloneIsUndisturbed` says that a build alone under its id finds
what it has written so far as it left it, half an open file included; so at its end
the batch, positions included, is whole. `CleanIsWhole` adds to `RecordIsWhole` that nobody builds under a clean id, which is
why a later write by anybody misses it. On these rest `FreshIsRecorded` (a loaded batch has
the record's number and just the rollups that build's manifest names) and
`QuietIsUndelayed` (how far a request has got with them). They hold for both stores and
any number of builders, threads, ids, dimensions and cached batches.

*Columns.* `IInv` says where the grid of an intact batch comes from: its config is the one the
firm keeps under that slug now, and `IndexOf` looks into that grid. Names that share a slug share its
file, which is why an edit under either name ends the batch's being intact. `GridsAreOrderedAlways`
is about two nested loops over axes of any length: positions in a product are quotients and remainders,
and points are in order on each side of zero.

*Pivot.* Nothing about sums in the library can be used for a proof, as its induction theorems take an
operator. Sums are therefore argued from least sets: of the subsets of a finite set for which a
claim fails one has no smaller one among them, and taking one element from it gives the contradiction
(`LeastSet`, by well-foundedness of strict inclusion). From this `Over`, the sum of a function over a set, does
not depend on order (`OverLess`), is additive, monotone, and the same summed group by group
(`OverGroups`) or under other names (`OverReindexed`). Lemmas about levels have the frame, view and path as parameters:
a level is a row per group (`LevelIs`), counts and sums what its groups hold (`LevelCounts`, `LevelAddsUp`),
and depends on nothing but selection, grouping, details and measure (`SameRows`), so
a rollup's row, narrowed, is the request's (`RollupAnswers`). A sort lists each row
once, and in one way when no two tie (`SortedOnce`). `IInv` then says that what is on screen is
what the book gives, that every page is a slice of some sort on one column; the theorems follow. For `ExpandedAddsUpAlways`,
`ReadBack` says that casting back the text of a value gives the value, so the path selects the
positions whose cells read as the keys do.
`ReportAddsUpAlways` takes a report's lines as a tree flattened: a block for each group, the sum
over the lines of a flattened tree is that over its groups, and under each group that of the
lines below it (`Gathered`, one block after the other). `RInv` adds to `IInv` that a mailed report is the first lines of such a
tree. Lines that are cut carry the note, so those without it are the whole tree.

*Checks.* `ChecksInv` recalls of an accepted file that it was mapped without a problem, has rows, and
broke no rule; which rule makes a row priceable is then a lemma for each. The size of the
book is a step property of the file before.

*Control plane.* Types need `KeysHaveUsers`: a request acts for the user of its key.
`AccessInv` adds to `OwnFirmOnly` and `Contained` that each request under
way may do what it has set out to do; that stays so while it waits because users
are never changed (`UsersStay`). `OneActiveProfile` and `AuditIsTrue` are
inductive together, by one lemma on the versions a commit leaves (`VersionAdded`): the unique
constraint makes what the request saw the latest still. `ReportsHaveViews` needs
`ViewInv`: ids are given once, in ascending order, so that the view a request
saw is, when it is still there, the same firm's.

Model-checked only: liveness (`RequestsFinish`, `GoodFilesAreListed`), which is out of the prover's
reach. `ArchivedIsRecorded`, `HeadingFits` and `ExpiredIsRefused` are the three claims that do not hold. One definition is
written for the prover: `Lines` sorts positions with a `CHOOSE` of its own, because the
sort of the community modules rests on one of module TLC that the prover has no
definition of.

## 6. Not modelled

* Valuation and demo data are floating-point numbers; HTML, images and mail transport are output.
* The grid client. Its hazards are listed; most of what it does is up to the grid library.
* In `IngestPipeline`: several profiles of one firm, the `--file` option; the S3 and SFTP transports
  (whose `complete` does nothing, as with `Archives` false) are not told apart. The frame and the rollups are one
  artifact there, and a write is one step that may break off; `BatchServing` has them apart. The build
  command, which can be given the profile's label and so the worker's ids, is in `BatchServing` only.
* In `AlertRules`: `AlertEvent` rows, conditions of rules, and two workers at once.
* In `FileChecks`: parsing of cells, and `accounts_have_not_vanished`, whose context is never filled.
* In `BatchServing`: `delete_batch`, `fail_batch`, `latest_batch` and `load_positions`, which only tests call
  (that the positions are there to load is part of `RecordIsWhole`). `S3Store.exists` takes every client error for a missing
  object (`risk/storage.py:228`); the model's `Exists` errs never.
* In `Pivot`: the sort a view names, which reorders the lines of a report, and views deeper than two dimensions.
* In `ShockColumns`: editing of column templates (files like the configs') and measure columns.
* In `ControlPlane`: a firm has one name for its profiles and one for its reports;
  the outcome a report run records; tables being created. `authenticate` reads a key before its update locks the row
  (`control/auth.py:76`, `94`): a key revoked between the two still serves its request, which the model takes
  for one begun before. A report saved with the view it had is written anew in the model and left alone by the ORM. `by` of a
  version is history, not a column: the audit log says who saved it.
* Endpoints that only read, and the mapping preview.

## 7. What could come next

1. `GridClient`: answers out of order, batch changes, open groups.
2. Overlapping workers in `AlertRules`, with the unique constraint on `alert_state`.
3. Abstract specifications of the pipeline (a ledger of files) and of the alerts (episodes of breach).
