---------------------------- MODULE BatchServing ----------------------------
(***************************************************************************)
(* A firm's batches from build to grid request: the build command          *)
(* (src/risk/build.py) writes artifacts one by one into the object store   *)
(* (src/risk/storage.py) and registers the batch in the control database;  *)
(* one API process loads batches and keeps them by id (batch_for of        *)
(* src/api/deps.py, BatchStore of src/risk/batch.py).                      *)
(*                                                                         *)
(* A loaded batch holds its rollups, read when it was loaded, and only the *)
(* name of its frame, which each query reads anew.  Nothing tells the      *)
(* process that an id has been rebuilt: by --batch-id, or by a second      *)
(* build under one label within a second.                                  *)
(*                                                                         *)
(* Contents are abstracted to the number of the build that wrote them; the *)
(* number also stands for its timestamp.                                   *)
(***************************************************************************)
EXTENDS Integers, Sequences, FiniteSets

CONSTANTS
  Builders,     \* processes running the build command
  Threads,      \* request threads of one API process
  Ids,          \* batch ids
  Dims,         \* dimensions with a rollup, unless it has too many groups
  Store,        \* "local": a write truncates, then fills; "s3": a put is atomic
  MaxBuilds,    \* bound: builds in a behaviour
  MaxBatches,   \* RISK_GRID_BATCH_CACHE
  None          \* no id, no artifact

ASSUME ServingAssumption ==
  /\ Store \in {"local", "s3"}
  /\ MaxBuilds \in Nat
  /\ MaxBatches \in Nat \ {0}
  /\ None \notin Ids \cup Dims \cup {"positions", "full", "manifest"}
  /\ Dims \cap {"positions", "full", "manifest"} = {}

VARIABLES
  builds,     \* builds begun
  rolled,     \* rolled[n]: the rollups build n's manifest names
  files,      \* the object store: each id's artifacts
  record,     \* each id's BatchRecord: the build it describes, 0: no record
  builder,    \* each build process
  cache,      \* BatchStore._batches: each id's loaded batch
  recent,     \* its ids, least recently used first
  thread,     \* each request thread
  clean,      \* history: ids whose last build ran to its end, alone
  fresh       \* history: ids loaded while clean, and not rebuilt since

server == <<cache, recent, fresh>>
vars   == <<builds, rolled, files, record, builder, cache, recent, thread,
            clean, fresh>>

Builds    == 1..MaxBuilds
Artifacts == {"positions", "full", "manifest"} \cup Dims
Content   == [n : 0..MaxBuilds, whole : BOOLEAN]     \* n = 0: no such object
Absent    == [n |-> 0, whole |-> FALSE]
\* A loaded batch: its manifest's build, and the build each rollup came from
\* (0: not loaded, answered from the frame).
Loaded    == [n : 0..MaxBuilds, rollups : [Dims -> 0..MaxBuilds]]
NotLoaded == [n |-> 0, rollups |-> [d \in Dims |-> 0]]
Answers   == {"none", "rows", "404", "500"}
PCs       == {"idle", "positions", "full", "rollups", "manifest", "timings", "register"}

Builder == [pc : PCs, id : Ids \cup {None}, n : 0..MaxBuilds, left : SUBSET Dims,
            open : Artifacts \cup {None}, alone : BOOLEAN]
NoBuild == [pc |-> "idle", id |-> None, n |-> 0, left |-> {}, open |-> None, alone |-> FALSE]
Thread  == [pc : {"idle", "manifest", "rollups", "query"}, id : Ids \cup {None},
            batch : Loaded, left : SUBSET Dims, quiet : BOOLEAN,
            answer : Answers, source : 0..MaxBuilds]
NoAsk   == [pc |-> "idle", id |-> None, batch |-> NotLoaded, left |-> {},
            quiet |-> FALSE, answer |-> "none", source |-> 0]

\* exists(). A store that fails is left out: S3Store answers any ClientError as
\* it does a missing object, and the rollup is then answered from the frame.
Exists(id, a) == files[id][a].n > 0

-----------------------------------------------------------------------------
Init ==
  /\ builds = 0
  /\ rolled = [n \in Builds |-> {}]
  /\ files = [id \in Ids |-> [a \in Artifacts |-> Absent]]
  /\ record = [id \in Ids |-> 0]
  /\ builder = [b \in Builders |-> NoBuild]
  /\ cache = [id \in Ids |-> NotLoaded]
  /\ recent = <<>>
  /\ thread = [t \in Threads |-> NoAsk]
  /\ clean = {} /\ fresh = {}

(***************************************************************************)
(* Building                                                                *)
(***************************************************************************)
\* build: the book is repriced under an id, new or given; materialise_rollups
\* leaves out the dimensions with more groups than max_groups.
StartBuild(b, id) ==
  /\ builder[b].pc = "idle"
  /\ builds < MaxBuilds
  /\ builds' = builds + 1
  /\ \E ds \in SUBSET Dims :
       /\ rolled' = [rolled EXCEPT ![builds + 1] = ds]
       /\ builder' = [c \in Builders |->
            IF c = b THEN [pc |-> "positions", id |-> id, n |-> builds + 1, left |-> ds, open |-> None,
                           alone |-> \A o \in Builders : builder[o].id # id]
            ELSE [builder[c] EXCEPT !.alone = @ /\ builder[c].id # id]]
  /\ clean' = clean \ {id}
  /\ fresh' = fresh \ {id}
  /\ thread' = [t \in Threads |-> [thread[t] EXCEPT !.quiet = @ /\ thread[t].id # id]]
  /\ UNCHANGED <<files, record, cache, recent>>

\* LocalStore: the file is truncated and then filled. Two that fill one file
\* at once leave it unreadable.
OpenFile(b, a) ==
  /\ Store = "local"
  /\ builder[b].open = None
  /\ builder' = [builder EXCEPT ![b].open = a]
  /\ files' = [files EXCEPT ![builder[b].id][a] = [n |-> builder[b].n, whole |-> FALSE]]
  /\ UNCHANGED <<builds, rolled, record, server, thread, clean>>

\* Seeded fault: an artifact that fails to be written is passed over.
PutPerhaps(b, a, there, left) ==
  /\ \E done \in BOOLEAN :
       files' = IF done THEN [files EXCEPT ![builder[b].id][a] = [n |-> builder[b].n, whole |-> TRUE]]
                ELSE files
  /\ builder' = [builder EXCEPT ![b].open = None, ![b].pc = there, ![b].left = left]
  /\ UNCHANGED <<builds, rolled, record, server, thread, clean>>

\* The write ends: _write_parquet and LocalStore.put, or S3Store.put.
Put(b, a, there, left) ==
  /\ IF Store = "local" THEN builder[b].open = a ELSE builder[b].open = None
  /\ files' = [files EXCEPT ![builder[b].id][a] =
                 [n |-> builder[b].n, whole |-> Store = "s3" \/ @.n = builder[b].n]]
  /\ builder' = [builder EXCEPT ![b].open = None, ![b].pc = there, ![b].left = left]
  /\ UNCHANGED <<builds, rolled, record, server, thread, clean>>

Write(b, a, there, left) == OpenFile(b, a) \/ Put(b, a, there, left)

WritePositions(b) == builder[b].pc = "positions" /\ Write(b, "positions", "full", builder[b].left)
WriteFull(b)      == builder[b].pc = "full" /\ Write(b, "full", "rollups", builder[b].left)
WriteRollups(b) ==
  /\ builder[b].pc = "rollups"
  /\ \E d \in builder[b].left : Write(b, d, "rollups", builder[b].left \ {d})

\* Seeded fault: the manifest does not wait for the rollups.
WriteManifestEarly(b) ==
  \/ builder[b].pc = "rollups" /\ Write(b, "manifest", "timings", builder[b].left)
  \/ builder[b].pc = "timings" /\ Write(b, "manifest", "register", builder[b].left)

\* write_batch writes the manifest last; build writes it again, with timings.
WriteManifest(b) ==
  \/ /\ builder[b].pc = "rollups" /\ builder[b].left = {}
     /\ Write(b, "manifest", "timings", {})
  \/ /\ builder[b].pc = "timings"
     /\ Write(b, "manifest", "register", {})

\* register_batch, in a transaction of its own, replaces the id's entry.
Register(b) ==
  /\ builder[b].pc = "register"
  /\ record' = [record EXCEPT ![builder[b].id] = builder[b].n]
  /\ clean' = IF builder[b].alone THEN clean \cup {builder[b].id} ELSE clean
  /\ builder' = [builder EXCEPT ![b] = NoBuild]
  /\ UNCHANGED <<builds, rolled, files, server, thread>>

\* Seeded fault: a build that ends early leaves its id taken.
CrashHolding(b) ==
  /\ builder[b].pc # "idle"
  /\ builder' = [builder EXCEPT ![b].pc = "idle", ![b].open = None]
  /\ UNCHANGED <<builds, rolled, files, record, server, thread, clean>>

\* The process ends early: by a crash, or by --no-register.
Crash(b) ==
  /\ builder[b].pc # "idle"
  /\ builder' = [builder EXCEPT ![b] = NoBuild]
  /\ UNCHANGED <<builds, rolled, files, record, server, thread, clean>>

(***************************************************************************)
(* Serving                                                                 *)
(***************************************************************************)
\* The ids in order of use: id becomes the most recently used one.
Touch(id) ==
  IF id \in {recent[i] : i \in DOMAIN recent}
  THEN LET at == CHOOSE i \in DOMAIN recent : recent[i] = id
       IN  [i \in DOMAIN recent |-> IF i < at THEN recent[i]
                                    ELSE IF i < Len(recent) THEN recent[i + 1] ELSE id]
  ELSE Append(recent, id)

\* batch_for: a named batch, or the newest one; a loaded one is used as it is.
Ask(t, id) ==
  /\ thread[t].pc = "idle"
  /\ IF cache[id].n > 0
     THEN /\ thread' = [thread EXCEPT ![t] =
                [NoAsk EXCEPT !.pc = "query", !.id = id, !.batch = cache[id], !.quiet = id \in fresh]]
          /\ recent' = Touch(id)
     ELSE /\ thread' = [thread EXCEPT ![t] =
                [NoAsk EXCEPT !.pc = "manifest", !.id = id, !.quiet = id \in clean]]
          /\ UNCHANGED recent
  /\ UNCHANGED <<builds, rolled, files, record, builder, cache, clean, fresh>>

Reply(t, kind, source) ==
  thread' = [thread EXCEPT ![t].pc = "idle", ![t].answer = kind, ![t].source = source]

\* load_batch: the manifest. A missing one is a 404 only for the local store
\* (boto3's error is not an OSError); half a one does not parse.
ReadManifest(t) ==
  LET f == files[thread[t].id]["manifest"] IN
  /\ thread[t].pc = "manifest"
  /\ IF f.whole
     THEN thread' = [thread EXCEPT ![t].pc = "rollups", ![t].batch = [NotLoaded EXCEPT !.n = f.n],
                                   ![t].left = rolled[f.n]]
     ELSE Reply(t, IF f.n = 0 /\ Store = "local" THEN "404" ELSE "500", 0)
  /\ UNCHANGED <<builds, rolled, files, record, builder, server, clean>>

\* Seeded fault: every rollup there is a file of is read, whatever the
\* manifest names.
ReadRollupsListed(t) ==
  LET id == thread[t].id IN
  /\ thread[t].pc = "rollups"
  /\ \E d \in {e \in Dims : Exists(id, e) /\ thread[t].batch.rollups[e] = 0} :
       IF files[id][d].whole
       THEN thread' = [thread EXCEPT ![t].batch.rollups[d] = files[id][d].n, ![t].left = @ \ {d}]
       ELSE Reply(t, "500", 0)
  /\ UNCHANGED <<builds, rolled, files, record, builder, server, clean>>

\* load_batch: one rollup the manifest names, if it exists.
ReadRollup(t) ==
  LET id == thread[t].id IN
  /\ thread[t].pc = "rollups"
  /\ \E d \in thread[t].left :
       IF Exists(id, d) /\ ~files[id][d].whole
       THEN Reply(t, "500", 0)
       ELSE thread' = [thread EXCEPT ![t].left = @ \ {d}, ![t].batch.rollups[d] = files[id][d].n]
  /\ UNCHANGED <<builds, rolled, files, record, builder, server, clean>>

\* BatchStore.put: the batch replaces whatever another thread put under its
\* id; the least recently used go.
PutBatch(t) ==
  LET id   == thread[t].id
      all  == Touch(id)
      over == IF Len(all) > MaxBatches THEN Len(all) - MaxBatches ELSE 0
      gone == {all[i] : i \in 1..over}
  IN
  /\ thread[t].pc = "rollups"
  /\ thread[t].left = {}
  /\ recent' = SubSeq(all, over + 1, Len(all))
  /\ cache' = [i \in Ids |-> IF i \in gone THEN NotLoaded
                             ELSE IF i = id THEN thread[t].batch ELSE cache[i]]
  /\ fresh' = (IF thread[t].quiet THEN fresh \cup {id} ELSE fresh \ {id}) \ gone
  /\ thread' = [thread EXCEPT ![t].pc = "query"]
  /\ UNCHANGED <<builds, rolled, files, record, builder, clean>>

\* The grid's root level of dimension d: from the rollup, or else from the
\* frame as the store has it now.
Query(t, d) ==
  LET rolls == thread[t].batch.rollups
      full  == files[thread[t].id]["full"] IN
  /\ thread[t].pc = "query"
  /\ IF rolls[d] > 0 THEN Reply(t, "rows", rolls[d])
     ELSE IF full.whole THEN Reply(t, "rows", full.n) ELSE Reply(t, "500", 0)
  /\ UNCHANGED <<builds, rolled, files, record, builder, server, clean>>

BuildStep(b) ==
  \/ \E id \in Ids : StartBuild(b, id)
  \/ WritePositions(b) \/ WriteFull(b) \/ WriteRollups(b) \/ WriteManifest(b)
  \/ Register(b) \/ Crash(b)

ServeStep(t) ==
  \/ \E id \in Ids : Ask(t, id)
  \/ ReadManifest(t) \/ ReadRollup(t) \/ PutBatch(t)
  \/ \E d \in Dims : Query(t, d)

Next == (\E b \in Builders : BuildStep(b)) \/ (\E t \in Threads : ServeStep(t))

Spec == Init /\ [][Next]_vars

-----------------------------------------------------------------------------
TypeOK ==
  /\ builds \in 0..MaxBuilds
  /\ rolled \in [Builds -> SUBSET Dims]
  /\ files \in [Ids -> [Artifacts -> Content]]
  /\ record \in [Ids -> 0..MaxBuilds]
  /\ builder \in [Builders -> Builder]
  /\ \A b \in Builders : builder[b].pc = "idle" <=> builder[b] = NoBuild
  /\ cache \in [Ids -> Loaded]
  /\ recent \in Seq(Ids)
  /\ thread \in [Threads -> Thread]
  /\ clean \subseteq Ids /\ fresh \subseteq Ids

\* A batch on disk is whole: the positions, the frame, the rollups its manifest
\* names and the manifest are all build n's.
WholeOnDisk(id, n) == \A a \in {"positions", "full", "manifest"} \cup rolled[n] :
                        files[id][a] = [n |-> n, whole |-> TRUE]

\* The batch an id's record describes is in the store, every artifact of it,
\* once a build of the id has ended undisturbed: also where the id had been
\* built before, with other rollups, or half built by a process that died.
RecordIsWhole == \A id \in clean : record[id] > 0 /\ WholeOnDisk(id, record[id])

\* "A loaded snapshot" (Batch): a batch loaded after its build has ended is
\* one build's in every tier, rollups and frame alike, for as long as the id
\* is not built again, though its frame is read at each query and earlier
\* builds may have left files under the id.
SnapshotIfQuiet ==
  \A id \in fresh :
    /\ cache[id].n = record[id]
    /\ WholeOnDisk(id, cache[id].n)
    /\ cache[id].rollups = [d \in Dims |-> IF d \in rolled[cache[id].n] THEN cache[id].n ELSE 0]

\* While nobody builds the id it asks for, a request is answered, and with the
\* registered build: no 404, no error, no older rows.
QuietIsServed ==
  \A t \in Threads : thread[t].quiet /\ thread[t].answer # "none" =>
    /\ thread[t].answer = "rows"
    /\ thread[t].source = record[thread[t].id]

=============================================================================
