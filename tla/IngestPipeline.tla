--------------------------- MODULE IngestPipeline ---------------------------
(***************************************************************************)
(* The ingestion worker of one firm (src/ingest/worker.py): what a poll    *)
(* does to the drop directory, to the object store and to the control      *)
(* database, one file after another.                                       *)
(*                                                                         *)
(* main runs the whole poll in ONE database transaction: a worker's run    *)
(* rows and batch records reach the database together, at Commit, or       *)
(* never.  Files it moves, artifacts it writes and mail it sends are not   *)
(* undone when the transaction is rolled back.  Several workers may poll   *)
(* at once, as nothing keeps a scheduler from starting the next before the *)
(* last has ended.                                                         *)
(***************************************************************************)
EXTENDS Integers, FiniteSets

CONSTANTS
  Workers,
  NFiles,       \* files are numbered in the order they arrive (list(): oldest first)
  Kind,         \* Kind[f]: what read_source .. write_batch make of the file
  Archives,     \* the connector moves completed files away (LocalConnector)
  Limit,        \* poll_firm's limit: files taken in one poll
  Faults,       \* which faults can happen: "store", "send", "abort"
  MaxTime,      \* bound: seconds that go by
  MaxStrikes    \* bound: times a fault strikes

Files == 1..NFiles

\* build_batch names a batch after its label and the second it is built in. The
\* worker's batches share one label, so the second is the id.
Ids == 1..MaxTime

Absent == 0     \* no artifact, no record, no file in hand, no id
Torn   == -1    \* an artifact whose last write broke off

\* What write_batch writes, in this order: positions, then full and the rollups,
\* then the manifest. A worker that writes one is at the step of its name.
Artifacts == {"positions", "frames", "manifest"}

Kinds == {"good",        \* becomes a batch
          "unmappable",  \* MappingError
          "unreadable",  \* any other exception while reading
          "invalid",     \* the validation report has an error
          "unbuildable"} \* repricing raises

ASSUME IngestAssumption ==
  /\ NFiles \in Nat
  /\ Kind \in [Files -> Kinds]
  /\ Archives \in BOOLEAN
  /\ Limit \in Nat \ {0}
  /\ Faults \subseteq {"store", "send", "abort"}
  /\ MaxTime \in Nat \ {0}
  /\ MaxStrikes \in Nat

VARIABLES
  arrived,      \* files 1..arrived have arrived
  inbox,        \* files in the drop directory
  archived,     \* files moved to _processed
  quarantined,  \* files with a copy under quarantine/
  now,          \* the second it is
  struck,       \* times a fault has struck
  store,        \* store[i][a]: the file whose rows artifact a of batch i holds
  dbRuns,       \* committed ingestion_runs
  dbReady,      \* committed batch records: dbReady[i], the file batch i was made of
  mailed,       \* batches alerts and reports have been mailed about
  pc,           \* each worker: its step
  waiting,      \* each worker: files of this poll it has not come to yet
  current,      \* each worker: the file in hand and, once built, its batch
  txRuns, txReady,        \* each worker: its uncommitted rows
  raced,        \* history: files two polls had listed at once
  built,        \* history: built[i], the files a build under id i was begun of
  shared        \* history: ids a second build was begun under

bounds == <<now, struck>>
disk   == <<store, built, shared>>
drop   == <<arrived, inbox, archived, raced>>
db     == <<dbRuns, dbReady>>
tx     == <<txRuns, txReady>>
worker == <<pc, waiting, current>>
vars   == <<arrived, inbox, archived, quarantined, now, struck, store, dbRuns,
            dbReady, mailed, pc, waiting, current, txRuns, txReady, raced, built, shared>>

Records == [Ids -> Files \cup {Absent}]
Run     == [file : Files, status : {"succeeded", "quarantined", "failed"},
            batch : Ids \cup {Absent}]
Hand    == [file : Files \cup {Absent}, batch : Ids \cup {Absent}]

PCs == {"idle", "next", "open"} \cup Artifacts
         \cup {"register", "insert", "update", "deliver", "complete"}

Empty     == [file |-> Absent, batch |-> Absent]
NoRecords == [i \in Ids |-> Absent]

File(w) == current[w].file
Id(w)   == current[w].batch
Goto(w, there) == pc' = [pc EXCEPT ![w] = there]

Strikes(fault) ==
  /\ fault \in Faults
  /\ struck < MaxStrikes
  /\ struck' = struck + 1

\* finish(): the run row gets its outcome.
Finish(w, status, batch) ==
  txRuns' = [txRuns EXCEPT
               ![w] = @ \cup {[file |-> File(w), status |-> status, batch |-> batch]}]

\* poll_firm goes on to its next file.
NextFile(w) ==
  /\ current' = [current EXCEPT ![w] = Empty]
  /\ Goto(w, "next")

\* What a transaction's rows make of the records.
Upserted(rows) == [i \in Ids |-> IF rows[i] = Absent THEN dbReady[i] ELSE rows[i]]

\* Seeded fault: what the poll registered is committed although it failed.
RollbackKeepsRecords(w) ==
  /\ dbReady' = Upserted(txReady[w])
  /\ txRuns' = [txRuns EXCEPT ![w] = {}]
  /\ txReady' = [txReady EXCEPT ![w] = NoRecords]
  /\ waiting' = [waiting EXCEPT ![w] = {}]
  /\ current' = [current EXCEPT ![w] = Empty]
  /\ Goto(w, "idle")
  /\ UNCHANGED <<drop, quarantined, now, built, shared, dbRuns, mailed>>

\* An exception leaves poll_firm: the transaction goes, and the poll with it.
Rollback(w) ==
  /\ txRuns' = [txRuns EXCEPT ![w] = {}]
  /\ txReady' = [txReady EXCEPT ![w] = NoRecords]
  /\ waiting' = [waiting EXCEPT ![w] = {}]
  /\ current' = [current EXCEPT ![w] = Empty]
  /\ Goto(w, "idle")
  /\ UNCHANGED <<drop, quarantined, now, built, shared, db, mailed>>

-----------------------------------------------------------------------------
Init ==
  /\ arrived = 0 /\ inbox = {} /\ archived = {} /\ quarantined = {}
  /\ now = 1 /\ struck = 0 /\ store = [i \in Ids |-> [a \in Artifacts |-> Absent]]
  /\ dbRuns = {} /\ dbReady = NoRecords /\ mailed = {}
  /\ pc = [w \in Workers |-> "idle"]
  /\ waiting = [w \in Workers |-> {}]
  /\ current = [w \in Workers |-> Empty]
  /\ txRuns = [w \in Workers |-> {}]
  /\ txReady = [w \in Workers |-> NoRecords]
  /\ raced = {} /\ built = [i \in Ids |-> {}] /\ shared = {}

\* A second goes by.
Tick ==
  /\ now < MaxTime
  /\ now' = now + 1
  /\ UNCHANGED <<drop, quarantined, struck, disk, db, mailed, worker, tx>>

\* The firm drops its next file.
Arrive ==
  /\ arrived < NFiles
  /\ arrived' = arrived + 1
  /\ inbox' = inbox \cup {arrived + 1}
  /\ UNCHANGED <<archived, raced, quarantined, bounds, disk, db, mailed, worker, tx>>

\* connector.list()[:limit]: of the files in S, the oldest.
Oldest(S) == {f \in S : Cardinality({g \in S : g <= f}) <= Limit}

\* The files a poll that runs has listed and is not through with.
Taken(w) == waiting[w] \cup {File(w)}

\* main opens the transaction, poll_firm lists what is waiting.
StartPoll(w) ==
  /\ pc[w] = "idle"
  /\ inbox # {}
  /\ waiting' = [waiting EXCEPT ![w] = Oldest(inbox)]
  /\ Goto(w, "next")
  /\ raced' = raced \cup (Oldest(inbox) \cap UNION {Taken(v) : v \in Workers})
  /\ UNCHANGED <<arrived, inbox, archived, quarantined, bounds, disk, db, mailed,
                 current, tx>>

\* The next file of worker w's poll, oldest first.
IsNext(w, f) == f \in waiting[w] /\ \A g \in waiting[w] : f <= g

\* connector.fetch copies the file; ingest_file inserts the run row.
Fetch(w) ==
  /\ pc[w] = "next"
  /\ \E f \in inbox :
       /\ IsNext(w, f)
       /\ waiting' = [waiting EXCEPT ![w] = @ \ {f}]
       /\ current' = [current EXCEPT ![w] = [file |-> f, batch |-> Absent]]
  /\ Goto(w, "open")
  /\ UNCHANGED <<drop, quarantined, bounds, disk, db, mailed, tx>>

\* Seeded fault: an early return that skips finish().
RejectUnfinished(w) ==
  /\ pc[w] = "open"
  /\ Kind[File(w)] \in {"unmappable", "invalid", "unreadable"}
  /\ Finish(w, "running", Absent)
  /\ quarantined' = quarantined \cup {File(w)}
  /\ NextFile(w)
  /\ UNCHANGED <<drop, bounds, disk, db, mailed, waiting, txReady>>

\* Seeded fault: the run says quarantined, and no copy is kept.
RejectUnkept(w) ==
  /\ pc[w] = "open"
  /\ Kind[File(w)] \in {"unmappable", "invalid", "unreadable"}
  /\ Finish(w, "quarantined", Absent)
  /\ NextFile(w)
  /\ UNCHANGED <<drop, quarantined, bounds, disk, db, mailed, waiting, txReady>>

\* The map and validate steps refuse the file: a copy is kept and the run says
\* so. The file itself stays where it was.
Reject(w) ==
  /\ pc[w] = "open"
  /\ \/ Kind[File(w)] \in {"unmappable", "invalid"} /\ Finish(w, "quarantined", Absent)
     \/ Kind[File(w)] = "unreadable" /\ Finish(w, "failed", Absent)
  /\ quarantined' = quarantined \cup {File(w)}
  /\ NextFile(w)
  /\ UNCHANGED <<drop, bounds, disk, db, mailed, waiting, txReady>>

\* build_batch: the batch gets its id, whoever else has it.
Build(w) ==
  /\ pc[w] = "open"
  /\ Kind[File(w)] = "good"
  /\ current' = [current EXCEPT ![w].batch = now]
  /\ built' = [built EXCEPT ![now] = @ \cup {File(w)}]
  /\ shared' = IF built[now] = {} THEN shared ELSE shared \cup {now}
  /\ Goto(w, "positions")
  /\ UNCHANGED <<drop, quarantined, bounds, store, db, mailed, waiting, tx>>

AfterWriting(a) == CASE a = "positions" -> "frames"
                     [] a = "frames"    -> "manifest"
                     [] a = "manifest"  -> "register"

\* Seeded fault: a manifest that could not be written is let pass.
WritePerhaps(w) ==
  /\ pc[w] \in Artifacts
  /\ \/ store' = [store EXCEPT ![Id(w)][pc[w]] = File(w)]
     \/ pc[w] = "manifest" /\ UNCHANGED store
  /\ Goto(w, AfterWriting(pc[w]))
  /\ UNCHANGED <<drop, quarantined, bounds, built, shared, db, mailed, waiting,
                 current, tx>>

\* write_batch: one artifact after another, in place.
Write(w) ==
  /\ pc[w] \in Artifacts
  /\ store' = [store EXCEPT ![Id(w)][pc[w]] = File(w)]
  /\ Goto(w, AfterWriting(pc[w]))
  /\ UNCHANGED <<drop, quarantined, bounds, built, shared, db, mailed, waiting,
                 current, tx>>

\* What a worker that stops leaves of the artifact it is writing, if any: what
\* was there, or a part of the new one.
BrokenOff(w) ==
  \/ UNCHANGED store
  \/ pc[w] \in Artifacts /\ store' = [store EXCEPT ![Id(w)][pc[w]] = Torn]

\* Seeded fault: a file whose build failed is completed like any other.
BuildFailsCompleted(w) ==
  /\ \/ pc[w] = "open" /\ Kind[File(w)] = "unbuildable" /\ UNCHANGED struck
     \/ pc[w] \in Artifacts /\ Strikes("store")
  /\ BrokenOff(w)
  /\ Finish(w, "failed", Absent)
  /\ Goto(w, "complete")
  /\ UNCHANGED <<drop, quarantined, now, built, shared, db, mailed, waiting,
                 current, txReady>>

\* Seeded fault: the exception is not caught, so it ends the poll.
BuildFailsRaised(w) ==
  /\ \/ pc[w] = "open" /\ Kind[File(w)] = "unbuildable" /\ UNCHANGED struck
     \/ pc[w] \in Artifacts /\ Strikes("store")
  /\ BrokenOff(w)
  /\ Rollback(w)

\* build_batch or write_batch raises: nothing is quarantined, and the artifacts
\* already written stay.
BuildFails(w) ==
  /\ \/ pc[w] = "open" /\ Kind[File(w)] = "unbuildable" /\ UNCHANGED struck
     \/ pc[w] \in Artifacts /\ Strikes("store")
  /\ BrokenOff(w)
  /\ Finish(w, "failed", Absent)
  /\ NextFile(w)
  /\ UNCHANGED <<drop, quarantined, now, built, shared, db, mailed, waiting,
                 txReady>>

\* register_batch looks for a record under the id, committed or its own.
Register(w) ==
  /\ pc[w] = "register"
  /\ Goto(w, IF dbReady[Id(w)] = Absent /\ txReady[w][Id(w)] = Absent
             THEN "insert" ELSE "update")
  /\ UNCHANGED <<drop, quarantined, bounds, disk, db, mailed, waiting, current, tx>>

\* No other transaction holds a row of this id: the flush need not wait.
RowIsFree(w) == \A v \in Workers \ {w} : txReady[v][Id(w)] = Absent

\* The flush, in this transaction only.
Flush(w) ==
  /\ pc[w] = "update" \/ (pc[w] = "insert" /\ dbReady[Id(w)] = Absent)
  /\ RowIsFree(w)
  /\ txReady' = [txReady EXCEPT ![w][Id(w)] = File(w)]
  /\ Goto(w, "deliver")
  /\ UNCHANGED <<drop, quarantined, bounds, disk, db, mailed, waiting, current, txRuns>>

\* uq_batches_firm_batch: another poll has committed a record of this id since
\* register_batch looked.
FlushClashes(w) ==
  /\ pc[w] = "insert" /\ dbReady[Id(w)] # Absent
  /\ UNCHANGED <<store, struck>>
  /\ Rollback(w)

\* load_batch finds a manifest and frames it can read.
Loads(i) == {store[i]["frames"], store[i]["manifest"]} \subseteq Files

\* evaluate_batch, deliver_alerts and run_reports on the batch read back from
\* the store; a failure there is noted and the run succeeds all the same.
Deliver(w) ==
  /\ pc[w] = "deliver"
  /\ \/ Loads(Id(w)) /\ mailed' = mailed \cup {Id(w)} /\ UNCHANGED struck
     \/ ~Loads(Id(w)) /\ UNCHANGED <<mailed, struck>>
     \/ Loads(Id(w)) /\ Strikes("send") /\ UNCHANGED mailed
  /\ Finish(w, "succeeded", Id(w))
  /\ Goto(w, "complete")
  /\ UNCHANGED <<drop, quarantined, now, disk, db, waiting, current, txReady>>

\* poll_firm: connector.complete, only for a run that is ok. A file that is no
\* longer there is left alone.
Complete(w) ==
  /\ pc[w] = "complete"
  /\ IF Archives /\ File(w) \in inbox
     THEN /\ inbox' = inbox \ {File(w)}
          /\ archived' = archived \cup {File(w)}
     ELSE UNCHANGED <<inbox, archived>>
  /\ NextFile(w)
  /\ UNCHANGED <<arrived, raced, quarantined, bounds, disk, db, mailed, waiting, tx>>

\* The poll is over: main's transaction commits.
Commit(w) ==
  /\ pc[w] = "next"
  /\ waiting[w] = {}
  /\ dbRuns' = dbRuns \cup txRuns[w]
  /\ dbReady' = Upserted(txReady[w])
  /\ txRuns' = [txRuns EXCEPT ![w] = {}]
  /\ txReady' = [txReady EXCEPT ![w] = NoRecords]
  /\ Goto(w, "idle")
  /\ UNCHANGED <<drop, quarantined, bounds, disk, mailed, waiting, current>>

\* The file listed is gone, another poll having completed it: fetch raises out
\* of poll_firm and the transaction is rolled back.
FetchGone(w) ==
  /\ pc[w] = "next"
  /\ \E f \in Files \ inbox : IsNext(w, f)
  /\ UNCHANGED <<store, struck>>
  /\ Rollback(w)

\* The process dies, even while it writes, or a step outside ingest_file's try
\* blocks raises (fetch, quarantine, register_batch, complete, a flush): the same
\* rollback.
Abort(w) ==
  /\ pc[w] # "idle"
  /\ Strikes("abort")
  /\ BrokenOff(w)
  /\ Rollback(w)

Step(w) ==
  \/ StartPoll(w) \/ Fetch(w) \/ FetchGone(w) \/ Reject(w)
  \/ Build(w) \/ BuildFails(w) \/ Write(w)
  \/ Register(w) \/ Flush(w) \/ FlushClashes(w)
  \/ Deliver(w) \/ Complete(w) \/ Commit(w)

Next == Arrive \/ Tick \/ \E w \in Workers : Step(w) \/ Abort(w)

Spec == Init /\ [][Next]_vars

\* A worker that runs goes on, and is started again while files are waiting.
\* Nothing in the code starts it ("No scheduler", docs/operations.md): this is
\* what whoever runs `python -m ingest.worker` has to do.
FairSpec == Spec /\ \A w \in Workers : WF_vars(Step(w))

-----------------------------------------------------------------------------
TypeOK ==
  /\ arrived \in 0..NFiles
  /\ inbox \subseteq Files /\ archived \subseteq Files
  /\ quarantined \subseteq Files
  /\ now \in Ids /\ struck \in 0..MaxStrikes
  /\ store \in [Ids -> [Artifacts -> Files \cup {Absent, Torn}]]
  /\ dbRuns \subseteq Run /\ dbReady \in Records /\ mailed \subseteq Ids
  /\ pc \in [Workers -> PCs]
  /\ waiting \in [Workers -> SUBSET Files]
  /\ current \in [Workers -> Hand]
  /\ txRuns \in [Workers -> SUBSET Run]
  /\ txReady \in [Workers -> Records]
  /\ raced \subseteq Files
  /\ built \in [Ids -> SUBSET Files] /\ shared \subseteq Ids

\* The batch is all there, and made of file f: unless a second build was begun
\* in the same second, which writes over the first, artifact by artifact.
Holds(i, f) ==
  /\ f \in built[i]
  /\ \A a \in Artifacts : IF i \in shared THEN store[i][a] # Absent ELSE store[i][a] = f

\* "A batch present on disk but absent here is recoverable; the reverse is a
\* broken pointer" (control/models.py): a record the API lists names a batch
\* whose artifacts are all in the store, of the file the record was made of if no
\* other build was begun in that second, whatever aborted when. So does what
\* alerts and reports have been mailed about: it may not be listed yet, or ever,
\* but it can be opened.
ReadyIsOnDisk ==
  /\ \A i \in Ids : dbReady[i] # Absent => Holds(i, dbReady[i])
  /\ \A i \in mailed : \E f \in Files : Holds(i, f)

\* A committed run tells what happened to the file: a success names a batch that
\* is listed and on disk, the file's own but for what a build of the same second
\* has put in its place; a quarantined file has its copy.
RunsTellTheTruth ==
  \A r \in dbRuns :
    /\ r.status = "succeeded" =>
         /\ r.batch # Absent
         /\ Holds(r.batch, r.file)
         /\ IF r.batch \in shared THEN dbReady[r.batch] \in built[r.batch]
            ELSE dbReady[r.batch] = r.file
    /\ r.status = "quarantined" => r.file \in quarantined

\* A file leaves the drop directory only when a whole batch made from it has been
\* put in the store, where only a build of the same second can write over it: no
\* abort loses the positions.
ArchivedIsOnDisk == \A f \in archived : \E i \in Ids : Holds(i, f)

\* A file the connector archives is listed as one batch at most, however often
\* polls abort and start over, unless two polls had it listed at the same time:
\* nothing else in the worker keeps a file from being built again.
ListedOnce ==
  \A i, j \in Ids :
    dbReady[i] # Absent /\ dbReady[i] = dbReady[j] /\ dbReady[i] \notin raced => i = j

\* "One attempt at one file. Kept whether or not it worked." (IngestionRun): a
\* file that has been taken away has its run, in the database or about to be.
ArchivedIsRecorded ==
  \A f \in archived :
    \E r \in dbRuns \cup UNION {txRuns[w] : w \in Workers} : r.file = f

\* Batch i is listed as file f's, or as that of a file built in the same second.
ListedFor(f, i) ==
  f \in built[i] /\ dbReady[i] # Absent /\ (dbReady[i] = f \/ i \in shared)

\* "Process whatever is waiting for a firm" (poll_firm): a good file that has
\* arrived becomes a listed batch, its own unless another file is built in the
\* same second and takes its record.
GoodFilesAreListed ==
  \A f \in Files :
    Kind[f] = "good" /\ f \in inbox ~> \E i \in Ids : ListedFor(f, i)

=============================================================================
