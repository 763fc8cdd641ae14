------------------------ MODULE IngestPipelineProofs ------------------------
(***************************************************************************)
(* What the ingestion worker keeps true for any number of files, workers   *)
(* polling at once, seconds and faults, whenever it is aborted.            *)
(***************************************************************************)
EXTENDS IngestPipeline, TLAPS

(* Type correctness.                                                       *)

\* Worker w has a batch in hand: build_batch has given it its id.
Building(w) ==
  pc[w] \in Artifacts \cup {"register", "insert", "update", "deliver", "complete"}

\* TypeOK lets a worker have no file in hand, or no batch; inside ingest_file it
\* has a file, and from build_batch on a batch, except when the build failed.
HasFile ==
  \A w \in Workers :
    /\ pc[w] \notin {"idle", "next"} => File(w) \in Files
    /\ Building(w) => Id(w) \in Ids

LEMMA Names ==
  /\ Absent \notin Ids /\ Absent \notin Files /\ Torn # Absent
  /\ Artifacts = {"positions", "frames", "manifest"}
BY IngestAssumption DEF Absent, Torn, Ids, Files, Artifacts

LEMMA TypeStep == TypeOK /\ HasFile /\ [Next]_vars => TypeOK' /\ HasFile'
<1> SUFFICES ASSUME TypeOK, HasFile, [Next]_vars PROVE TypeOK' /\ HasFile'
  OBVIOUS
<1> USE IngestAssumption, Names DEF HasFile, File, Id, Building
<1>1. CASE Arrive
  <2>1. arrived' \in 0..NFiles /\ arrived + 1 \in Files
    BY <1>1 DEF TypeOK, Arrive, Files
  <2> QED
    BY <1>1, <2>1 DEF TypeOK, Arrive, bounds, disk, db, worker, tx
<1>2. CASE Tick
  BY <1>2 DEF TypeOK, Tick, Ids, drop, disk, db, worker, tx
<1>3. CASE UNCHANGED vars
  BY <1>3 DEF TypeOK, vars
<1> SUFFICES ASSUME NEW w \in Workers, Step(w) \/ Abort(w)
             PROVE  TypeOK' /\ HasFile'
  BY <1>1, <1>2, <1>3 DEF Next
<1> USE DEF TypeOK, drop, bounds, disk, db, tx, Goto, PCs, NextFile
<1>4. Empty \in Hand /\ NoRecords \in Records
  BY DEF Empty, Hand, NoRecords, Records
<1>5. CASE StartPoll(w)
  BY <1>5 DEF StartPoll, Oldest
<1>6. CASE Fetch(w)
  <2> PICK f \in inbox : /\ waiting' = [waiting EXCEPT ![w] = @ \ {f}]
                         /\ current' = [current EXCEPT ![w] = [file |-> f, batch |-> Absent]]
    BY <1>6 DEF Fetch
  <2>1. f \in Files /\ [file |-> f, batch |-> Absent] \in Hand
    BY DEF Hand
  <2> QED
    BY <1>6, <2>1 DEF Fetch
<1>7. ASSUME Strikes("store") \/ Strikes("send") \/ Strikes("abort") \/ UNCHANGED struck
      PROVE  struck' \in 0..MaxStrikes
  BY <1>7 DEF Strikes
<1>8. ASSUME BrokenOff(w)
      PROVE  store' \in [Ids -> [Artifacts -> Files \cup {Absent, Torn}]]
  <2>1. CASE UNCHANGED store
    BY <2>1
  <2>2. CASE pc[w] \in Artifacts /\ store' = [store EXCEPT ![Id(w)][pc[w]] = Torn]
    <3>1. store[Id(w)] \in [Artifacts -> Files \cup {Absent, Torn}]
      BY <2>2
    <3>2. [store[Id(w)] EXCEPT ![pc[w]] = Torn] \in [Artifacts -> Files \cup {Absent, Torn}]
      BY <2>2, <3>1
    <3> QED
      BY <2>2, <3>2
  <2> QED
    BY <1>8, <2>1, <2>2 DEF BrokenOff
<1>9. CASE Rollback(w) /\ BrokenOff(w) /\ struck' \in 0..MaxStrikes
  BY <1>4, <1>8, <1>9 DEF Rollback
<1>10. ASSUME NEW status \in {"succeeded", "quarantined", "failed"},
              NEW b \in Ids \cup {Absent},
              pc[w] \in {"open", "deliver"} \cup Artifacts, Finish(w, status, b)
       PROVE  txRuns' \in [Workers -> SUBSET Run]
  <2>1. [file |-> File(w), status |-> status, batch |-> b] \in Run
    BY <1>10 DEF Run
  <2> QED
    BY <1>10, <2>1 DEF Finish
<1>11. CASE Reject(w)
  <2>1. txRuns' \in [Workers -> SUBSET Run] /\ quarantined' \subseteq Files
    BY <1>10, <1>11 DEF Reject
  <2> QED
    BY <1>4, <1>11, <2>1 DEF Reject
<1>12. CASE Build(w)
  <2>1. File(w) \in Files /\ [current[w] EXCEPT !.batch = now] \in Hand
    BY <1>12 DEF Build, Hand
  <2>2. built' \in [Ids -> SUBSET Files] /\ shared' \subseteq Ids
    BY <1>12, <2>1 DEF Build
  <2>3. current'[w].batch = now /\ current'[w].file = File(w)
    BY <1>12 DEF Build, Hand
  <2> QED
    BY <1>12, <2>1, <2>2, <2>3 DEF Build
<1>13. CASE BuildFails(w)
  <2>1. txRuns' \in [Workers -> SUBSET Run] /\ struck' \in 0..MaxStrikes
    BY <1>7, <1>10, <1>13 DEF BuildFails
  <2>2. store' \in [Ids -> [Artifacts -> Files \cup {Absent, Torn}]]
    BY <1>8, <1>13 DEF BuildFails
  <2> QED
    BY <1>4, <1>13, <2>1, <2>2 DEF BuildFails
<1>14. CASE Write(w)
  <2>1. AfterWriting(pc[w]) \in {"frames", "manifest", "register"}
    BY <1>14 DEF Write, AfterWriting
  <2>2. store' \in [Ids -> [Artifacts -> Files \cup {Absent, Torn}]]
    BY <1>14 DEF Write
  <2> QED
    BY <1>14, <2>1, <2>2 DEF Write
<1>15. CASE Register(w)
  BY <1>15 DEF Register
<1>16. CASE Flush(w)
  BY <1>16 DEF Flush, Records
<1>17. CASE FlushClashes(w) \/ FetchGone(w)
  BY <1>7, <1>9, <1>17 DEF FlushClashes, FetchGone, BrokenOff
<1>18. CASE Deliver(w)
  <2>1. txRuns' \in [Workers -> SUBSET Run] /\ mailed' \subseteq Ids
    BY <1>10, <1>18 DEF Deliver
  <2>2. struck' \in 0..MaxStrikes
    BY <1>7, <1>18 DEF Deliver
  <2> QED
    BY <1>18, <2>1, <2>2 DEF Deliver
<1>19. CASE Complete(w)
  BY <1>4, <1>19 DEF Complete
<1>20. CASE Commit(w)
  BY <1>4, <1>20 DEF Commit, Upserted, Records
<1>21. CASE Abort(w)
  BY <1>7, <1>9, <1>21 DEF Abort
<1> QED
  BY <1>5, <1>6, <1>11, <1>12, <1>13, <1>14, <1>15, <1>16, <1>17, <1>18, <1>19,
     <1>20, <1>21 DEF Step

\* Every variable of the pipeline keeps its type.
THEOREM TypeCorrect == Spec => [](TypeOK /\ HasFile)
<1>1. Init => TypeOK /\ HasFile
  BY IngestAssumption
  DEF Init, TypeOK, HasFile, Building, Artifacts, Files, Ids, Hand, Empty, PCs,
      NoRecords, Records
<1> QED
  BY <1>1, TypeStep, PTL DEF Spec

-----------------------------------------------------------------------------
(* The store, the records and the runs.                                    *)

\* The artifacts a worker has written when it is at the step there.
Done(there) ==
  CASE there = "positions" -> {}
    [] there = "frames"    -> {"positions"}
    [] there = "manifest"  -> {"positions", "frames"}
    [] OTHER               -> Artifacts

Written(i, f, a) == IF i \in shared THEN store[i][a] # Absent ELSE store[i][a] = f

\* How far worker w's batch has got. While nobody else has begun a batch in that
\* second, what has not been written is not there, so nobody relies on it.
HandOf(w) ==
  Building(w) =>
    /\ File(w) \in built[Id(w)]
    /\ \A a \in Artifacts :
         IF a \in Done(pc[w]) THEN Written(Id(w), File(w), a)
         ELSE Id(w) \notin shared => store[Id(w)][a] = Absent

HandInv ==
  /\ \A w \in Workers : HandOf(w)
  /\ \A v, w \in Workers :
       v # w /\ Building(v) /\ Building(w) /\ Id(v) = Id(w) => Id(w) \in shared
  /\ \A w \in Workers :
       pc[w] \in {"deliver", "complete"} => txReady[w][Id(w)] = File(w)

\* Ids and the files built under them.
BuiltInv ==
  \A i \in Ids :
    /\ built[i] = {} => \A a \in Artifacts : store[i][a] = Absent
    /\ i \notin shared => \A f, g \in built[i] : f = g

\* What a run, committed or not, says of the disk, and of the records it came with.
Told(r) ==
  /\ r.status = "succeeded" => r.batch # Absent /\ Holds(r.batch, r.file)
  /\ r.status = "quarantined" => r.file \in quarantined

Truthful(r, rows) == Told(r) /\ (r.status = "succeeded" => rows[r.batch] # Absent)

\* A record, committed or not, names a batch that holds its file.
Kept(rows) == \A i \in Ids, f \in Files : rows[i] = f => Holds(i, f)

StoreInv ==
  /\ HandInv
  /\ BuiltInv
  /\ Kept(dbReady)
  /\ \A i \in mailed : \E f \in Files : Holds(i, f)
  /\ \A w \in Workers : Kept(txReady[w])
  /\ \A w \in Workers : \A r \in txRuns[w] : Truthful(r, txReady[w])
  /\ \A r \in dbRuns : Truthful(r, dbReady)
  /\ ArchivedIsOnDisk

(* What a step does to the disk.                                           *)

\* Worker w writes the artifact it is at, whole or in part.
Writes(w) ==
  /\ pc[w] \in Artifacts
  /\ \E x \in {File(w), Torn} : store' = [store EXCEPT ![Id(w)][pc[w]] = x]
  /\ UNCHANGED <<built, shared>>

LEMMA DiskStep ==
  ASSUME NEW w \in Workers, Step(w) \/ Abort(w)
  PROVE  UNCHANGED disk \/ Build(w) \/ Writes(w)
<1> USE DEF disk
<1>1. CASE StartPoll(w) \/ Fetch(w) \/ Reject(w) \/ Register(w) \/ Flush(w)
           \/ Deliver(w) \/ Complete(w) \/ Commit(w)
  BY <1>1 DEF StartPoll, Fetch, Reject, Register, Flush, Deliver, Complete, Commit
<1>2. CASE FetchGone(w) \/ FlushClashes(w)
  BY <1>2 DEF FetchGone, FlushClashes, Rollback
<1>3. CASE BuildFails(w)
  BY <1>3 DEF BuildFails, BrokenOff, Writes
<1>4. CASE Abort(w)
  BY <1>4 DEF Abort, Rollback, BrokenOff, Writes
<1>5. CASE Write(w)
  BY <1>5 DEF Write, Writes
<1> QED
  BY <1>1, <1>2, <1>3, <1>4, <1>5 DEF Step

LEMMA WritesOne ==
  ASSUME TypeOK, HasFile, NEW w \in Workers, Writes(w)
  PROVE  /\ Id(w) \in Ids /\ Building(w)
         /\ store'[Id(w)][pc[w]] \in {File(w), Torn}
         /\ store'[Id(w)][pc[w]] # Absent
         /\ \A i \in Ids, a \in Artifacts :
              i # Id(w) \/ a # pc[w] => store'[i][a] = store[i][a]
<1>1. Building(w) /\ Id(w) \in Ids /\ File(w) \in Files /\ pc[w] \in Artifacts
  BY Names DEF HasFile, Writes, Building
<1>2. PICK x \in {File(w), Torn} : store' = [store EXCEPT ![Id(w)][pc[w]] = x]
  BY DEF Writes
<1>3. /\ store' = [store EXCEPT ![Id(w)] = [store[Id(w)] EXCEPT ![pc[w]] = x]]
      /\ store \in [Ids -> [Artifacts -> Files \cup {Absent, Torn}]]
  BY <1>2 DEF TypeOK
<1>4. store'[Id(w)] = [store[Id(w)] EXCEPT ![pc[w]] = x]
  BY <1>1, <1>3
<1>5. store[Id(w)] \in [Artifacts -> Files \cup {Absent, Torn}]
  BY <1>1, <1>3
<1>6. \A a \in Artifacts : store'[Id(w)][a] = IF a = pc[w] THEN x ELSE store[Id(w)][a]
  BY <1>4, <1>5
<1>7. \A i \in Ids : i # Id(w) => store'[i] = store[i]
  BY <1>3
<1> QED
  BY <1>1, <1>6, <1>7, Names

\* An artifact that is there stays there, and is the file's own until a second
\* build is begun under its id, but for the one that is being written.
LEMMA WrittenKept ==
  ASSUME TypeOK, HasFile, NEW w \in Workers,
         UNCHANGED disk \/ Build(w) \/ Writes(w),
         NEW i \in Ids, NEW f \in Files, NEW a \in Artifacts, Written(i, f, a),
         Writes(w) /\ i = Id(w) /\ a = pc[w] => i \in shared
  PROVE  Written(i, f, a)'
<1>1. CASE UNCHANGED disk
  BY <1>1 DEF disk, Written
<1>2. CASE Build(w)
  BY <1>2, Names DEF Build, Written
<1>3. CASE Writes(w)
  <2>1. UNCHANGED shared
    BY <1>3 DEF Writes
  <2>2. CASE i = Id(w) /\ a = pc[w]
    BY <1>3, <2>1, <2>2, WritesOne DEF Written
  <2>3. CASE i # Id(w) \/ a # pc[w]
    BY <1>3, <2>1, <2>3, WritesOne DEF Written
  <2> QED
    BY <2>2, <2>3
<1> QED
  BY <1>1, <1>2, <1>3

\* A worker that writes has not finished its batch.
LEMMA NotDone ==
  ASSUME NEW w \in Workers, pc[w] \in Artifacts
  PROVE  pc[w] \notin Done(pc[w])
BY Names DEF Done

\* A whole batch stays whole: a build begun later takes another id, or the id is
\* shared from then on.
LEMMA HoldsKept ==
  ASSUME TypeOK, HasFile, HandInv, NEW w \in Workers,
         UNCHANGED disk \/ Build(w) \/ Writes(w),
         NEW i \in Ids, NEW f \in Files, Holds(i, f)
  PROVE  Holds(i, f)'
<1>1. f \in built'[i]
  BY DEF Holds, disk, Build, Writes, TypeOK
<1>2. ASSUME NEW a \in Artifacts PROVE Written(i, f, a)'
  <2>1. Written(i, f, a)
    BY DEF Holds, Written
  <2>2. ASSUME Writes(w), i = Id(w), a = pc[w] PROVE i \in shared
    <3>1. a \notin Done(pc[w]) /\ Building(w)
      BY <2>2, NotDone, WritesOne DEF Writes
    <3>2. i \notin shared => store[i][a] = Absent
      BY <2>2, <3>1 DEF HandInv, HandOf
    <3> QED
      BY <2>1, <3>2, Names DEF Written
  <2> QED
    BY <2>1, <2>2, WrittenKept
<1> QED
  BY <1>1, <1>2 DEF Holds, Written

LEMMA BuiltInvStep ==
  ASSUME TypeOK, HasFile, HandInv, BuiltInv, NEW w \in Workers,
         UNCHANGED disk \/ Build(w) \/ Writes(w)
  PROVE  BuiltInv'
<1>1. CASE UNCHANGED disk
  BY <1>1 DEF disk, BuiltInv
<1>2. CASE Build(w)
  BY <1>2 DEF Build, BuiltInv, TypeOK
<1>3. CASE Writes(w)
  <2>1. UNCHANGED <<built, shared>> /\ built[Id(w)] # {}
    BY <1>3, WritesOne DEF Writes, HandInv, HandOf
  <2> QED
    BY <1>3, <2>1, WritesOne DEF BuiltInv
<1> QED
  BY <1>1, <1>2, <1>3

\* The batch another worker has in hand is as far as it was.
LEMMA HandOfOthers ==
  ASSUME TypeOK, HasFile, HandInv, NEW w \in Workers,
         UNCHANGED disk \/ Build(w) \/ Writes(w),
         NEW v \in Workers \ {w}, UNCHANGED <<pc[v], current[v]>>
  PROVE  HandOf(v)'
<1> SUFFICES ASSUME Building(v) PROVE HandOf(v)'
  BY DEF HandOf, Building
<1> DEFINE i == Id(v)
           f == File(v)
<1>1. /\ i \in Ids /\ f \in Files /\ i = Id(v)' /\ f = File(v)'
      /\ f \in built[i]
      /\ Done(pc[v])' = Done(pc[v])
      /\ HandOf(v)
  BY Names DEF HasFile, Building, Id, File, HandInv, HandOf, Done
<1>2. f \in built'[i]
  BY <1>1 DEF disk, Build, Writes, TypeOK
<1>3. Writes(w) /\ i = Id(w) => i \in shared
  BY <1>1, WritesOne DEF HandInv
<1>4. ASSUME NEW a \in Artifacts, a \in Done(pc[v]) PROVE Written(i, f, a)'
  BY <1>1, <1>3, <1>4, WrittenKept DEF HandOf
<1>5. ASSUME NEW a \in Artifacts, a \notin Done(pc[v]), i \notin shared'
      PROVE  store'[i][a] = Absent
  <2>1. i \notin shared
    BY <1>5 DEF disk, Build, Writes
  <2>2. store[i][a] = Absent
    BY <1>1, <1>5, <2>1 DEF HandOf
  <2> QED
    BY <1>1, <1>3, <2>1, <2>2, WritesOne DEF disk, Build
<1> QED
  BY <1>1, <1>2, <1>4, <1>5 DEF HandOf, Written

\* Two workers that have batches in hand do not share an id unawares.
LEMMA HandsApart ==
  ASSUME TypeOK, HasFile, HandInv, NEW w \in Workers,
         UNCHANGED disk \/ Build(w) \/ Writes(w),
         \A v \in Workers \ {w} : UNCHANGED <<pc[v], current[v]>>,
         Building(w)' => Build(w) \/ (Building(w) /\ Id(w)' = Id(w))
  PROVE  \A v, u \in Workers :
           v # u /\ Building(v)' /\ Building(u)' /\ Id(v)' = Id(u)' => Id(u)' \in shared'
<1>1. shared \subseteq shared'
  BY DEF disk, Build, Writes
<1>2. \A v \in Workers \ {w} : (Building(v)' <=> Building(v)) /\ Id(v)' = Id(v)
  BY DEF Building, Id
<1>3. CASE Build(w)
  <2>1. Id(w)' = now
    BY <1>3 DEF Build, Id, TypeOK, Hand
  <2>2. ASSUME NEW v \in Workers \ {w}, Building(v), Id(v) = now PROVE now \in shared'
    BY <1>3, <2>2 DEF Build, HandInv, HandOf
  <2> QED
    BY <1>1, <1>2, <2>1, <2>2 DEF HandInv
<1>4. CASE ~Build(w)
  BY <1>1, <1>2, <1>4 DEF HandInv
<1> QED
  BY <1>3, <1>4

\* A step of one worker leaves the others where they are.
LEMMA OthersStay ==
  ASSUME TypeOK, NEW w \in Workers, Step(w) \/ Abort(w)
  PROVE  \A v \in Workers \ {w} : UNCHANGED <<pc[v], current[v], txReady[v], txRuns[v]>>
<1> USE DEF TypeOK, tx, Goto, NextFile, Finish
<1>1. CASE StartPoll(w) \/ Fetch(w) \/ Reject(w) \/ Build(w) \/ BuildFails(w)
           \/ Write(w) \/ Register(w) \/ Flush(w)
  BY <1>1 DEF StartPoll, Fetch, Reject, Build, BuildFails, Write, Register, Flush
<1>2. CASE Rollback(w)
  BY <1>2 DEF Rollback
<1>3. CASE Deliver(w) \/ Complete(w) \/ Commit(w)
  BY <1>3 DEF Deliver, Complete, Commit
<1> QED
  BY <1>1, <1>2, <1>3 DEF Step, Abort, FetchGone, FlushClashes

LEMMA HandInvStep ==
  ASSUME TypeOK, HasFile, HandInv, BuiltInv, NEW w \in Workers, Step(w) \/ Abort(w)
  PROVE  HandInv'
<1>1. UNCHANGED disk \/ Build(w) \/ Writes(w)
  BY DiskStep
<1>2. \A v \in Workers \ {w} : HandOf(v)'
  BY <1>1, OthersStay, HandOfOthers
<1>3. \A v \in Workers \ {w} :
        pc'[v] \in {"deliver", "complete"} => txReady'[v][Id(v)'] = File(v)'
  BY OthersStay DEF HandInv, Id, File
<1> SUFFICES /\ HandOf(w)'
             /\ Building(w)' => Build(w) \/ (Building(w) /\ Id(w)' = Id(w))
             /\ pc'[w] \in {"deliver", "complete"} => txReady'[w][Id(w)'] = File(w)'
  BY <1>1, <1>2, <1>3, OthersStay, HandsApart DEF HandInv
<1> USE DEF TypeOK, Goto, NextFile
<1>4. CASE StartPoll(w) \/ Fetch(w) \/ Reject(w) \/ Rollback(w) \/ BuildFails(w)
           \/ Complete(w) \/ Commit(w)
  <2>1. pc'[w] \in {"idle", "next", "open"}
    BY <1>4 DEF StartPoll, Fetch, Reject, Rollback, BuildFails, Complete, Commit
  <2> QED
    BY <2>1, Names DEF HandOf, Building
<1>5. CASE Build(w)
  <2>1. /\ pc'[w] = "positions" /\ Id(w)' = now /\ File(w)' = File(w)
        /\ File(w) \in built'[now] /\ store' = store
        /\ now \in Ids
        /\ now \notin shared' => built[now] = {}
    BY <1>5 DEF Build, Id, File, Hand
  <2>2. Done(pc'[w]) = {} /\ pc'[w] \notin {"deliver", "complete"}
    BY <2>1 DEF Done
  <2>3. now \notin shared' => \A a \in Artifacts : store'[now][a] = Absent
    BY <2>1 DEF BuiltInv
  <2> QED
    BY <1>5, <2>1, <2>2, <2>3 DEF HandOf, Done
<1>6. CASE Write(w)
  <2>1. /\ pc[w] \in Artifacts /\ pc'[w] = AfterWriting(pc[w])
        /\ Id(w)' = Id(w) /\ File(w)' = File(w)
        /\ UNCHANGED <<built, shared>>
        /\ Building(w) /\ HandOf(w)
        /\ Id(w) \in Ids /\ File(w) \in Files
    BY <1>6, Names DEF Write, Id, File, HandInv, HasFile, Building
  <2>2. /\ pc'[w] \in {"frames", "manifest", "register"}
        /\ Done(pc'[w]) = Done(pc[w]) \cup {pc[w]}
    BY <2>1, Names DEF AfterWriting, Done
  <2>3. Writes(w) /\ store'[Id(w)][pc[w]] = File(w)
    <3>1. Writes(w)
      BY <1>6 DEF Write, Writes
    <3>2. store' = [store EXCEPT ![Id(w)] = [store[Id(w)] EXCEPT ![pc[w]] = File(w)]]
      BY <1>6 DEF Write
    <3>3. store'[Id(w)] = [store[Id(w)] EXCEPT ![pc[w]] = File(w)]
      BY <2>1, <3>2
    <3>4. store[Id(w)] \in [Artifacts -> Files \cup {Absent, Torn}]
      BY <2>1
    <3> QED
      BY <2>1, <3>1, <3>3, <3>4
  <2>4. ASSUME NEW a \in Artifacts
        PROVE  IF a \in Done(pc'[w]) THEN Written(Id(w), File(w), a)'
               ELSE Id(w) \notin shared' => store'[Id(w)][a] = Absent
    <3>1. CASE a = pc[w]
      BY <2>1, <2>2, <2>3, <3>1, Names DEF Written
    <3>2. CASE a # pc[w]
      <4>1. store'[Id(w)][a] = store[Id(w)][a]
        BY <2>1, <2>3, <3>2, WritesOne
      <4> QED
        BY <2>1, <2>2, <3>2, <4>1 DEF HandOf, Written
    <3> QED
      BY <3>1, <3>2
  <2> QED
    BY <2>1, <2>2, <2>4, Names DEF HandOf, Written
<1>7. CASE Register(w) \/ Flush(w) \/ Deliver(w)
  <2>1. /\ Building(w) /\ HandOf(w) /\ Id(w)' = Id(w) /\ File(w)' = File(w)
        /\ Done(pc[w]) = Artifacts /\ Done(pc'[w]) = Artifacts
        /\ UNCHANGED disk
    BY <1>7 DEF Register, Flush, Deliver, Building, HandInv, Id, File, Done, disk
  <2>2. HandOf(w)'
    BY <2>1 DEF HandOf, Written, disk
  <2>3. pc'[w] \in {"deliver", "complete"} => txReady'[w][Id(w)'] = File(w)'
    <3>1. CASE Register(w)
      BY <3>1 DEF Register
    <3>2. CASE Flush(w)
      BY <2>1, <3>2 DEF Flush, HasFile, Records
    <3>3. CASE Deliver(w)
      BY <2>1, <3>3 DEF Deliver, HandInv
    <3> QED
      BY <1>7, <3>1, <3>2, <3>3
  <2> QED
    BY <2>1, <2>2, <2>3
<1> QED
  BY <1>4, <1>5, <1>6, <1>7 DEF Step, Abort, FetchGone, FlushClashes

\* A worker that has written everything has a whole batch.
LEMMA AllWritten ==
  ASSUME HandInv, NEW w \in Workers, Building(w), Done(pc[w]) = Artifacts
  PROVE  Holds(Id(w), File(w))
BY DEF HandInv, HandOf, Holds, Written

LEMMA StoreInvStep == TypeOK /\ HasFile /\ StoreInv /\ [Next]_vars => StoreInv'
<1> SUFFICES ASSUME TypeOK, HasFile, StoreInv, [Next]_vars PROVE StoreInv'
  OBVIOUS
<1>1. CASE Arrive \/ Tick \/ UNCHANGED vars
  <2>1. UNCHANGED <<disk, db, tx, pc, current, mailed, archived, quarantined>>
    BY <1>1 DEF Arrive, Tick, vars, drop, disk, db, tx, worker
  <2> QED
    BY <2>1 DEF disk, db, tx, StoreInv, HandInv, HandOf, Building, Id, File, Done,
                Written, BuiltInv, Kept, Holds, Told, Truthful, ArchivedIsOnDisk
<1> SUFFICES ASSUME NEW w \in Workers, Step(w) \/ Abort(w) PROVE StoreInv'
  BY <1>1 DEF Next
<1>2. UNCHANGED disk \/ Build(w) \/ Writes(w)
  BY DiskStep
<1>3. HandInv' /\ BuiltInv'
  BY <1>2, HandInvStep, BuiltInvStep DEF StoreInv
<1>4. ASSUME NEW i \in Ids, NEW f \in Files, Holds(i, f) PROVE Holds(i, f)'
  BY <1>2, <1>4, HoldsKept DEF StoreInv
<1>5. \A r \in Run : r.status = "succeeded" /\ r.batch # Absent =>
        r.batch \in Ids /\ r.file \in Files
  BY DEF Run
<1>6. quarantined \subseteq quarantined'
  <2>1. CASE Reject(w)
    BY <2>1 DEF Reject
  <2>2. CASE ~Reject(w)
    BY <2>2 DEF Step, Abort, StartPoll, Fetch, FetchGone, Build, BuildFails, Write,
                Register, Flush, FlushClashes, Deliver, Complete, Commit, Rollback
  <2> QED
    BY <2>1, <2>2
<1>7. ASSUME NEW r \in Run, Told(r) PROVE Told(r)'
  BY <1>4, <1>5, <1>6, <1>7 DEF Told
<1>8. ASSUME NEW v \in Workers
      PROVE  /\ Kept(txReady[v]) /\ txReady[v] \in Records
             /\ \A r \in txRuns[v] : r \in Run /\ Told(r)
             /\ \A r \in txRuns[v] : r.status = "succeeded" =>
                  r.batch \in Ids /\ txReady[v][r.batch] # Absent
  BY <1>5 DEF StoreInv, TypeOK, Truthful, Told
<1>9. /\ \A r \in dbRuns : r \in Run /\ Told(r)
      /\ \A r \in dbRuns : r.status = "succeeded" =>
           r.batch \in Ids /\ dbReady[r.batch] # Absent
      /\ dbReady \in Records
  BY <1>5 DEF StoreInv, TypeOK, Truthful, Told
<1>10. ASSUME NEW v \in Workers, txReady'[v] \in {txReady[v], NoRecords}
       PROVE  Kept(txReady[v])'
  BY <1>4, <1>8, <1>10, Names DEF Kept, NoRecords
<1>11. ASSUME NEW v \in Workers, UNCHANGED txReady[v], txRuns'[v] \subseteq txRuns[v]
       PROVE  \A r \in txRuns'[v] : Truthful(r, txReady[v])'
  BY <1>7, <1>8, <1>11 DEF Truthful
<1>12. ASSUME NEW v \in Workers, v # w
       PROVE  Kept(txReady[v])' /\ \A r \in txRuns'[v] : Truthful(r, txReady[v])'
  BY <1>10, <1>11, <1>12, OthersStay
<1>13. ASSUME UNCHANGED dbReady PROVE Kept(dbReady)'
  BY <1>4, <1>13 DEF StoreInv, Kept
<1>14. ASSUME UNCHANGED mailed PROVE \A i \in mailed' : \E f \in Files : Holds(i, f)'
  BY <1>4, <1>14 DEF StoreInv, TypeOK
<1>15. ASSUME UNCHANGED archived PROVE ArchivedIsOnDisk'
  BY <1>4, <1>15 DEF StoreInv, ArchivedIsOnDisk, TypeOK
<1>16. ASSUME UNCHANGED <<dbRuns, dbReady>>
       PROVE  \A r \in dbRuns' : Truthful(r, dbReady)'
  BY <1>7, <1>9, <1>16 DEF Truthful
<1>17. ASSUME pc[w] \in {"register", "insert", "update", "deliver", "complete"}
       PROVE  /\ Id(w) \in Ids /\ File(w) \in Files
              /\ \A i \in Ids, f \in Files : i = Id(w) /\ f = File(w) => Holds(i, f)'
  <2>1. Building(w) /\ Done(pc[w]) = Artifacts /\ Id(w) \in Ids /\ File(w) \in Files
    BY <1>17 DEF Building, Done, HasFile
  <2>2. Holds(Id(w), File(w))
    BY <2>1, AllWritten DEF StoreInv
  <2> QED
    BY <1>4, <2>1, <2>2
<1> USE DEF db, tx, drop
<1>18. CASE StartPoll(w) \/ Fetch(w) \/ Build(w) \/ Write(w) \/ Register(w) \/ Complete(w)
  <2>1. UNCHANGED <<dbRuns, dbReady, mailed, txRuns, txReady>>
    BY <1>18 DEF StartPoll, Fetch, Build, Write, Register, Complete
  <2>2. ArchivedIsOnDisk'
    <3>1. CASE Complete(w)
      <4>1. pc[w] = "complete" /\ archived' \subseteq archived \cup {File(w)}
        BY <3>1 DEF Complete
      <4>2. \E i \in Ids : \A f \in Files : f = File(w) => Holds(i, f)'
        BY <1>17, <4>1
      <4>3. \A f \in archived : f \in Files /\ \E i \in Ids : Holds(i, f)'
        BY <1>4 DEF StoreInv, ArchivedIsOnDisk, TypeOK
      <4> QED
        BY <1>17, <4>1, <4>2, <4>3 DEF ArchivedIsOnDisk
    <3>2. CASE ~Complete(w)
      BY <1>15, <1>18, <3>2 DEF StartPoll, Fetch, Build, Write, Register
    <3> QED
      BY <3>1, <3>2
  <2>3. Kept(txReady[w])' /\ \A r \in txRuns'[w] : Truthful(r, txReady[w])'
    BY <1>10, <1>11, <2>1
  <2> QED
    BY <1>3, <1>12, <1>13, <1>14, <1>16, <2>1, <2>2, <2>3 DEF StoreInv
<1>19. CASE Rollback(w)
  <2>1. /\ UNCHANGED <<dbRuns, dbReady, mailed, archived>>
        /\ txReady'[w] = NoRecords /\ txRuns'[w] = {}
    BY <1>19 DEF Rollback, TypeOK
  <2>2. Kept(txReady[w])'
    BY <1>10, <2>1
  <2> QED
    BY <1>3, <1>12, <1>13, <1>14, <1>15, <1>16, <2>1, <2>2 DEF StoreInv
<1>20. CASE Reject(w) \/ BuildFails(w) \/ Deliver(w)
  <2>1. UNCHANGED <<dbRuns, dbReady, txReady, archived>>
    BY <1>20 DEF Reject, BuildFails, Deliver
  <2>2. File(w) \in Files /\ (Deliver(w) => Id(w) \in Ids)
    BY <1>20, Names DEF Reject, BuildFails, Deliver, HasFile, Building
  <2>3. ASSUME NEW status \in {"succeeded", "quarantined", "failed"},
               NEW b \in Ids \cup {Absent}, Finish(w, status, b)
        PROVE  \E r \in Run : /\ txRuns'[w] = txRuns[w] \cup {r}
                              /\ r.file = File(w) /\ r.status = status /\ r.batch = b
    <3>1. [file |-> File(w), status |-> status, batch |-> b] \in Run
      BY <2>2 DEF Run
    <3> QED
      BY <2>3, <3>1 DEF Finish, TypeOK
  <2>4. \E r \in Run : /\ txRuns'[w] = txRuns[w] \cup {r}
                       /\ r.file = File(w)
                       /\ \/ r.status = "quarantined" /\ File(w) \in quarantined'
                          \/ r.status = "failed"
                          \/ Deliver(w) /\ r.status = "succeeded" /\ r.batch = Id(w)
    <3>1. CASE Reject(w)
      <4>1. File(w) \in quarantined'
        BY <3>1 DEF Reject
      <4>2. Finish(w, "quarantined", Absent) \/ Finish(w, "failed", Absent)
        BY <3>1 DEF Reject
      <4> QED
        BY <2>3, <4>1, <4>2
    <3>2. CASE BuildFails(w)
      <4>1. Finish(w, "failed", Absent)
        BY <3>2 DEF BuildFails
      <4> QED
        BY <2>3, <4>1
    <3>3. CASE Deliver(w)
      <4>1. Finish(w, "succeeded", Id(w))
        BY <3>3 DEF Deliver
      <4> QED
        BY <2>2, <2>3, <3>3, <4>1
    <3> QED
      BY <1>20, <3>1, <3>2, <3>3
  <2>5. PICK r \in Run : /\ txRuns'[w] = txRuns[w] \cup {r}
                         /\ r.file = File(w)
                         /\ \/ r.status = "quarantined" /\ File(w) \in quarantined'
                            \/ r.status = "failed"
                            \/ Deliver(w) /\ r.status = "succeeded" /\ r.batch = Id(w)
    BY <2>4
  <2>6. Told(r)'
    <3>1. CASE Deliver(w) /\ r.status = "succeeded"
      <4>1. pc[w] = "deliver" /\ r.batch = Id(w)
        BY <2>5, <3>1 DEF Deliver
      <4>2. r.batch \in Ids /\ r.file \in Files /\ Holds(r.batch, r.file)'
        BY <1>17, <2>5, <4>1
      <4> QED
        BY <3>1, <4>2, Names DEF Told
    <3>2. CASE r.status # "succeeded"
      BY <2>5, <3>2 DEF Told
    <3> QED
      BY <2>5, <3>1, <3>2
  <2>7. r.status = "succeeded" => txReady'[w][r.batch] # Absent
    <3> SUFFICES ASSUME r.status = "succeeded" PROVE txReady'[w][r.batch] # Absent
      OBVIOUS
    <3>1. pc[w] = "deliver" /\ r.batch = Id(w)
      BY <2>5 DEF Deliver
    <3> QED
      BY <2>1, <2>2, <3>1, Names DEF StoreInv, HandInv
  <2>8. \A q \in txRuns'[w] : Truthful(q, txReady[w])'
    BY <1>7, <1>8, <2>1, <2>5, <2>6, <2>7 DEF Truthful
  <2>9. \A i \in mailed' : \E f \in Files : Holds(i, f)'
    <3>1. CASE Deliver(w)
      <4>1. pc[w] = "deliver" /\ mailed' \subseteq mailed \cup {Id(w)}
        BY <3>1 DEF Deliver
      <4>2. \A i \in mailed : \E f \in Files : Holds(i, f)'
        BY <1>4 DEF StoreInv, TypeOK
      <4>3. \A i \in Ids : i = Id(w) => \E f \in Files : Holds(i, f)'
        BY <1>17, <4>1
      <4> QED
        BY <2>2, <3>1, <4>1, <4>2, <4>3
    <3>2. CASE ~Deliver(w)
      BY <1>14, <1>20, <3>2 DEF Reject, BuildFails
    <3> QED
      BY <3>1, <3>2
  <2>10. Kept(txReady[w])'
    BY <1>10, <2>1
  <2> QED
    BY <1>3, <1>12, <1>13, <1>15, <1>16, <2>1, <2>8, <2>9, <2>10 DEF StoreInv
<1>21. CASE Flush(w)
  <2>1. UNCHANGED <<dbRuns, dbReady, mailed, txRuns, archived>>
    BY <1>21 DEF Flush
  <2>2. pc[w] \in {"insert", "update"}
    BY <1>21 DEF Flush
  <2>3. \A i \in Ids : txReady'[w][i] = IF i = Id(w) THEN File(w) ELSE txReady[w][i]
    BY <1>17, <1>21, <2>2 DEF Flush, TypeOK, Records
  <2>4. Kept(txReady[w])'
    BY <1>4, <1>8, <1>17, <2>2, <2>3 DEF Kept
  <2>5. \A r \in txRuns'[w] : Truthful(r, txReady[w])'
    BY <1>7, <1>8, <1>17, <2>1, <2>2, <2>3, Names DEF Truthful
  <2> QED
    BY <1>3, <1>12, <1>13, <1>14, <1>15, <1>16, <2>1, <2>4, <2>5 DEF StoreInv
<1>22. CASE Commit(w)
  <2>1. /\ UNCHANGED <<mailed, archived>>
        /\ dbRuns' = dbRuns \cup txRuns[w]
        /\ txReady'[w] = NoRecords /\ txRuns'[w] = {}
    BY <1>22 DEF Commit, TypeOK
  <2>2. \A i \in Ids : dbReady'[i] = IF txReady[w][i] = Absent THEN dbReady[i]
                                     ELSE txReady[w][i]
    BY <1>22 DEF Commit, Upserted
  <2>3. Kept(dbReady)'
    BY <1>4, <1>8, <2>2 DEF StoreInv, Kept
  <2>4. \A r \in dbRuns' : Truthful(r, dbReady)'
    BY <1>7, <1>8, <1>9, <2>1, <2>2 DEF Truthful
  <2>5. Kept(txReady[w])'
    BY <1>10, <2>1
  <2> QED
    BY <1>3, <1>12, <1>14, <1>15, <2>1, <2>3, <2>4, <2>5 DEF StoreInv
<1> QED
  BY <1>18, <1>19, <1>20, <1>21, <1>22 DEF Step, Abort, FetchGone, FlushClashes

\* The inductive invariant of the store and the database holds.
THEOREM StoreInvariant == Spec => []StoreInv
<1>1. Init => StoreInv
  BY IngestAssumption, Names
  DEF Init, StoreInv, HandInv, HandOf, Building, BuiltInv, Kept, NoRecords,
      ArchivedIsOnDisk
<1> QED
  BY <1>1, StoreInvStep, TypeCorrect, PTL DEF Spec

\* A listed batch is on disk, all of it, and of the file its record was made of,
\* unless a second build was begun in the same second: the record is never the
\* broken pointer control/models.py warns of. Nor is what mail was sent about.
THEOREM ReadyIsOnDiskAlways == Spec => []ReadyIsOnDisk
<1>1. TypeOK /\ StoreInv => ReadyIsOnDisk
  BY DEF StoreInv, ReadyIsOnDisk, Kept, TypeOK, Records
<1> QED
  BY <1>1, StoreInvariant, TypeCorrect, PTL

\* A committed run tells the truth about its file; what it says of the batch's
\* content is qualified by builds of the same second, and by nothing else.
THEOREM RunsTellTheTruthAlways == Spec => []RunsTellTheTruth
<1>1. TypeOK /\ StoreInv => RunsTellTheTruth
  <2> SUFFICES ASSUME TypeOK, StoreInv, NEW r \in dbRuns PROVE
                 /\ r.status = "succeeded" =>
                      /\ r.batch # Absent
                      /\ Holds(r.batch, r.file)
                      /\ IF r.batch \in shared THEN dbReady[r.batch] \in built[r.batch]
                         ELSE dbReady[r.batch] = r.file
                 /\ r.status = "quarantined" => r.file \in quarantined
    BY DEF RunsTellTheTruth
  <2> USE DEF Told
  <2>1. Truthful(r, dbReady) /\ r \in Run
    BY DEF StoreInv, TypeOK
  <2> SUFFICES ASSUME r.status = "succeeded"
               PROVE  IF r.batch \in shared THEN dbReady[r.batch] \in built[r.batch]
                      ELSE dbReady[r.batch] = r.file
    BY <2>1 DEF Truthful
  <2>2. r.batch \in Ids /\ Holds(r.batch, r.file) /\ dbReady[r.batch] # Absent
    BY <2>1 DEF Truthful, Run
  <2>3. Holds(r.batch, dbReady[r.batch])
    BY <2>2 DEF StoreInv, Kept, TypeOK, Records
  <2> QED
    BY <2>2, <2>3 DEF Holds, StoreInv, BuiltInv
<1> QED
  BY <1>1, StoreInvariant, TypeCorrect, PTL

\* No abort loses the positions of a file that was taken away: they were all put
\* in the store under an id that only a build of the same second writes to again.
THEOREM ArchivedIsOnDiskAlways == Spec => []ArchivedIsOnDisk
<1>1. StoreInv => ArchivedIsOnDisk
  BY DEF StoreInv
<1> QED
  BY <1>1, StoreInvariant, PTL

-----------------------------------------------------------------------------
(* One file, one listed batch.                                             *)

\* A file only one poll at a time has had listed: held by one worker at most,
\* still waiting when it is in hand, and gone once its batch is registered by a
\* worker that has it no longer.
OnceInvOf(w) ==
  /\ \A v \in Workers \ {w} : Taken(v) \cap Taken(w) \subseteq raced \cup {0}
  /\ Taken(w) \subseteq 0..arrived
  /\ pc[w] \notin {"idle", "next"} /\ File(w) \notin raced => File(w) \in inbox
  /\ \A i \in Ids, f \in Files : txReady[w][i] = f =>
       /\ f \in 1..arrived
       /\ f \notin raced =>
            /\ f \in inbox => pc[w] \in {"deliver", "complete"} /\ f = File(w) /\ i = Id(w)
            /\ \A v \in Workers, j \in Ids : txReady[v][j] = f => j = i /\ v = w
            /\ \A j \in Ids : dbReady[j] # f

OnceInv ==
  /\ ListedOnce
  /\ inbox \subseteq 1..arrived
  /\ \A i \in Ids, f \in Files : dbReady[i] = f =>
       f \in 1..arrived /\ (f \notin raced => f \notin inbox)
  /\ \A w \in Workers : OnceInvOf(w)

LEMMA OnceInvStep ==
  ASSUME Archives, TypeOK, HasFile, OnceInv, [Next]_vars
  PROVE  OnceInv'
<1> USE DEF OnceInv, OnceInvOf, ListedOnce
<1>0. arrived \in Nat /\ raced \subseteq Files /\ Absent \notin Files /\ 0 = Absent
  BY IngestAssumption, Names DEF TypeOK, Absent
<1>1. CASE Arrive
  BY <1>0, <1>1 DEF Arrive, disk, db, tx, worker, File, Id, Taken
<1>2. CASE Tick \/ UNCHANGED vars
  <2>1. UNCHANGED <<arrived, inbox, raced, dbReady, pc, waiting, current, txReady>>
    BY <1>2 DEF Tick, vars, drop, db, worker, tx
  <2> QED
    BY <2>1 DEF File, Id, Taken
<1> SUFFICES ASSUME NEW w \in Workers, Step(w) \/ Abort(w) PROVE OnceInv'
  BY <1>1, <1>2 DEF Next
<1> USE DEF TypeOK, drop, disk, db, tx, Goto, NextFile, File, Id, Taken, Empty
<1>3. CASE StartPoll(w)
  <2>1. ASSUME NEW v \in Workers \ {w}
        PROVE  Taken(v)' \cap Taken(w)' \subseteq raced' \cup {0}
    BY <1>3, <2>1 DEF StartPoll
  <2>2. Oldest(inbox) \subseteq inbox /\ raced \subseteq raced'
    BY <1>3 DEF StartPoll, Oldest
  <2>3. /\ UNCHANGED <<arrived, inbox, dbReady, current, txReady>>
        /\ pc[w] = "idle" /\ pc' = [pc EXCEPT ![w] = "next"]
        /\ \A v \in Workers \ {w} : waiting'[v] = waiting[v]
        /\ waiting'[w] = Oldest(inbox)
    BY <1>3 DEF StartPoll
  <2>4. OnceInvOf(w)'
    <3>1. (Taken(w) \subseteq 0..arrived)'
      <4>1. Taken(w)' \subseteq inbox \cup Taken(w)
        BY <2>2, <2>3
      <4>2. inbox \subseteq 0..arrived /\ Taken(w) \subseteq 0..arrived
        <5> HIDE DEF TypeOK
        <5> QED
          BY <1>0
      <4> QED
        BY <2>3, <4>1, <4>2
    <3> QED
      BY <2>1, <2>2, <2>3, <3>1
  <2>5. ASSUME NEW v \in Workers \ {w} PROVE OnceInvOf(v)'
    <3>1. ASSUME NEW u \in Workers \ {v}
          PROVE  (Taken(u) \cap Taken(v) \subseteq raced \cup {0})'
      <4>1. CASE u = w
        BY <2>1, <2>5, <4>1
      <4>2. CASE u # w
        <5>1. Taken(u)' = Taken(u) /\ Taken(v)' = Taken(v)
          BY <2>3, <2>5, <3>1, <4>2
        <5>2. Taken(u) \cap Taken(v) \subseteq raced \cup {0}
          BY <3>1
        <5> QED
          BY <2>2, <5>1, <5>2
      <4> QED
        BY <4>1, <4>2
    <3>2. OnceInvOf(v) /\ pc'[v] = pc[v] /\ v \in Workers
      BY <2>3
    <3>3. Taken(v)' = Taken(v) /\ (File(v) = File(v)' /\ Id(v) = Id(v)')
      BY <2>3
    <3> HIDE DEF OnceInv, TypeOK
    <3>4. ASSUME NEW i \in Ids, NEW f \in Files, txReady'[v][i] = f
          PROVE  /\ f \in 1..arrived
                 /\ f \notin raced =>
                      /\ f \in inbox => /\ pc[v] \in {"deliver", "complete"}
                                        /\ f = File(v) /\ i = Id(v)
                      /\ \A u \in Workers, j \in Ids : txReady[u][j] = f => j = i /\ u = v
                      /\ \A j \in Ids : dbReady[j] # f
      BY <2>3, <3>2, <3>4
    <3> QED
      BY <2>2, <2>3, <3>1, <3>2, <3>3, <3>4
  <2>6. /\ ListedOnce' /\ (inbox \subseteq 1..arrived)'
        /\ (\A i \in Ids, f \in Files : dbReady[i] = f =>
              f \in 1..arrived /\ (f \notin raced => f \notin inbox))'
    BY <2>2, <2>3
  <2> HIDE DEF OnceInvOf, ListedOnce
  <2> QED
    BY <2>4, <2>5, <2>6
<1>4. CASE Fetch(w)
  <2> PICK f \in inbox : /\ f \in waiting[w]
                         /\ waiting' = [waiting EXCEPT ![w] = @ \ {f}]
                         /\ current' = [current EXCEPT ![w] = [file |-> f, batch |-> Absent]]
    BY <1>4 DEF Fetch, IsNext
  <2> QED
    BY <1>4 DEF Fetch
<1>5. CASE Rollback(w)
  <2>1. \A i \in Ids, f \in Files : txReady'[w][i] # f
    BY <1>0, <1>5 DEF Rollback, NoRecords
  <2> QED
    BY <1>0, <1>5, <2>1 DEF Rollback
<1>6. CASE Reject(w)
  BY <1>0, <1>6 DEF Reject
<1>7. CASE Build(w)
  <2>1. current'[w].file = File(w)
    BY <1>7 DEF Build, Hand
  <2> QED
    BY <1>7, <2>1 DEF Build
<1>8. CASE BuildFails(w)
  <2>1. pc[w] \notin {"deliver", "complete"}
    BY <1>8, Names DEF BuildFails
  <2> QED
    BY <1>0, <1>8, <2>1 DEF BuildFails
<1>9. CASE Write(w)
  <2>1. pc[w] \in Artifacts /\ pc'[w] \in {"frames", "manifest", "register"}
    BY <1>9, Names DEF Write, AfterWriting
  <2> QED
    BY <1>9, <2>1, Names DEF Write
<1>10. CASE Register(w)
  BY <1>10 DEF Register
<1>11. CASE Flush(w)
  <2>1. /\ File(w) \in Files /\ File(w) \in 1..arrived /\ Id(w) \in Ids
        /\ File(w) \notin raced => File(w) \in inbox
    <3>1. pc[w] \in {"insert", "update"} /\ File(w) \in Files /\ File(w) \in 0..arrived
      BY <1>11 DEF Flush, HasFile
    <3> QED
      BY <1>0, <3>1 DEF HasFile, Building
  <2>2. /\ pc[w] \in {"insert", "update"} /\ pc' = [pc EXCEPT ![w] = "deliver"]
        /\ UNCHANGED <<arrived, inbox, raced, dbReady, waiting, current>>
    BY <1>11 DEF Flush
  <2>3. /\ \A i \in Ids : txReady'[w][i] = IF i = Id(w) THEN File(w) ELSE txReady[w][i]
        /\ \A v \in Workers \ {w} : txReady'[v] = txReady[v]
    BY <1>11, <2>1 DEF Flush, Records
  <2>4. ASSUME NEW v \in Workers, NEW i \in Ids, txReady[v][i] = File(w),
               File(w) \notin raced
        PROVE  FALSE
    <3>1. pc[v] \in {"deliver", "complete"} /\ File(v) = File(w)
      BY <2>1, <2>4
    <3>2. v # w
      BY <2>2, <3>1
    <3> QED
      BY <1>0, <2>1, <2>4, <3>1, <3>2
  <2>5. File(w) \notin raced => \A j \in Ids : dbReady[j] # File(w)
    BY <2>1
  <2>6. OnceInvOf(w)'
    <3>1. /\ \A u \in Workers \ {w} : (Taken(u) \cap Taken(w) \subseteq raced \cup {0})'
          /\ (Taken(w) \subseteq 0..arrived)'
          /\ (pc[w] \notin {"idle", "next"} /\ File(w) \notin raced => File(w) \in inbox)'
      BY <2>1, <2>2
    <3>2. ASSUME NEW i \in Ids, NEW f \in Files, txReady'[w][i] = f
          PROVE  /\ f \in 1..arrived
                 /\ f \notin raced =>
                      /\ f \in inbox => /\ pc'[w] \in {"deliver", "complete"}
                                        /\ f = File(w) /\ i = Id(w)
                      /\ \A u \in Workers, j \in Ids : txReady'[u][j] = f => j = i /\ u = w
                      /\ \A j \in Ids : dbReady[j] # f
      <4>1. CASE i = Id(w)
        <5>1. f = File(w) /\ pc'[w] = "deliver"
          BY <2>2, <2>3, <3>2, <4>1
        <5> QED
          BY <2>1, <2>3, <2>4, <2>5, <4>1, <5>1
      <4>2. CASE i # Id(w)
        <5>1. txReady[w][i] = f
          BY <2>3, <3>2, <4>2
        <5>2. /\ f \in 1..arrived
              /\ f \notin raced =>
                   /\ f \notin inbox
                   /\ \A u \in Workers, j \in Ids : txReady[u][j] = f => j = i /\ u = w
                   /\ \A j \in Ids : dbReady[j] # f
          BY <2>2, <5>1
        <5>3. f # File(w) \/ f \in raced
          BY <2>4, <5>1
        <5>4. ASSUME f \notin raced, NEW u \in Workers, NEW j \in Ids, txReady'[u][j] = f
              PROVE  txReady[u][j] = f
          BY <2>3, <5>3, <5>4
        <5> QED
          BY <5>2, <5>4
      <4> QED
        BY <4>1, <4>2
    <3> QED
      BY <2>2, <3>1, <3>2
  <2>7. ASSUME NEW v \in Workers \ {w} PROVE OnceInvOf(v)'
    <3>1. /\ \A u \in Workers \ {v} : (Taken(u) \cap Taken(v) \subseteq raced \cup {0})'
          /\ (Taken(v) \subseteq 0..arrived)'
          /\ (pc[v] \notin {"idle", "next"} /\ File(v) \notin raced => File(v) \in inbox)'
      BY <2>2
    <3>2. ASSUME NEW i \in Ids, NEW f \in Files, txReady'[v][i] = f
          PROVE  /\ f \in 1..arrived
                 /\ f \notin raced =>
                      /\ f \in inbox => /\ pc'[v] \in {"deliver", "complete"}
                                        /\ f = File(v) /\ i = Id(v)
                      /\ \A u \in Workers, j \in Ids : txReady'[u][j] = f => j = i /\ u = v
                      /\ \A j \in Ids : dbReady[j] # f
      <4>1. txReady[v][i] = f /\ pc'[v] = pc[v]
        BY <2>2, <2>3, <3>2
      <4>2. f # File(w) \/ f \in raced
        BY <2>4, <4>1
      <4>3. ASSUME f \notin raced, NEW u \in Workers, NEW j \in Ids, txReady'[u][j] = f
            PROVE  txReady[u][j] = f
        BY <2>3, <4>2, <4>3
      <4>4. /\ f \in 1..arrived
            /\ f \notin raced =>
                 /\ f \in inbox => /\ pc[v] \in {"deliver", "complete"}
                                   /\ f = File(v) /\ i = Id(v)
                 /\ \A u \in Workers, j \in Ids : txReady[u][j] = f => j = i /\ u = v
                 /\ \A j \in Ids : dbReady[j] # f
        BY <4>1
      <4> QED
        BY <4>1, <4>3, <4>4
    <3> QED
      BY <2>2, <3>1, <3>2
  <2>8. ListedOnce' /\ (inbox \subseteq 1..arrived)'
        /\ (\A i \in Ids, f \in Files : dbReady[i] = f =>
              f \in 1..arrived /\ (f \notin raced => f \notin inbox))'
    BY <2>2
  <2> HIDE DEF OnceInvOf, ListedOnce
  <2> QED
    BY <2>6, <2>7, <2>8
<1>12. CASE Deliver(w)
  <2>1. /\ UNCHANGED <<arrived, inbox, raced, dbReady, waiting, current, txReady>>
        /\ pc[w] = "deliver" /\ pc' = [pc EXCEPT ![w] = "complete"]
    BY <1>12 DEF Deliver
  <2>2. /\ \A v \in Workers \ {w} : pc'[v] = pc[v]
        /\ pc'[w] = "complete"
    BY <2>1
  <2>3. ASSUME NEW v \in Workers PROVE OnceInvOf(v)'
    <3>1. OnceInvOf(v)
      OBVIOUS
    <3> HIDE DEF OnceInv, TypeOK
    <3> QED
      BY <2>1, <2>2, <3>1
  <2>4. /\ ListedOnce' /\ (inbox \subseteq 1..arrived)'
        /\ (\A i \in Ids, f \in Files : dbReady[i] = f =>
              f \in 1..arrived /\ (f \notin raced => f \notin inbox))'
    BY <2>1
  <2> HIDE DEF OnceInvOf, ListedOnce
  <2> QED
    BY <2>3, <2>4
<1>13. CASE Complete(w)
  <2>1. inbox' = inbox \ {File(w)} /\ pc[w] = "complete"
    BY <1>13 DEF Complete
  <2>2. ASSUME NEW v \in Workers \ {w}, pc[v] \notin {"idle", "next"},
               File(v) \notin raced
        PROVE  File(v) \in inbox'
    <3>1. File(v) \in inbox /\ File(v) \in Files /\ File(v) \in Taken(v)
      BY <2>2 DEF HasFile
    <3>2. File(w) \in Taken(w)
      OBVIOUS
    <3>3. File(v) # File(w)
      BY <1>0, <2>2, <3>1, <3>2
    <3> QED
      BY <2>1, <3>1, <3>3
  <2>3. OnceInvOf(w)'
    BY <1>0, <1>13, <2>1 DEF Complete
  <2>4. ASSUME NEW v \in Workers \ {w}
        PROVE  OnceInvOf(v)'
    BY <1>0, <1>13, <2>1, <2>2, <2>4 DEF Complete
  <2>5. /\ ListedOnce'
        /\ (inbox \subseteq 1..arrived)'
        /\ (\A i \in Ids, f \in Files : dbReady[i] = f =>
              f \in 1..arrived /\ (f \notin raced => f \notin inbox))'
    BY <1>13, <2>1 DEF Complete
  <2> HIDE DEF OnceInvOf, ListedOnce
  <2> QED
    BY <2>3, <2>4, <2>5
<1>14. CASE Commit(w)
  <2>1. /\ \A i \in Ids : dbReady'[i] = IF txReady[w][i] = Absent THEN dbReady[i]
                                         ELSE txReady[w][i]
        /\ \A i \in Ids : txReady'[w][i] = Absent
        /\ \A v \in Workers \ {w} : txReady'[v] = txReady[v]
        /\ pc[w] = "next" /\ pc' = [pc EXCEPT ![w] = "idle"]
        /\ UNCHANGED <<arrived, inbox, raced, waiting, current>>
    BY <1>14 DEF Commit, Upserted, NoRecords
  <2>2. \A v \in Workers : \A i \in Ids :
          txReady[v][i] \in Files \cup {Absent} /\ dbReady[i] \in Files \cup {Absent}
    BY DEF Records
  <2>3. \A v \in Workers \ {w} : pc'[v] = pc[v]
    BY <2>1
  <2>4. pc'[w] = "idle"
    BY <2>1
  <2>5. \A v \in Workers : OnceInvOf(v)
    OBVIOUS
  <2>6. \A i \in Ids : txReady[w][i] # Absent =>
          /\ txReady[w][i] \in 1..arrived
          /\ txReady[w][i] \notin raced =>
               /\ txReady[w][i] \notin inbox
               /\ \A v \in Workers, j \in Ids :
                    txReady[v][j] = txReady[w][i] => j = i /\ v = w
               /\ \A j \in Ids : dbReady[j] # txReady[w][i]
    <3> HIDE DEF TypeOK
    <3> QED
      BY <2>1, <2>2, <2>5
  <2>7. ListedOnce
    OBVIOUS
  <2>8. \A i \in Ids, f \in Files : dbReady[i] = f =>
          f \in 1..arrived /\ (f \notin raced => f \notin inbox)
    OBVIOUS
  <2> HIDE DEF TypeOK, OnceInv
  <2>9. ListedOnce'
    <3> SUFFICES ASSUME NEW i \in Ids, NEW j \in Ids, dbReady'[i] # Absent,
                        dbReady'[i] = dbReady'[j], dbReady'[i] \notin raced
                 PROVE  i = j
      BY <2>1
    <3>1. CASE txReady[w][i] = Absent /\ txReady[w][j] = Absent
      BY <2>1, <2>7, <3>1
    <3>2. CASE txReady[w][i] # Absent
      BY <2>1, <2>6, <3>2
    <3>3. CASE txReady[w][j] # Absent
      BY <2>1, <2>6, <3>3
    <3> QED
      BY <3>1, <3>2, <3>3
  <2>10. \A i \in Ids, f \in Files : dbReady'[i] = f =>
          f \in 1..arrived /\ (f \notin raced => f \notin inbox)
    <3> SUFFICES ASSUME NEW i \in Ids, NEW f \in Files, dbReady'[i] = f
                 PROVE  f \in 1..arrived /\ (f \notin raced => f \notin inbox)
      OBVIOUS
    <3>1. CASE txReady[w][i] = Absent
      BY <2>1, <2>8, <3>1
    <3>2. CASE txReady[w][i] # Absent
      BY <2>1, <2>6, <3>2
    <3> QED
      BY <3>1, <3>2
  <2>11. OnceInvOf(w)'
    BY <1>0, <2>1, <2>4, <2>5
  <2>12. ASSUME NEW v \in Workers \ {w} PROVE OnceInvOf(v)'
    <3>1. /\ \A u \in Workers \ {v} : (Taken(u) \cap Taken(v) \subseteq raced \cup {0})'
          /\ (Taken(v) \subseteq 0..arrived)'
          /\ (pc[v] \notin {"idle", "next"} /\ File(v) \notin raced => File(v) \in inbox)'
      BY <2>1, <2>3, <2>5
    <3>2. ASSUME NEW i \in Ids, NEW f \in Files, txReady'[v][i] = f
          PROVE  /\ f \in 1..arrived
                 /\ f \notin raced =>
                      /\ f \in inbox => /\ pc'[v] \in {"deliver", "complete"}
                                        /\ f = File(v) /\ i = Id(v)
                      /\ \A u \in Workers, j \in Ids : txReady'[u][j] = f => j = i /\ u = v
                      /\ \A j \in Ids : dbReady'[j] # f
      <4>1. txReady[v][i] = f
        BY <2>1, <3>2
      <4>2. /\ f \in 1..arrived
            /\ f \notin raced =>
                 /\ f \in inbox => /\ pc[v] \in {"deliver", "complete"}
                                   /\ f = File(v) /\ i = Id(v)
                 /\ \A u \in Workers, j \in Ids : txReady[u][j] = f => j = i /\ u = v
                 /\ \A j \in Ids : dbReady[j] # f
        BY <2>5, <4>1
      <4>3. ASSUME f \notin raced, NEW u \in Workers, NEW j \in Ids, txReady'[u][j] = f
            PROVE  j = i /\ u = v
        <5>1. u # w
          BY <1>0, <2>1, <4>3
        <5> QED
          BY <2>1, <4>2, <4>3, <5>1
      <4>4. ASSUME f \notin raced, NEW j \in Ids, dbReady'[j] = f
            PROVE  FALSE
        <5>1. txReady[w][j] # f
          BY <4>2, <4>4
        <5> QED
          BY <2>1, <4>2, <4>4, <5>1
      <4> QED
        BY <2>3, <4>2, <4>3, <4>4
    <3> QED
      BY <2>1, <3>1, <3>2
  <2> HIDE DEF OnceInvOf, ListedOnce
  <2> QED
    BY <2>1, <2>9, <2>10, <2>11, <2>12 DEF OnceInv
<1> QED
  BY <1>3, <1>4, <1>5, <1>6, <1>7, <1>8, <1>9, <1>10, <1>11, <1>12, <1>13, <1>14
  DEF Step, Abort, FetchGone, FlushClashes

\* With an archiving connector no file is listed twice, though aborted polls
\* build their files again, unless two polls had it listed at once.
THEOREM ListedOnceAlways ==
  ASSUME Archives
  PROVE  Spec => []ListedOnce
<1>1. Init => OnceInv
  BY Names DEF Init, OnceInv, OnceInvOf, ListedOnce, Taken, File, Empty, NoRecords, Absent
<1>2. TypeOK /\ HasFile /\ OnceInv /\ [Next]_vars => OnceInv'
  BY OnceInvStep
<1>3. OnceInv => ListedOnce
  BY DEF OnceInv
<1> QED
  BY <1>1, <1>2, <1>3, TypeCorrect, PTL DEF Spec

=============================================================================
