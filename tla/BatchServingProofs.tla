------------------------- MODULE BatchServingProofs -------------------------
(***************************************************************************)
(* What build processes and request threads keep true of batches on disk   *)
(* and in memory, for any number of each, of ids, dimensions and builds,   *)
(* whichever store is used and whenever a build dies.                      *)
(***************************************************************************)
EXTENDS BatchServing, SequenceTheorems, TLAPS

-----------------------------------------------------------------------------
(* Type correctness.                                                       *)

LEMMA Facts ==
  /\ MaxBuilds \in Nat /\ 0 \in 0..MaxBuilds /\ Builds \subseteq 0..MaxBuilds
  /\ None \notin Ids /\ None \notin Artifacts
  /\ NotLoaded \in Loaded /\ NoBuild \in Builder /\ NoAsk \in Thread
  /\ NoBuild.pc = "idle" /\ NoBuild.id = None /\ NotLoaded.n = 0
<1>1. MaxBuilds \in Nat /\ 0 \in 0..MaxBuilds /\ Builds \subseteq 0..MaxBuilds
  BY ServingAssumption DEF Builds
<1>2. NotLoaded \in Loaded /\ NotLoaded.n = 0
  BY <1>1 DEF NotLoaded, Loaded
<1>3. NoBuild \in Builder /\ NoBuild.pc = "idle" /\ NoBuild.id = None
  BY <1>1 DEF NoBuild, Builder, PCs
<1>4. NoAsk \in Thread
  BY <1>1, <1>2 DEF NoAsk, Thread, Answers
<1> QED
  BY <1>1, <1>2, <1>3, <1>4, ServingAssumption DEF Artifacts

LEMMA TouchType ==
  ASSUME TypeOK, NEW id \in Ids
  PROVE  /\ Touch(id) \in Seq(Ids)
         /\ Len(Touch(id)) \in Nat
<1>1. recent \in Seq(Ids) /\ Len(recent) \in Nat /\ DOMAIN recent = 1..Len(recent)
  BY LenProperties DEF TypeOK
<1>2. CASE id \notin {recent[i] : i \in DOMAIN recent}
  <2>1. Touch(id) = Append(recent, id)
    BY <1>2 DEF Touch
  <2>2. Append(recent, id) \in Seq(Ids) /\ Len(Append(recent, id)) = Len(recent) + 1
    BY <1>1
  <2> QED
    BY <1>1, <2>1, <2>2
<1>3. CASE id \in {recent[i] : i \in DOMAIN recent}
  <2> DEFINE at == CHOOSE i \in DOMAIN recent : recent[i] = id
             s == [i \in 1..Len(recent) |->
                     IF i < at THEN recent[i]
                     ELSE IF i < Len(recent) THEN recent[i + 1] ELSE id]
  <2>1. Touch(id) = s
    BY <1>1, <1>3 DEF Touch
  <2>2. at \in 1..Len(recent)
    BY <1>1, <1>3
  <2> HIDE DEF at
  <2>3. ASSUME NEW i \in 1..Len(recent)
        PROVE  s[i] \in Ids
    BY <1>1, <2>2, ElementOfSeq
  <2>4. s \in [1..Len(recent) -> Ids]
    BY <2>3
  <2> HIDE DEF s
  <2> QED
    BY <1>1, <2>1, <2>4
<1> QED
  BY <1>2, <1>3

\* What is at work has an id and a build's number, and what can be read was
\* written by a build.
Named ==
  /\ \A b \in Builders : builder[b].pc # "idle" => builder[b].id \in Ids /\ builder[b].n \in Builds
  /\ \A t \in Threads : thread[t].pc # "idle" => thread[t].id \in Ids
  /\ \A id \in Ids, a \in Artifacts : files[id][a].whole => files[id][a].n \in Builds

TypeInv == TypeOK /\ Named

LEMMA Steady ==
  ASSUME TypeInv, UNCHANGED vars PROVE TypeInv'
BY DEF TypeInv, TypeOK, Named, vars, server

LEMMA StartBuildTypes ==
  ASSUME TypeInv, NEW b \in Builders, NEW id \in Ids, StartBuild(b, id)
  PROVE  TypeInv'
<1> USE Facts
<1>1. PICK ds \in SUBSET Dims :
       /\ rolled' = [rolled EXCEPT ![builds + 1] = ds]
       /\ builder' = [c \in Builders |->
            IF c = b THEN [pc |-> "positions", id |-> id, n |-> builds + 1, left |-> ds, open |-> None,
                           alone |-> \A o \in Builders : builder[o].id # id]
            ELSE [builder[c] EXCEPT !.alone = @ /\ builder[c].id # id]]
  BY DEF StartBuild
<1>2. builds + 1 \in Builds /\ builds' = builds + 1 /\ builds' \in 0..MaxBuilds
  BY DEF StartBuild, Builds, TypeOK, TypeInv
<1>3. rolled' \in [Builds -> SUBSET Dims]
  BY <1>1, <1>2 DEF TypeOK, TypeInv
<1>4. /\ builder'[b] \in Builder /\ builder'[b].pc # "idle" /\ builder'[b] # NoBuild
      /\ builder'[b].id \in Ids /\ builder'[b].n \in Builds
  <2>1. builder'[b] = [pc |-> "positions", id |-> id, n |-> builds + 1, left |-> ds, open |-> None,
                       alone |-> \A o \in Builders : builder[o].id # id]
    BY <1>1
  <2> QED
    BY <1>2, <2>1 DEF Builder, PCs
<1>5. ASSUME NEW c \in Builders \ {b}
      PROVE  /\ builder'[c] \in Builder
             /\ builder'[c].pc = "idle" <=> builder'[c] = NoBuild
             /\ builder'[c].pc # "idle" => builder'[c].id \in Ids /\ builder'[c].n \in Builds
  <2>1. /\ builder[c] \in Builder /\ (builder[c].pc = "idle" <=> builder[c] = NoBuild)
        /\ builder[c].pc # "idle" => builder[c].id \in Ids /\ builder[c].n \in Builds
    BY DEF TypeOK, TypeInv, Named
  <2>2. builder'[c] = [builder[c] EXCEPT !.alone = @ /\ builder[c].id # id]
    BY <1>1
  <2>3. builder'[c] \in Builder
    BY <2>1, <2>2 DEF Builder
  <2>4. builder'[c].pc = builder[c].pc /\ builder'[c].id = builder[c].id /\ builder'[c].n = builder[c].n
    BY <2>1, <2>2 DEF Builder
  <2>5. CASE builder[c] = NoBuild
    <3>a. PICK x \in BOOLEAN : x = FALSE /\ builder'[c] = [builder[c] EXCEPT !.alone = x]
      <4>1. builder[c].alone = FALSE
        BY <2>5 DEF NoBuild
      <4>2. (builder[c].alone /\ builder[c].id # id) = FALSE
        BY <4>1
      <4> QED
        BY <2>2, <4>2
    <3>1. builder'[c].alone = FALSE /\ builder'[c].left = {} /\ builder'[c].open = None
      BY <2>1, <2>5, <3>a DEF NoBuild, Builder
    <3>2. builder'[c].pc = "idle" /\ builder'[c].id = None /\ builder'[c].n = 0
      BY <2>4, <2>5 DEF NoBuild
    <3>3. builder'[c] = NoBuild
      BY <2>3, <3>1, <3>2 DEF Builder, NoBuild
    <3> QED
      BY <2>3, <3>2, <3>3
  <2> QED
    BY <2>1, <2>3, <2>4, <2>5
<1>6. /\ builder' \in [Builders -> Builder]
      /\ \A c \in Builders : builder'[c].pc = "idle" <=> builder'[c] = NoBuild
      /\ \A c \in Builders : builder'[c].pc # "idle" => builder'[c].id \in Ids /\ builder'[c].n \in Builds
  BY <1>1, <1>4, <1>5
<1>7. /\ thread' \in [Threads -> Thread]
      /\ \A t \in Threads : thread'[t].pc # "idle" => thread'[t].id \in Ids
  <2>1. ASSUME NEW t \in Threads
        PROVE  LET r == [thread[t] EXCEPT !.quiet = @ /\ thread[t].id # id]
               IN  r \in Thread /\ r.pc = thread[t].pc /\ r.id = thread[t].id
    <3>1. thread[t] \in Thread
      BY DEF TypeOK, TypeInv
    <3> QED
      BY <3>1 DEF Thread
  <2> QED
    BY <2>1 DEF StartBuild, TypeInv, Named
<1> QED
  BY <1>2, <1>3, <1>6, <1>7 DEF StartBuild, TypeOK, TypeInv, Named

LEMMA WriteTypes ==
  ASSUME TypeInv, NEW b \in Builders, NEW a \in Artifacts, NEW there \in PCs \ {"idle"},
         NEW left \in SUBSET Dims, builder[b].pc # "idle", Write(b, a, there, left)
  PROVE  TypeInv'
<1> USE Facts
<1>1. /\ builder[b] \in Builder /\ builder[b] # NoBuild
      /\ builder[b].id \in Ids /\ builder[b].n \in Builds
  BY DEF TypeOK, TypeInv, Named
<1>2. ASSUME NEW w \in BOOLEAN,
             files' = [files EXCEPT ![builder[b].id][a] = [n |-> builder[b].n, whole |-> w]]
      PROVE  /\ files' \in [Ids -> [Artifacts -> Content]]
             /\ \A id \in Ids, x \in Artifacts : files'[id][x].whole => files'[id][x].n \in Builds
  BY <1>1, <1>2 DEF TypeOK, TypeInv, Named, Content
<1>3. ASSUME NEW r \in Builder, builder' = [builder EXCEPT ![b] = r], r.pc # "idle",
             r.id = builder[b].id, r.n = builder[b].n
      PROVE  /\ builder' \in [Builders -> Builder]
             /\ \A c \in Builders : builder'[c].pc = "idle" <=> builder'[c] = NoBuild
             /\ \A c \in Builders : builder'[c].pc # "idle" => builder'[c].id \in Ids /\ builder'[c].n \in Builds
  BY <1>1, <1>3 DEF TypeOK, TypeInv, Named
<1>4. CASE OpenFile(b, a)
  <2> DEFINE r == [builder[b] EXCEPT !.open = a]
  <2>1. r \in Builder /\ r.pc = builder[b].pc /\ r.id = builder[b].id /\ r.n = builder[b].n
    BY <1>1 DEF Builder
  <2>2. builder' = [builder EXCEPT ![b] = r]
    BY <1>4 DEF OpenFile
  <2> QED
    BY <1>2, <1>3, <1>4, <2>1, <2>2 DEF OpenFile, TypeOK, TypeInv, Named, server
<1>5. CASE Put(b, a, there, left)
  <2> DEFINE r == [builder[b] EXCEPT !.open = None, !.pc = there, !.left = left]
  <2>1. r \in Builder /\ r.pc = there /\ r.id = builder[b].id /\ r.n = builder[b].n
    BY <1>1 DEF Builder
  <2>2. builder' = [builder EXCEPT ![b] = r]
    BY <1>5 DEF Put
  <2>3. PICK w \in BOOLEAN :
          files' = [files EXCEPT ![builder[b].id][a] = [n |-> builder[b].n, whole |-> w]]
    BY <1>5 DEF Put
  <2> QED
    BY <1>2, <1>3, <1>5, <2>1, <2>2, <2>3 DEF Put, TypeOK, TypeInv, Named, server
<1> QED
  BY <1>4, <1>5 DEF Write

LEMMA BuildTypes ==
  ASSUME TypeInv, NEW b \in Builders, BuildStep(b)
  PROVE  TypeInv'
<1>1. ASSUME NEW id \in Ids, StartBuild(b, id)
      PROVE  TypeInv'
  BY <1>1, StartBuildTypes
<1>2. CASE WritePositions(b) \/ WriteFull(b) \/ WriteRollups(b) \/ WriteManifest(b)
  <2>1. builder[b].left \in SUBSET Dims
    BY DEF TypeInv, TypeOK, Builder
  <2>2. {"positions", "full", "manifest"} \subseteq Artifacts /\ Dims \subseteq Artifacts
    BY DEF Artifacts
  <2>3. {"full", "rollups", "timings", "register"} \subseteq PCs \ {"idle"}
    BY DEF PCs
  <2>4. CASE WritePositions(b)
    BY <2>1, <2>2, <2>3, <2>4, WriteTypes DEF WritePositions
  <2>5. CASE WriteFull(b)
    BY <2>1, <2>2, <2>3, <2>5, WriteTypes DEF WriteFull
  <2>6. CASE WriteRollups(b)
    <3>1. PICK d \in builder[b].left : Write(b, d, "rollups", builder[b].left \ {d})
      BY <2>6 DEF WriteRollups
    <3>2. d \in Artifacts /\ (builder[b].left \ {d}) \in SUBSET Dims /\ builder[b].pc # "idle"
      BY <2>1, <2>2, <2>6 DEF WriteRollups
    <3> QED
      BY <2>3, <3>1, <3>2, WriteTypes
  <2>7. CASE WriteManifest(b)
    BY <2>2, <2>3, <2>7, WriteTypes DEF WriteManifest
  <2> QED
    BY <1>2, <2>4, <2>5, <2>6, <2>7
<1>3. CASE Register(b) \/ Crash(b)
  <2>1. builder[b].pc # "idle"
    BY <1>3 DEF Register, Crash
  <2>2. builder[b].id \in Ids /\ builder[b].n \in 0..MaxBuilds
    BY <2>1, Facts DEF TypeInv, Named
  <2> QED
    BY <1>3, <2>2, Facts DEF Register, Crash, TypeInv, TypeOK, Named, server
<1> QED
  BY <1>1, <1>2, <1>3 DEF BuildStep

\* A thread that takes another record keeps everything typed.
LEMMA ThreadTypes ==
  ASSUME TypeInv, NEW t \in Threads, NEW r \in Thread, r.pc # "idle" => r.id \in Ids,
         thread' = [thread EXCEPT ![t] = r]
  PROVE  /\ thread' \in [Threads -> Thread]
         /\ \A u \in Threads : thread'[u].pc # "idle" => thread'[u].id \in Ids
BY DEF TypeInv, TypeOK, Named

\* What a thread that answers becomes.
LEMMA ReplyTypes ==
  ASSUME TypeInv, NEW t \in Threads, NEW kind \in Answers, NEW source \in 0..MaxBuilds,
         Reply(t, kind, source)
  PROVE  /\ thread' \in [Threads -> Thread]
         /\ \A u \in Threads : thread'[u].pc # "idle" => thread'[u].id \in Ids
<1> DEFINE r == [thread[t] EXCEPT !.pc = "idle", !.answer = kind, !.source = source]
<1>1. r \in Thread /\ r.pc = "idle"
  BY DEF TypeInv, TypeOK, Thread
<1>2. thread' = [thread EXCEPT ![t] = r]
  BY DEF Reply
<1> QED
  BY <1>1, <1>2, ThreadTypes

LEMMA ServeTypes ==
  ASSUME TypeInv, NEW t \in Threads, ServeStep(t)
  PROVE  TypeInv'
<1> USE Facts
<1>0. /\ thread[t] \in Thread
      /\ thread[t].pc # "idle" => thread[t].id \in Ids
      /\ {"none", "rows", "404", "500"} \subseteq Answers
  BY DEF TypeInv, TypeOK, Named, Answers
<1>1. ASSUME NEW id \in Ids, Ask(t, id)
      PROVE  TypeInv'
  <2>1. cache[id] \in Loaded /\ NotLoaded \in Loaded /\ NoAsk \in Thread
    BY DEF TypeInv, TypeOK, Loaded, NotLoaded, Thread, NoAsk, Answers
  <2>2. recent' \in Seq(Ids)
    BY <1>1, TouchType DEF Ask, TypeInv, TypeOK
  <2>3. CASE cache[id].n > 0
    <3> DEFINE r == [NoAsk EXCEPT !.pc = "query", !.id = id, !.batch = cache[id], !.quiet = id \in fresh]
    <3>1. r \in Thread /\ r.id = id
      <4>1. \A q \in BOOLEAN : LET x == [NoAsk EXCEPT !.pc = "query", !.id = id, !.batch = cache[id], !.quiet = q] IN x \in Thread /\ x.id = id
        BY <2>1 DEF Thread
      <4>2. (id \in fresh) \in BOOLEAN
        OBVIOUS
      <4> QED
        BY <4>1, <4>2, Zenon
    <3>2. thread' = [thread EXCEPT ![t] = r]
      BY <1>1, <2>3 DEF Ask
    <3> HIDE DEF r
    <3> QED
      BY <1>1, <2>2, <3>1, <3>2, ThreadTypes DEF Ask, TypeInv, TypeOK, Named
  <2>4. CASE ~(cache[id].n > 0)
    <3> DEFINE r == [NoAsk EXCEPT !.pc = "manifest", !.id = id, !.quiet = id \in clean]
    <3>1. r \in Thread /\ r.id = id
      <4>1. \A q \in BOOLEAN : LET x == [NoAsk EXCEPT !.pc = "manifest", !.id = id, !.quiet = q] IN x \in Thread /\ x.id = id
        BY <2>1 DEF Thread
      <4>2. (id \in clean) \in BOOLEAN
        OBVIOUS
      <4> QED
        BY <4>1, <4>2, Zenon
    <3>2. thread' = [thread EXCEPT ![t] = r]
      BY <1>1, <2>4 DEF Ask
    <3> HIDE DEF r
    <3> QED
      BY <1>1, <2>2, <3>1, <3>2, ThreadTypes DEF Ask, TypeInv, TypeOK, Named
  <2> QED
    BY <2>3, <2>4
<1>2. CASE ReadManifest(t)
  <2> DEFINE f == files[thread[t].id]["manifest"]
  <2>1. f \in Content /\ (f.whole => f.n \in Builds)
    BY <1>0, <1>2 DEF ReadManifest, TypeInv, TypeOK, Named, Artifacts
  <2>2. CASE f.whole
    <3> DEFINE r == [thread[t] EXCEPT !.pc = "rollups", !.batch = [NotLoaded EXCEPT !.n = f.n], !.left = rolled[f.n]]
    <3>1. [NotLoaded EXCEPT !.n = f.n] \in Loaded /\ rolled[f.n] \in SUBSET Dims
      BY <2>1, <2>2 DEF TypeInv, TypeOK, Loaded, NotLoaded
    <3>2. r \in Thread /\ r.id = thread[t].id
      BY <1>0, <3>1 DEF Thread
    <3>3. thread' = [thread EXCEPT ![t] = r]
      BY <1>2, <2>2 DEF ReadManifest
    <3> QED
      BY <1>0, <1>2, <3>2, <3>3, ThreadTypes DEF ReadManifest, TypeInv, TypeOK, Named, server
  <2>3. CASE ~f.whole
    <3>1. PICK kind \in Answers : Reply(t, kind, 0)
      BY <1>0, <1>2, <2>3 DEF ReadManifest
    <3> QED
      BY <1>2, <3>1, ReplyTypes DEF ReadManifest, TypeInv, TypeOK, Named, server
  <2> QED
    BY <2>2, <2>3
<1>3. CASE ReadRollup(t)
  <2>1. PICK d \in thread[t].left :
          \/ Reply(t, "500", 0)
          \/ thread' = [thread EXCEPT ![t].left = @ \ {d}, ![t].batch.rollups[d] = files[thread[t].id][d].n]
    BY <1>3 DEF ReadRollup
  <2>2. d \in Dims /\ d \in Artifacts
    BY <1>0 DEF Thread, Artifacts
  <2>3. CASE Reply(t, "500", 0)
    BY <1>0, <1>3, <2>3, ReplyTypes DEF ReadRollup, TypeInv, TypeOK, Named, server
  <2>4. CASE thread' = [thread EXCEPT ![t].left = @ \ {d}, ![t].batch.rollups[d] = files[thread[t].id][d].n]
    <3> DEFINE k == files[thread[t].id][d].n
               batch == [thread[t].batch EXCEPT !.rollups[d] = k]
               r == [thread[t] EXCEPT !.left = @ \ {d}, !.batch = batch]
    <3>1. k \in 0..MaxBuilds
      BY <1>0, <1>3, <2>2 DEF ReadRollup, TypeInv, TypeOK, Content
    <3>2. batch \in Loaded
      BY <1>0, <2>2, <3>1 DEF Thread, Loaded
    <3>3. r \in Thread /\ r.id = thread[t].id
      BY <1>0, <3>2 DEF Thread
    <3>4. thread' = [thread EXCEPT ![t] = r]
      BY <2>4
    <3> QED
      BY <1>0, <1>3, <3>3, <3>4, ThreadTypes DEF ReadRollup, TypeInv, TypeOK, Named, server
  <2> QED
    BY <2>1, <2>3, <2>4
<1>4. CASE PutBatch(t)
  <2> DEFINE id   == thread[t].id
             all  == Touch(id)
             over == IF Len(all) > MaxBatches THEN Len(all) - MaxBatches ELSE 0
             gone == {all[i] : i \in 1..over}
             r    == [thread[t] EXCEPT !.pc = "query"]
  <2>1. id \in Ids /\ thread[t].batch \in Loaded
    BY <1>0, <1>4 DEF PutBatch, Thread
  <2>2. recent' \in Seq(Ids)
    <3>1. all \in Seq(Ids) /\ Len(all) \in Nat
      BY <2>1, TouchType DEF TypeInv
    <3>2. over + 1 \in Nat /\ over + 1 >= 1
      BY <3>1, ServingAssumption
    <3>3. recent' = SubSeq(all, over + 1, Len(all))
      BY <1>4 DEF PutBatch
    <3> HIDE DEF all, over
    <3> QED
      BY <3>1, <3>2, <3>3, SubSeqProperties
  <2>3. cache' \in [Ids -> Loaded]
    BY <1>4, <2>1 DEF PutBatch, TypeInv, TypeOK
  <2>4. fresh' \subseteq Ids
    BY <1>4, <2>1 DEF PutBatch, TypeInv, TypeOK
  <2>5. r \in Thread /\ r.id = id
    BY <1>0 DEF Thread
  <2>6. thread' = [thread EXCEPT ![t] = r]
    BY <1>4 DEF PutBatch
  <2> QED
    BY <1>4, <2>1, <2>2, <2>3, <2>4, <2>5, <2>6, ThreadTypes DEF PutBatch, TypeInv, TypeOK, Named
<1>5. ASSUME NEW d \in Dims, Query(t, d)
      PROVE  TypeInv'
  <2>1. thread[t].id \in Ids /\ "full" \in Artifacts
    BY <1>0, <1>5 DEF Query, Artifacts
  <2>2. thread[t].batch.rollups[d] \in 0..MaxBuilds /\ files[thread[t].id]["full"].n \in 0..MaxBuilds
    BY <1>0, <2>1 DEF Thread, Loaded, TypeInv, TypeOK, Content
  <2>3. PICK kind \in Answers, source \in 0..MaxBuilds : Reply(t, kind, source)
    BY <1>0, <1>5, <2>2 DEF Query
  <2> QED
    BY <1>5, <2>3, ReplyTypes DEF Query, TypeInv, TypeOK, Named, server
<1> QED
  BY <1>1, <1>2, <1>3, <1>4, <1>5 DEF ServeStep

LEMMA InitTypes == Init => TypeInv
BY Facts, EmptySeq DEF Init, TypeInv, TypeOK, Named, Content, Absent, NoAsk, Loaded

LEMMA TypeStep == TypeInv /\ [Next]_vars => TypeInv'
BY Steady, BuildTypes, ServeTypes DEF Next

\* Files, records, build processes, loaded batches and requests keep their
\* types, and none is at work without an id.
THEOREM TypeCorrect == Spec => [](TypeOK /\ Named)
<1> QED
  BY InitTypes, TypeStep, PTL DEF Spec, TypeInv


-----------------------------------------------------------------------------
(* Batches on disk.                                                        *)

\* What a build at step pc has put in the store, of what a reader will need.
WrittenAt(pc, n, left) ==
  CASE pc = "full"     -> {"positions"}
    [] pc = "rollups"  -> {"positions", "full"} \cup (rolled[n] \ left)
    [] pc = "timings"  -> {"positions", "full"} \cup rolled[n]
    [] pc = "register" -> {"positions", "full", "manifest"} \cup rolled[n]
    [] OTHER           -> {}

Written(b) == WrittenAt(builder[b].pc, builder[b].n, builder[b].left)

\* A build has a number of its own, and still has its rollups to write.
Planned == \A b \in Builders : builder[b].pc # "idle" =>
  /\ builder[b].n \in 1..builds
  /\ builder[b].pc \in {"positions", "full"} => builder[b].left = rolled[builder[b].n]

\* A build that is alone under its id finds everything as it left it.
Undisturbed(b) ==
  /\ builder[b].id \notin clean
  /\ \A c \in Builders \ {b} : builder[c].id # builder[b].id
  /\ \A a \in Written(b) : files[builder[b].id][a] = [n |-> builder[b].n, whole |-> TRUE]
  /\ builder[b].open # None => files[builder[b].id][builder[b].open].n = builder[b].n

AloneIsUndisturbed == \A b \in Builders :
  builder[b].pc # "idle" /\ builder[b].alone => Undisturbed(b)

\* Nobody builds under a clean id, and its record's build is whole.
CleanIsWhole == \A id \in clean :
  /\ record[id] \in 1..builds
  /\ WholeOnDisk(id, record[id])
  /\ \A b \in Builders : builder[b].id # id

DiskInv == Planned /\ AloneIsUndisturbed /\ CleanIsWhole

-----------------------------------------------------------------------------
(* Batches in memory.                                                      *)

\* Rollups of build n alone, those of ds.
RollupsOf(n, ds) == [d \in Dims |-> IF d \in ds THEN n ELSE 0]

FreshIsRecorded == \A id \in fresh :
  /\ id \in clean
  /\ cache[id].n = record[id]
  /\ cache[id].rollups = RollupsOf(record[id], rolled[record[id]])

\* What a request nobody disturbed has of the registered build so far.
Undelayed(t) ==
  LET q == thread[t]
      n == record[q.id] IN
  /\ q.id \in clean
  /\ q.pc = "rollups" => /\ q.batch.n = n
                         /\ q.left \subseteq rolled[n]
                         /\ q.batch.rollups = RollupsOf(n, rolled[n] \ q.left)
  /\ q.pc = "query" => q.batch.n = n /\ q.batch.rollups = RollupsOf(n, rolled[n])
  /\ q.answer # "none" => q.answer = "rows" /\ q.source = n

QuietIsUndelayed == \A t \in Threads : thread[t].quiet => Undelayed(t)

ServeInv == FreshIsRecorded /\ QuietIsUndelayed

LEMMA NoneIsIdle ==
  ASSUME TypeInv, NEW b \in Builders
  PROVE  /\ builder[b] \in Builder
         /\ builder[b].pc = "idle" => builder[b].id = None
         /\ builder[b].pc # "idle" => builder[b].id \in Ids /\ builder[b].n \in Builds
BY Facts DEF TypeInv, TypeOK, Named

\* A step that leaves the disk's state as it is keeps what holds of it.
LEMMA SameDisk ==
  ASSUME DiskInv, UNCHANGED <<builds, rolled, files, record, builder, clean>>
  PROVE  DiskInv'
BY DEF DiskInv, Planned, AloneIsUndisturbed, CleanIsWhole, Undisturbed, Written, WrittenAt, WholeOnDisk

LEMMA StartBuildDisk ==
  ASSUME TypeInv, DiskInv, NEW b \in Builders, NEW id \in Ids, StartBuild(b, id)
  PROVE  DiskInv'
<1> USE Facts
<1>1. PICK ds \in SUBSET Dims :
       /\ rolled' = [rolled EXCEPT ![builds + 1] = ds]
       /\ builder' = [c \in Builders |->
            IF c = b THEN [pc |-> "positions", id |-> id, n |-> builds + 1, left |-> ds, open |-> None,
                           alone |-> \A o \in Builders : builder[o].id # id]
            ELSE [builder[c] EXCEPT !.alone = @ /\ builder[c].id # id]]
  BY DEF StartBuild
<1>2. /\ builds \in Nat /\ builds' = builds + 1 /\ builder[b].pc = "idle"
      /\ files' = files /\ record' = record /\ clean' = clean \ {id}
      /\ \A n \in 1..builds : rolled'[n] = rolled[n]
  BY <1>1 DEF StartBuild, TypeInv, TypeOK, Builds
<1>3. /\ builder'[b].pc = "positions" /\ builder'[b].id = id /\ builder'[b].n = builds + 1
      /\ builder'[b].open = None
      /\ builder'[b].alone <=> \A o \in Builders : builder[o].id # id
  BY <1>1
<1>4. ASSUME NEW c \in Builders \ {b}
      PROVE  /\ builder'[c].pc = builder[c].pc /\ builder'[c].id = builder[c].id
             /\ builder'[c].n = builder[c].n /\ builder'[c].left = builder[c].left
             /\ builder'[c].open = builder[c].open
             /\ builder'[c].alone <=> builder[c].alone /\ builder[c].id # id
  <2>1. builder[c] \in Builder
    BY NoneIsIdle
  <2>2. builder'[c] = [builder[c] EXCEPT !.alone = @ /\ builder[c].id # id]
    BY <1>1
  <2>3. builder'[c].alone = (builder[c].alone /\ builder[c].id # id)
    BY <2>1, <2>2, Zenon DEF Builder
  <2> QED
    BY <2>1, <2>2, <2>3 DEF Builder
<1>5. Planned'
  <2>1. builder'[b].left = rolled'[builds + 1]
    BY <1>1, <1>2 DEF StartBuild, TypeInv, TypeOK, Builds
  <2>2. \A c \in Builders \ {b} : builder'[c].pc # "idle" =>
          /\ builder'[c].n \in 1..builds'
          /\ builder'[c].pc \in {"positions", "full"} => builder'[c].left = rolled'[builder'[c].n]
    BY <1>2, <1>4 DEF DiskInv, Planned
  <2> QED
    BY <1>2, <1>3, <2>1, <2>2 DEF Planned
<1>6. AloneIsUndisturbed'
  <2>1. ASSUME builder'[b].alone
        PROVE  Undisturbed(b)'
    <3>1. \A c \in Builders \ {b} : builder'[c].id # id
      BY <1>3, <1>4, <2>1
    <3>2. Written(b)' = {}
      BY <1>3 DEF Written, WrittenAt
    <3> QED
      BY <1>2, <1>3, <3>1, <3>2 DEF Undisturbed
  <2>2. ASSUME NEW c \in Builders \ {b}, builder'[c].pc # "idle", builder'[c].alone
        PROVE  Undisturbed(c)'
    <3>1. Undisturbed(c) /\ builder[c].n \in 1..builds /\ builder[c].id # id
      BY <1>4, <2>2 DEF DiskInv, Planned, AloneIsUndisturbed
    <3>2. Written(c)' = Written(c)
      BY <1>2, <1>4, <3>1 DEF Written, WrittenAt
    <3>3. \A o \in Builders \ {c} : builder'[o].id # builder[c].id
      BY <1>3, <1>4, <3>1 DEF Undisturbed
    <3>4. builder[c].id \notin clean'
      BY <1>2, <3>1 DEF Undisturbed
    <3>5. \A a \in Written(c)' : files'[builder[c].id][a] = [n |-> builder[c].n, whole |-> TRUE]
      BY <1>2, <3>1, <3>2 DEF Undisturbed
    <3>6. builder'[c].open # None => files'[builder[c].id][builder'[c].open].n = builder[c].n
      BY <1>2, <1>4, <3>1 DEF Undisturbed
    <3>7. builder'[c].id = builder[c].id /\ builder'[c].n = builder[c].n
      BY <1>4
    <3> QED
      BY <3>3, <3>4, <3>5, <3>6, <3>7 DEF Undisturbed
  <2> QED
    BY <2>1, <2>2 DEF AloneIsUndisturbed
<1>7. CleanIsWhole'
  <2>1. ASSUME NEW i \in clean'
        PROVE  /\ record'[i] \in 1..builds'
               /\ WholeOnDisk(i, record[i])'
               /\ \A c \in Builders : builder'[c].id # i
    <3>1. i \in clean /\ i # id
      BY <1>2, <2>1
    <3>2. record[i] \in 1..builds /\ WholeOnDisk(i, record[i]) /\ \A c \in Builders : builder[c].id # i
      BY <3>1 DEF DiskInv, CleanIsWhole
    <3>3. WholeOnDisk(i, record[i])'
      BY <1>2, <3>2 DEF WholeOnDisk
    <3>4. \A c \in Builders : builder'[c].id # i
      BY <1>3, <1>4, <3>1, <3>2
    <3> QED
      BY <1>2, <3>2, <3>3, <3>4
  <2> QED
    BY <2>1 DEF CleanIsWhole
<1> QED
  BY <1>5, <1>6, <1>7 DEF DiskInv

\* A write under an id that is neither clean nor another undisturbed build's.
LEMMA WriteDisk ==
  ASSUME TypeInv, DiskInv, NEW b \in Builders, NEW a \in Artifacts, NEW w \in BOOLEAN,
         NEW r \in Builder, r.pc # "idle", r.id = builder[b].id, r.n = builder[b].n,
         r.alone = builder[b].alone, builder[b].pc # "idle",
         builder' = [builder EXCEPT ![b] = r],
         files' = [files EXCEPT ![builder[b].id][a] = [n |-> builder[b].n, whole |-> w]],
         builds' = builds, rolled' = rolled, record' = record, clean' = clean,
         r.pc \in {"positions", "full"} => r.left = rolled[r.n],
         \/ WrittenAt(r.pc, r.n, r.left) \subseteq Written(b) \ {a}
         \/ WrittenAt(r.pc, r.n, r.left) \subseteq Written(b) \cup {a} /\ (r.alone => w),
         r.open = None \/ r.open = a
  PROVE  DiskInv'
<1> USE Facts
<1>1. /\ builder[b] \in Builder /\ builder[b].id \in Ids /\ builder[b].n \in Builds
      /\ \A c \in Builders : builder'[c].id = builder[c].id /\ builder'[c].n = builder[c].n
                             /\ builder'[c].alone = builder[c].alone
      /\ \A c \in Builders \ {b} : builder'[c] = builder[c]
      /\ builder'[b] = r
  BY NoneIsIdle DEF TypeInv, TypeOK
<1>2. \A i \in Ids : i # builder[b].id => files'[i] = files[i]
  BY DEF TypeInv, TypeOK
<1>3. /\ files'[builder[b].id][a] = [n |-> builder[b].n, whole |-> w]
      /\ \A x \in Artifacts \ {a} : files'[builder[b].id][x] = files[builder[b].id][x]
  BY <1>1 DEF TypeInv, TypeOK
<1>4. Planned'
  <2>1. r.n \in 1..builds
    BY DEF DiskInv, Planned
  <2> QED
    BY <1>1, <2>1 DEF DiskInv, Planned
<1>5. AloneIsUndisturbed'
  <2>1. ASSUME builder'[b].alone
        PROVE  Undisturbed(b)'
    <3>1. Undisturbed(b)
      BY <1>1, <2>1 DEF DiskInv, AloneIsUndisturbed
    <3>2. /\ \A x \in Written(b)' : (x \in Written(b) /\ x # a) \/ (x = a /\ w)
          /\ r.open = None \/ r.open = a
      <4>1. Written(b)' = WrittenAt(r.pc, r.n, r.left)
        BY <1>1 DEF Written, WrittenAt
      <4> QED
        BY <1>1, <2>1, <4>1
    <3>3. Written(b) \subseteq Artifacts
      BY <1>1 DEF Written, WrittenAt, Artifacts, TypeInv, TypeOK
    <3>4. ASSUME NEW x \in Written(b)'
          PROVE  files'[builder[b].id][x] = [n |-> builder[b].n, whole |-> TRUE]
      <4>1. CASE x = a /\ w
        BY <1>3, <4>1
      <4>2. CASE x \in Written(b) /\ x # a
        BY <1>3, <3>1, <3>3, <4>2 DEF Undisturbed
      <4> QED
        BY <3>2, <4>1, <4>2
    <3>5. r.open # None => files'[builder[b].id][r.open].n = builder[b].n
      BY <1>3, <3>2
    <3>6. /\ builder'[b].id = builder[b].id /\ builder'[b].n = builder[b].n
          /\ builder'[b].open = r.open
      BY <1>1
    <3>7. /\ builder[b].id \notin clean'
          /\ \A c \in Builders \ {b} : builder'[c].id # builder[b].id
      BY <1>1, <3>1 DEF Undisturbed
    <3> QED
      BY <3>4, <3>5, <3>6, <3>7 DEF Undisturbed
  <2>2. ASSUME NEW c \in Builders \ {b}, builder'[c].pc # "idle", builder'[c].alone
        PROVE  Undisturbed(c)'
    <3>1. builder'[c] = builder[c] /\ builder[c].pc # "idle" /\ builder[c].alone
      BY <1>1, <2>2
    <3>2. Undisturbed(c)
      BY <3>1 DEF DiskInv, AloneIsUndisturbed
    <3>3. builder[c].id # builder[b].id /\ builder[c].id \in Ids
      BY <3>1, <3>2, NoneIsIdle DEF Undisturbed
    <3>4. files'[builder[c].id] = files[builder[c].id]
      BY <1>2, <3>3
    <3>5. Written(c)' = Written(c)
      BY <3>1 DEF Written, WrittenAt
    <3>6. /\ builder[c].id \notin clean'
          /\ \A o \in Builders \ {c} : builder'[o].id # builder[c].id
      BY <1>1, <3>2 DEF Undisturbed
    <3>7. \A x \in Written(c)' : files'[builder[c].id][x] = [n |-> builder[c].n, whole |-> TRUE]
      BY <3>2, <3>4, <3>5 DEF Undisturbed
    <3>8. builder'[c].open # None => files'[builder[c].id][builder'[c].open].n = builder[c].n
      BY <3>1, <3>2, <3>4 DEF Undisturbed
    <3> QED
      BY <3>1, <3>6, <3>7, <3>8 DEF Undisturbed
  <2> QED
    BY <2>1, <2>2 DEF AloneIsUndisturbed
<1>6. CleanIsWhole'
  <2>1. ASSUME NEW i \in clean
        PROVE  /\ record'[i] \in 1..builds'
               /\ WholeOnDisk(i, record[i])'
               /\ \A c \in Builders : builder'[c].id # i
    <3>1. /\ record[i] \in 1..builds /\ WholeOnDisk(i, record[i])
          /\ \A c \in Builders : builder[c].id # i
          /\ i \in Ids
      BY <2>1 DEF DiskInv, CleanIsWhole, TypeInv, TypeOK
    <3> QED
      BY <1>1, <1>2, <3>1 DEF WholeOnDisk
  <2> QED
    BY <2>1 DEF CleanIsWhole
<1> QED
  BY <1>4, <1>5, <1>6 DEF DiskInv

LEMMA WriteStepDisk ==
  ASSUME TypeInv, DiskInv, NEW b \in Builders, NEW a \in Artifacts, NEW there \in PCs \ {"idle"},
         NEW left \in SUBSET Dims, builder[b].pc # "idle", Write(b, a, there, left),
         there \in {"positions", "full"} => left = rolled[builder[b].n],
         a \notin Written(b),
         WrittenAt(there, builder[b].n, left) \subseteq Written(b) \cup {a}
  PROVE  DiskInv'
<1> USE Facts
<1>1. /\ builder[b] \in Builder /\ builder[b].id \in Ids /\ builder[b].n \in Builds
      /\ builder[b].pc \in PCs \ {"idle"} /\ builder[b].left \in SUBSET Dims
  BY NoneIsIdle DEF Builder
<1>2. CASE OpenFile(b, a)
  <2> DEFINE r == [builder[b] EXCEPT !.open = a]
  <2>1. /\ builder' = [builder EXCEPT ![b] = r]
        /\ files' = [files EXCEPT ![builder[b].id][a] = [n |-> builder[b].n, whole |-> FALSE]]
        /\ builds' = builds /\ rolled' = rolled /\ record' = record /\ clean' = clean
    BY <1>2 DEF OpenFile
  <2>2. /\ r \in Builder /\ r.pc = builder[b].pc /\ r.id = builder[b].id /\ r.n = builder[b].n
        /\ r.left = builder[b].left /\ r.open = a /\ r.alone = builder[b].alone
    BY <1>1 DEF Builder
  <2>3. WrittenAt(r.pc, r.n, r.left) \subseteq Written(b) \ {a}
    BY <2>2 DEF Written
  <2>4. r.pc \in {"positions", "full"} => r.left = rolled[r.n]
    BY <2>2 DEF DiskInv, Planned
  <2> HIDE DEF r
  <2> QED
    BY <2>1, <2>2, <2>3, <2>4, WriteDisk
<1>3. CASE Put(b, a, there, left)
  <2> DEFINE r == [builder[b] EXCEPT !.open = None, !.pc = there, !.left = left]
  <2>1. /\ builder' = [builder EXCEPT ![b] = r]
        /\ builds' = builds /\ rolled' = rolled /\ record' = record /\ clean' = clean
    BY <1>3 DEF Put
  <2>2. /\ r \in Builder /\ r.pc = there /\ r.id = builder[b].id /\ r.n = builder[b].n
        /\ r.left = left /\ r.open = None /\ r.alone = builder[b].alone
    BY <1>1 DEF Builder
  <2>3. PICK w \in BOOLEAN :
          /\ files' = [files EXCEPT ![builder[b].id][a] = [n |-> builder[b].n, whole |-> w]]
          /\ w <=> Store = "s3" \/ files[builder[b].id][a].n = builder[b].n
    BY <1>1, <1>3 DEF Put, TypeInv, TypeOK
  <2>4. builder[b].alone => w
    <3>1. CASE Store = "local"
      <4>1. builder[b].open = a /\ a # None
        BY <1>3, <3>1 DEF Put
      <4> QED
        BY <1>1, <2>3, <4>1 DEF DiskInv, AloneIsUndisturbed, Undisturbed
    <3> QED
      BY <2>3, <3>1, ServingAssumption
  <2>5. WrittenAt(r.pc, r.n, r.left) \subseteq Written(b) \cup {a} /\ (r.alone => w)
    BY <2>2, <2>4
  <2>6. r.pc \in {"positions", "full"} => r.left = rolled[r.n]
    BY <2>2
  <2> HIDE DEF r
  <2> QED
    BY <2>1, <2>2, <2>3, <2>5, <2>6, WriteDisk
<1> QED
  BY <1>2, <1>3 DEF Write

LEMMA BuildDisk ==
  ASSUME TypeInv, DiskInv, NEW b \in Builders, BuildStep(b)
  PROVE  DiskInv'
<1> USE Facts
<1>0. /\ builder[b] \in Builder
      /\ builder[b].left \in SUBSET Dims
      /\ builder[b].pc # "idle" => builder[b].id \in Ids /\ builder[b].n \in Builds
      /\ builder[b].n \in Builds => rolled[builder[b].n] \in SUBSET Dims
      /\ Dims \cap {"positions", "full", "manifest"} = {}
      /\ {"positions", "full", "manifest"} \subseteq Artifacts /\ Dims \subseteq Artifacts
      /\ {"full", "rollups", "timings", "register"} \subseteq PCs \ {"idle"}
  BY NoneIsIdle, ServingAssumption DEF TypeInv, TypeOK, Builder, Artifacts, PCs
<1>1. ASSUME NEW id \in Ids, StartBuild(b, id)
      PROVE  DiskInv'
  BY <1>1, StartBuildDisk
<1>2. CASE WritePositions(b)
  <2>1. builder[b].pc = "positions" /\ Write(b, "positions", "full", builder[b].left)
    BY <1>2 DEF WritePositions
  <2>2. Written(b) = {} /\ WrittenAt("full", builder[b].n, builder[b].left) = {"positions"}
    BY <2>1 DEF Written, WrittenAt
  <2>3. builder[b].left = rolled[builder[b].n]
    BY <2>1 DEF DiskInv, Planned
  <2> QED
    BY <1>0, <2>1, <2>2, <2>3, WriteStepDisk
<1>3. CASE WriteFull(b)
  <2>1. builder[b].pc = "full" /\ Write(b, "full", "rollups", builder[b].left)
    BY <1>3 DEF WriteFull
  <2>2. builder[b].left = rolled[builder[b].n]
    BY <2>1 DEF DiskInv, Planned
  <2>3. /\ Written(b) = {"positions"}
        /\ WrittenAt("rollups", builder[b].n, builder[b].left) = {"positions", "full"}
    BY <2>1, <2>2 DEF Written, WrittenAt
  <2> QED
    BY <1>0, <2>1, <2>3, WriteStepDisk
<1>4. CASE WriteRollups(b)
  <2>1. PICK d \in builder[b].left : Write(b, d, "rollups", builder[b].left \ {d})
    BY <1>4 DEF WriteRollups
  <2>2. builder[b].pc = "rollups" /\ d \in Dims /\ d \notin {"positions", "full"}
    BY <1>0, <1>4 DEF WriteRollups
  <2>3. Written(b) = {"positions", "full"} \cup (rolled[builder[b].n] \ builder[b].left)
    BY <2>2 DEF Written, WrittenAt
  <2>4. WrittenAt("rollups", builder[b].n, builder[b].left \ {d}) \subseteq Written(b) \cup {d}
    BY <2>3 DEF WrittenAt
  <2>5. d \notin Written(b)
    BY <2>2, <2>3
  <2>6. d \in Artifacts /\ builder[b].left \ {d} \in SUBSET Dims /\ "rollups" \in PCs \ {"idle"}
    BY <1>0, <2>2
  <2> QED
    BY <2>1, <2>2, <2>4, <2>5, <2>6, WriteStepDisk
<1>5. CASE WriteManifest(b)
  <2>1. CASE builder[b].pc = "rollups" /\ builder[b].left = {} /\ Write(b, "manifest", "timings", {})
    <3>1. Written(b) = {"positions", "full"} \cup rolled[builder[b].n]
      BY <2>1 DEF Written, WrittenAt
    <3>2. WrittenAt("timings", builder[b].n, {}) = Written(b)
      BY <3>1 DEF WrittenAt
    <3>3. "manifest" \notin Written(b)
      BY <1>0, <2>1, <3>1
    <3> QED
      BY <1>0, <2>1, <3>2, <3>3, WriteStepDisk
  <2>2. CASE builder[b].pc = "timings" /\ Write(b, "manifest", "register", {})
    <3>1. Written(b) = {"positions", "full"} \cup rolled[builder[b].n]
      BY <2>2 DEF Written, WrittenAt
    <3>2. WrittenAt("register", builder[b].n, {}) = Written(b) \cup {"manifest"}
      BY <3>1 DEF WrittenAt
    <3>3. "manifest" \notin Written(b)
      BY <1>0, <2>2, <3>1
    <3> QED
      BY <1>0, <2>2, <3>2, <3>3, WriteStepDisk
  <2> QED
    BY <1>5, <2>1, <2>2 DEF WriteManifest
<1>6. CASE Register(b) \/ Crash(b)
  <2>1. /\ builder[b].pc # "idle" /\ builder' = [builder EXCEPT ![b] = NoBuild]
        /\ builds' = builds /\ rolled' = rolled /\ files' = files
    BY <1>6 DEF Register, Crash
  <2>2. /\ \A c \in Builders \ {b} : builder'[c] = builder[c]
        /\ builder'[b].pc = "idle" /\ builder'[b].id = None
    BY <2>1 DEF TypeInv, TypeOK
  <2>3. /\ \A i \in Ids : i # builder[b].id => record'[i] = record[i]
        /\ clean \subseteq clean' /\ clean' \subseteq clean \cup {builder[b].id}
        /\ builder[b].id \in clean' \ clean =>
             /\ builder[b].pc = "register" /\ builder[b].alone
             /\ record'[builder[b].id] = builder[b].n
    BY <1>0, <1>6, <2>1 DEF Register, Crash, TypeInv, TypeOK
  <2>4. builder[b].id \notin clean
    BY <2>1 DEF DiskInv, CleanIsWhole
  <2>5. Planned'
    BY <2>1, <2>2 DEF DiskInv, Planned
  <2>6. AloneIsUndisturbed'
    <3>1. ASSUME NEW c \in Builders \ {b}, builder'[c].pc # "idle", builder'[c].alone
          PROVE  Undisturbed(c)'
      <4>1. builder'[c] = builder[c] /\ builder[c].pc # "idle" /\ builder[c].alone
        BY <2>2, <3>1
      <4>2. Undisturbed(c)
        BY <4>1 DEF DiskInv, AloneIsUndisturbed
      <4>3. builder[c].id # builder[b].id /\ builder[c].id \in Ids
        BY <4>1, <4>2, NoneIsIdle DEF Undisturbed
      <4>4. Written(c)' = Written(c)
        BY <2>1, <4>1 DEF Written, WrittenAt
      <4>5. /\ builder[c].id \notin clean'
            /\ \A o \in Builders \ {c} : builder'[o].id # builder[c].id
        BY <2>2, <2>3, <4>2, <4>3 DEF Undisturbed
      <4> QED
        BY <2>1, <4>1, <4>2, <4>4, <4>5 DEF Undisturbed
    <3> QED
      BY <2>2, <3>1 DEF AloneIsUndisturbed
  <2>7. CleanIsWhole'
    <3>1. ASSUME NEW i \in clean
          PROVE  /\ record'[i] \in 1..builds'
                 /\ WholeOnDisk(i, record[i])'
                 /\ \A c \in Builders : builder'[c].id # i
      <4>1. /\ record[i] \in 1..builds /\ WholeOnDisk(i, record[i])
            /\ \A c \in Builders : builder[c].id # i
            /\ i \in Ids
        BY <3>1 DEF DiskInv, CleanIsWhole, TypeInv, TypeOK
      <4>2. record'[i] = record[i]
        BY <2>3, <2>4, <4>1
      <4>3. WholeOnDisk(i, record[i])'
        BY <2>1, <4>1, <4>2 DEF WholeOnDisk
      <4>4. \A c \in Builders : builder'[c].id # i
        BY <2>2, <4>1
      <4> QED
        BY <2>1, <4>1, <4>2, <4>3, <4>4
    <3>2. ASSUME NEW i \in clean' \ clean
          PROVE  /\ record'[i] \in 1..builds'
                 /\ WholeOnDisk(i, record[i])'
                 /\ \A c \in Builders : builder'[c].id # i
      <4>1. /\ i = builder[b].id /\ i \in Ids /\ record'[i] = builder[b].n
            /\ builder[b].pc = "register" /\ builder[b].alone
        BY <1>0, <2>1, <2>3, <3>2
      <4>2. Undisturbed(b) /\ builder[b].n \in 1..builds
        BY <4>1 DEF DiskInv, AloneIsUndisturbed, Planned
      <4>3. Written(b) = {"positions", "full", "manifest"} \cup rolled[builder[b].n]
        BY <4>1 DEF Written, WrittenAt
      <4>4. WholeOnDisk(i, record[i])'
        BY <2>1, <4>1, <4>2, <4>3 DEF WholeOnDisk, Undisturbed
      <4>5. \A c \in Builders : builder'[c].id # i
        BY <2>2, <4>1, <4>2 DEF Undisturbed
      <4> QED
        BY <2>1, <4>1, <4>2, <4>4, <4>5
    <3> QED
      BY <3>1, <3>2 DEF CleanIsWhole
  <2> QED
    BY <2>5, <2>6, <2>7 DEF DiskInv
<1> QED
  BY <1>1, <1>2, <1>3, <1>4, <1>5, <1>6 DEF BuildStep

\* Requests read the store and leave it as it is.
LEMMA ServeReads ==
  ASSUME NEW t \in Threads, ServeStep(t)
  PROVE  UNCHANGED <<builds, rolled, files, record, builder, clean>>
BY DEF ServeStep, Ask, ReadManifest, ReadRollup, PutBatch, Query

LEMMA DiskStep == TypeInv /\ DiskInv /\ [Next]_vars => DiskInv'
<1>1. ASSUME TypeInv, DiskInv, NEW b \in Builders, BuildStep(b)
      PROVE  DiskInv'
  BY <1>1, BuildDisk
<1>2. ASSUME DiskInv, NEW t \in Threads, ServeStep(t)
      PROVE  DiskInv'
  BY <1>2, ServeReads, SameDisk
<1>3. ASSUME DiskInv, UNCHANGED vars
      PROVE  DiskInv'
  BY <1>3, SameDisk DEF vars
<1> QED
  BY <1>1, <1>2, <1>3 DEF Next

\* The batch a record describes is whole in the store after every build that
\* ended undisturbed, whatever earlier or unfinished builds left there.
THEOREM RecordIsWholeAlways == Spec => []RecordIsWhole
<1>1. Init => TypeInv /\ DiskInv
  BY InitTypes, Facts DEF Init, DiskInv, Planned, AloneIsUndisturbed, CleanIsWhole
<1>2. TypeInv /\ DiskInv /\ [Next]_vars => (TypeInv /\ DiskInv)'
  BY TypeStep, DiskStep
<1>3. TypeInv /\ DiskInv => RecordIsWhole
  BY DEF DiskInv, CleanIsWhole, RecordIsWhole, TypeInv, TypeOK
<1> QED
  BY <1>1, <1>2, <1>3, PTL DEF Spec

-----------------------------------------------------------------------------
(* What loaded batches and requests have of them.                          *)

\* A clean id's record, and what it names, stay until the id is built again.
LEMMA CleanStays ==
  ASSUME TypeInv, DiskInv, [Next]_vars, NEW i \in clean, i \in clean'
  PROVE  record'[i] = record[i] /\ rolled'[record[i]] = rolled[record[i]]
<1>1. /\ i \in Ids /\ record[i] \in 1..builds /\ builds \in 0..MaxBuilds
      /\ \A b \in Builders : builder[b].id # i
  BY DEF DiskInv, CleanIsWhole, TypeInv, TypeOK
<1>2. ASSUME NEW b \in Builders, NEW id \in Ids, StartBuild(b, id)
      PROVE  record'[i] = record[i] /\ rolled'[record[i]] = rolled[record[i]]
  BY <1>1, <1>2 DEF StartBuild, TypeInv, TypeOK, Builds
<1>3. ASSUME NEW b \in Builders,
             WritePositions(b) \/ WriteFull(b) \/ WriteRollups(b) \/ WriteManifest(b) \/ Crash(b)
      PROVE  record'[i] = record[i] /\ rolled'[record[i]] = rolled[record[i]]
  BY <1>3 DEF WritePositions, WriteFull, WriteRollups, WriteManifest, Crash, Write, OpenFile, Put
<1>4. ASSUME NEW b \in Builders, Register(b)
      PROVE  record'[i] = record[i] /\ rolled'[record[i]] = rolled[record[i]]
  BY <1>1, <1>4 DEF Register, TypeInv, TypeOK
<1>5. ASSUME NEW t \in Threads, ServeStep(t)
      PROVE  record'[i] = record[i] /\ rolled'[record[i]] = rolled[record[i]]
  BY <1>5, ServeReads
<1>6. CASE UNCHANGED vars
  BY <1>6 DEF vars
<1> QED
  BY <1>2, <1>3, <1>4, <1>5, <1>6 DEF Next, BuildStep

\* A build leaves requests and loaded batches alone, except that its start
\* makes its id unclean, not fresh, and the requests for it not quiet.
LEMMA BuildLeaves ==
  ASSUME TypeInv, NEW b \in Builders, BuildStep(b)
  PROVE  /\ cache' = cache /\ fresh' \subseteq fresh
         /\ \A t \in Threads : /\ thread'[t].quiet => thread[t].quiet
                               /\ thread'[t].id = thread[t].id
                               /\ thread'[t].pc = thread[t].pc
                               /\ thread'[t].batch = thread[t].batch
                               /\ thread'[t].left = thread[t].left
                               /\ thread'[t].answer = thread[t].answer
                               /\ thread'[t].source = thread[t].source
         /\ \A i \in clean : \/ i \in clean'
                             \/ /\ i \notin fresh'
                                /\ \A t \in Threads : thread[t].id = i => ~thread'[t].quiet
<1>1. ASSUME NEW id \in Ids, StartBuild(b, id)
      PROVE  /\ cache' = cache /\ fresh' = fresh \ {id} /\ clean' = clean \ {id}
             /\ \A t \in Threads : /\ thread'[t].quiet <=> thread[t].quiet /\ thread[t].id # id
                                   /\ thread'[t].id = thread[t].id
                                   /\ thread'[t].pc = thread[t].pc
                                   /\ thread'[t].batch = thread[t].batch
                                   /\ thread'[t].left = thread[t].left
                                   /\ thread'[t].answer = thread[t].answer
                                   /\ thread'[t].source = thread[t].source
  <2>1. ASSUME NEW t \in Threads
        PROVE  /\ thread'[t].quiet <=> thread[t].quiet /\ thread[t].id # id
               /\ thread'[t].id = thread[t].id
               /\ thread'[t].pc = thread[t].pc
               /\ thread'[t].batch = thread[t].batch
               /\ thread'[t].left = thread[t].left
               /\ thread'[t].answer = thread[t].answer
               /\ thread'[t].source = thread[t].source
    <3>1. /\ thread[t] \in Thread
          /\ thread'[t] = [thread[t] EXCEPT !.quiet = @ /\ thread[t].id # id]
      BY <1>1 DEF StartBuild, TypeInv, TypeOK
    <3>2. thread'[t].quiet = (thread[t].quiet /\ thread[t].id # id)
      BY <3>1, Zenon DEF Thread
    <3> QED
      BY <3>1, <3>2 DEF Thread
  <2> QED
    BY <1>1, <2>1 DEF StartBuild
<1>2. CASE WritePositions(b) \/ WriteFull(b) \/ WriteRollups(b) \/ WriteManifest(b) \/ Register(b) \/ Crash(b)
  <2>1. cache' = cache /\ fresh' = fresh /\ thread' = thread /\ clean \subseteq clean'
    BY <1>2 DEF WritePositions, WriteFull, WriteRollups, WriteManifest, Write, OpenFile, Put,
                Register, Crash, server
  <2> QED
    BY <2>1
<1> QED
  BY <1>1, <1>2 DEF BuildStep

LEMMA BuildServe ==
  ASSUME TypeInv, DiskInv, ServeInv, NEW b \in Builders, BuildStep(b)
  PROVE  ServeInv'
<1>0. [Next]_vars
  BY DEF Next
<1>1. FreshIsRecorded'
  <2>1. ASSUME NEW i \in fresh'
        PROVE  /\ i \in clean' /\ cache'[i].n = record'[i]
               /\ cache'[i].rollups = RollupsOf(record'[i], rolled'[record'[i]])
    <3>1. /\ i \in clean /\ i \in clean' /\ cache'[i] = cache[i]
          /\ cache[i].n = record[i]
          /\ cache[i].rollups = RollupsOf(record[i], rolled[record[i]])
      BY <2>1, BuildLeaves DEF ServeInv, FreshIsRecorded
    <3>2. record'[i] = record[i] /\ rolled'[record[i]] = rolled[record[i]]
      BY <1>0, <3>1, CleanStays
    <3> QED
      BY <3>1, <3>2
  <2> QED
    BY <2>1 DEF FreshIsRecorded, RollupsOf
<1>2. QuietIsUndelayed'
  <2>1. ASSUME NEW t \in Threads, thread'[t].quiet
        PROVE  Undelayed(t)'
    <3>1. /\ thread[t].quiet /\ Undelayed(t) /\ thread'[t].id = thread[t].id
          /\ thread[t].id \in clean /\ thread[t].id \in clean'
      BY <2>1, BuildLeaves DEF ServeInv, QuietIsUndelayed, Undelayed
    <3>2. /\ record'[thread[t].id] = record[thread[t].id]
          /\ rolled'[record[thread[t].id]] = rolled[record[thread[t].id]]
      BY <1>0, <3>1, CleanStays
    <3>3. /\ thread'[t].pc = thread[t].pc /\ thread'[t].batch = thread[t].batch
          /\ thread'[t].left = thread[t].left /\ thread'[t].answer = thread[t].answer
          /\ thread'[t].source = thread[t].source
      BY BuildLeaves
    <3> QED
      BY <3>1, <3>2, <3>3 DEF Undelayed, RollupsOf
  <2> QED
    BY <2>1 DEF QuietIsUndelayed
<1> QED
  BY <1>1, <1>2 DEF ServeInv

\* A request that becomes undelayed, or not quiet, keeps the others as they are.
LEMMA OneThread ==
  ASSUME TypeInv, QuietIsUndelayed, NEW t \in Threads, NEW r \in Thread,
         thread' = [thread EXCEPT ![t] = r],
         record' = record, rolled' = rolled, clean' = clean,
         r.quiet => Undelayed(t)'
  PROVE  QuietIsUndelayed'
<1>1. thread'[t] = r /\ \A u \in Threads \ {t} : thread'[u] = thread[u]
  BY DEF TypeInv, TypeOK
<1>2. ASSUME NEW u \in Threads \ {t}, thread'[u].quiet
      PROVE  Undelayed(u)'
  <2>1. thread'[u] = thread[u] /\ Undelayed(u)
    BY <1>1, <1>2 DEF QuietIsUndelayed
  <2> QED
    BY <2>1 DEF Undelayed, RollupsOf
<1> QED
  BY <1>1, <1>2 DEF QuietIsUndelayed

LEMMA SameFresh ==
  ASSUME FreshIsRecorded, cache' = cache, fresh' = fresh, record' = record, rolled' = rolled,
         clean' = clean
  PROVE  FreshIsRecorded'
BY DEF FreshIsRecorded, RollupsOf

LEMMA AskServe ==
  ASSUME TypeInv, DiskInv, ServeInv, NEW t \in Threads, NEW id \in Ids, Ask(t, id)
  PROVE  ServeInv'
<1> USE Facts
<1>1. /\ cache' = cache /\ fresh' = fresh /\ record' = record /\ rolled' = rolled /\ clean' = clean
      /\ cache[id] \in Loaded /\ NoAsk.answer = "none"
  BY DEF Ask, TypeInv, TypeOK, NoAsk
<1>2. FreshIsRecorded'
  BY <1>1, SameFresh DEF ServeInv
<1>3. CASE cache[id].n > 0
  <2> DEFINE r == [NoAsk EXCEPT !.pc = "query", !.id = id, !.batch = cache[id], !.quiet = id \in fresh]
  <2>1. /\ r \in Thread /\ r.id = id /\ r.pc = "query" /\ r.batch = cache[id] /\ r.answer = "none"
        /\ r.quiet <=> id \in fresh
    <3>1. \A q \in BOOLEAN :
            LET x == [NoAsk EXCEPT !.pc = "query", !.id = id, !.batch = cache[id], !.quiet = q]
            IN  /\ x \in Thread /\ x.id = id /\ x.pc = "query" /\ x.batch = cache[id]
                /\ x.answer = "none" /\ x.quiet = q
      BY <1>1 DEF Thread
    <3>2. (id \in fresh) \in BOOLEAN
      OBVIOUS
    <3> QED
      BY <3>1, <3>2, Zenon
  <2>2. thread' = [thread EXCEPT ![t] = r]
    BY <1>3 DEF Ask
  <2> HIDE DEF r
  <2>3. ASSUME r.quiet
        PROVE  Undelayed(t)'
    <3>1. thread'[t] = r /\ id \in fresh
      BY <2>1, <2>2, <2>3 DEF TypeInv, TypeOK
    <3>2. /\ id \in clean /\ cache[id].n = record[id]
          /\ cache[id].rollups = RollupsOf(record[id], rolled[record[id]])
      BY <3>1 DEF ServeInv, FreshIsRecorded
    <3> QED
      BY <1>1, <2>1, <3>1, <3>2 DEF Undelayed, RollupsOf
  <2> QED
    BY <1>1, <1>2, <2>1, <2>2, <2>3, OneThread DEF ServeInv
<1>4. CASE ~(cache[id].n > 0)
  <2> DEFINE r == [NoAsk EXCEPT !.pc = "manifest", !.id = id, !.quiet = id \in clean]
  <2>1. /\ r \in Thread /\ r.id = id /\ r.pc = "manifest" /\ r.answer = "none"
        /\ r.quiet <=> id \in clean
    <3>1. \A q \in BOOLEAN :
            LET x == [NoAsk EXCEPT !.pc = "manifest", !.id = id, !.quiet = q]
            IN  /\ x \in Thread /\ x.id = id /\ x.pc = "manifest"
                /\ x.answer = "none" /\ x.quiet = q
      BY <1>1 DEF Thread
    <3>2. (id \in clean) \in BOOLEAN
      OBVIOUS
    <3> QED
      BY <3>1, <3>2, Zenon
  <2>2. thread' = [thread EXCEPT ![t] = r]
    BY <1>4 DEF Ask
  <2> HIDE DEF r
  <2>3. ASSUME r.quiet
        PROVE  Undelayed(t)'
    <3>1. thread'[t] = r
      BY <2>2 DEF TypeInv, TypeOK
    <3> QED
      BY <1>1, <2>1, <2>3, <3>1 DEF Undelayed
  <2> QED
    BY <1>1, <1>2, <2>1, <2>2, <2>3, OneThread DEF ServeInv
<1> QED
  BY <1>3, <1>4

\* An answer keeps it all if, for a quiet request, it is the record's rows.
LEMMA ReplyServe ==
  ASSUME TypeInv, QuietIsUndelayed, NEW t \in Threads, NEW kind \in Answers,
         NEW source \in 0..MaxBuilds, Reply(t, kind, source),
         record' = record, rolled' = rolled, clean' = clean,
         thread[t].quiet => kind = "rows" /\ source = record[thread[t].id]
  PROVE  QuietIsUndelayed'
<1> DEFINE r == [thread[t] EXCEPT !.pc = "idle", !.answer = kind, !.source = source]
<1>1. /\ r \in Thread /\ thread' = [thread EXCEPT ![t] = r] /\ thread'[t] = r
      /\ r.pc = "idle" /\ r.id = thread[t].id /\ r.quiet = thread[t].quiet
      /\ r.answer = kind /\ r.source = source
  <2>1. thread[t] \in Thread
    BY DEF TypeInv, TypeOK
  <2>2. /\ r \in Thread /\ r.pc = "idle" /\ r.id = thread[t].id /\ r.quiet = thread[t].quiet
        /\ r.answer = kind /\ r.source = source
    BY <2>1 DEF Thread
  <2>3. thread' = [thread EXCEPT ![t] = r]
    BY DEF Reply
  <2> QED
    BY <2>2, <2>3 DEF TypeInv, TypeOK
<1> HIDE DEF r
<1>2. ASSUME r.quiet
      PROVE  Undelayed(t)'
  <2>1. thread[t].quiet /\ thread[t].id \in clean
    BY <1>1, <1>2 DEF QuietIsUndelayed, Undelayed
  <2> QED
    BY <1>1, <2>1 DEF Undelayed
<1> QED
  BY <1>1, <1>2, OneThread

LEMMA ManifestServe ==
  ASSUME TypeInv, DiskInv, ServeInv, NEW t \in Threads, ReadManifest(t)
  PROVE  ServeInv'
<1> USE Facts
<1> DEFINE f == files[thread[t].id]["manifest"]
<1>1. /\ cache' = cache /\ fresh' = fresh /\ record' = record /\ rolled' = rolled /\ clean' = clean
      /\ thread[t] \in Thread /\ thread[t].pc = "manifest" /\ thread[t].id \in Ids
      /\ "manifest" \in Artifacts /\ {"404", "500"} \subseteq Answers
  BY DEF ReadManifest, server, TypeInv, TypeOK, Named, Artifacts, Answers
<1>2. FreshIsRecorded'
  BY <1>1, SameFresh DEF ServeInv
<1>3. f.whole => f.n \in Builds
  BY <1>1 DEF TypeInv, Named
<1>4. thread[t].quiet =>
        /\ Undelayed(t) /\ thread[t].id \in clean
        /\ f = [n |-> record[thread[t].id], whole |-> TRUE]
  BY DEF ServeInv, QuietIsUndelayed, Undelayed, DiskInv, CleanIsWhole, WholeOnDisk
<1>5. CASE f.whole
  <2> DEFINE r == [thread[t] EXCEPT !.pc = "rollups", !.batch = [NotLoaded EXCEPT !.n = f.n], !.left = rolled[f.n]]
  <2>1. /\ [NotLoaded EXCEPT !.n = f.n] \in Loaded /\ rolled[f.n] \in SUBSET Dims
        /\ [NotLoaded EXCEPT !.n = f.n].n = f.n
        /\ [NotLoaded EXCEPT !.n = f.n].rollups = [d \in Dims |-> 0]
    BY <1>3, <1>5 DEF TypeInv, TypeOK, Loaded, NotLoaded
  <2>2. /\ r \in Thread /\ r.id = thread[t].id /\ r.pc = "rollups"
        /\ r.batch.n = f.n /\ r.batch.rollups = [d \in Dims |-> 0] /\ r.left = rolled[f.n]
        /\ r.quiet = thread[t].quiet /\ r.answer = thread[t].answer /\ r.source = thread[t].source
    BY <1>1, <2>1 DEF Thread
  <2>3. thread' = [thread EXCEPT ![t] = r]
    BY <1>5 DEF ReadManifest
  <2> HIDE DEF r
  <2>4. ASSUME r.quiet
        PROVE  Undelayed(t)'
    <3>1. thread'[t] = r
      BY <2>3 DEF TypeInv, TypeOK
    <3>2. /\ Undelayed(t) /\ thread[t].id \in clean /\ f.n = record[thread[t].id]
      BY <1>4, <2>2, <2>4
    <3>3. RollupsOf(f.n, rolled[f.n] \ r.left) = [d \in Dims |-> 0]
      BY <2>2 DEF RollupsOf
    <3> QED
      BY <1>1, <2>2, <3>1, <3>2, <3>3 DEF Undelayed, RollupsOf
  <2> QED
    BY <1>1, <1>2, <2>2, <2>3, <2>4, OneThread DEF ServeInv
<1>6. CASE ~f.whole
  <2>1. PICK kind \in Answers : Reply(t, kind, 0)
    BY <1>1, <1>6 DEF ReadManifest
  <2>2. ~thread[t].quiet
    BY <1>4, <1>6
  <2> QED
    BY <1>1, <1>2, <2>1, <2>2, ReplyServe DEF ServeInv
<1> QED
  BY <1>5, <1>6

LEMMA RollupServe ==
  ASSUME TypeInv, DiskInv, ServeInv, NEW t \in Threads, ReadRollup(t)
  PROVE  ServeInv'
<1> USE Facts
<1>1. /\ cache' = cache /\ fresh' = fresh /\ record' = record /\ rolled' = rolled /\ clean' = clean
      /\ thread[t] \in Thread /\ thread[t].pc = "rollups" /\ thread[t].id \in Ids
      /\ "500" \in Answers /\ Dims \subseteq Artifacts
  BY DEF ReadRollup, server, TypeInv, TypeOK, Named, Artifacts, Answers
<1>2. FreshIsRecorded'
  BY <1>1, SameFresh DEF ServeInv
<1>3. PICK d \in thread[t].left :
        IF Exists(thread[t].id, d) /\ ~files[thread[t].id][d].whole
        THEN Reply(t, "500", 0)
        ELSE thread' = [thread EXCEPT ![t].left = @ \ {d}, ![t].batch.rollups[d] = files[thread[t].id][d].n]
  BY DEF ReadRollup
<1> DEFINE n == record[thread[t].id]
           f == files[thread[t].id][d]
<1>4. d \in Dims /\ d \in Artifacts /\ f.n \in 0..MaxBuilds
  BY <1>1 DEF Thread, TypeInv, TypeOK, Content
<1>5. thread[t].quiet =>
        /\ thread[t].id \in clean /\ f = [n |-> n, whole |-> TRUE]
        /\ thread[t].batch.n = n /\ thread[t].left \subseteq rolled[n]
        /\ thread[t].batch.rollups = RollupsOf(n, rolled[n] \ thread[t].left)
        /\ thread[t].answer # "none" => thread[t].answer = "rows" /\ thread[t].source = n
  <2>1. ASSUME thread[t].quiet
        PROVE  Undelayed(t) /\ WholeOnDisk(thread[t].id, n) /\ d \in rolled[n]
    BY <1>1, <2>1 DEF ServeInv, QuietIsUndelayed, Undelayed, DiskInv, CleanIsWhole
  <2> QED
    BY <1>1, <2>1 DEF Undelayed, WholeOnDisk
<1>6. CASE Reply(t, "500", 0) /\ ~f.whole
  <2>1. ~thread[t].quiet
    BY <1>5, <1>6
  <2> QED
    BY <1>1, <1>2, <1>6, <2>1, ReplyServe DEF ServeInv
<1>7. CASE thread' = [thread EXCEPT ![t].left = @ \ {d}, ![t].batch.rollups[d] = f.n]
  <2> DEFINE batch == [thread[t].batch EXCEPT !.rollups[d] = f.n]
             r == [thread[t] EXCEPT !.left = @ \ {d}, !.batch = batch]
  <2>1. /\ batch \in Loaded /\ batch.n = thread[t].batch.n
        /\ batch.rollups = [thread[t].batch.rollups EXCEPT ![d] = f.n]
        /\ thread[t].batch.rollups \in [Dims -> 0..MaxBuilds]
    BY <1>1, <1>4 DEF Thread, Loaded
  <2> HIDE DEF batch
  <2>2. /\ r \in Thread /\ r.id = thread[t].id /\ r.pc = "rollups" /\ r.batch = batch
        /\ r.left = thread[t].left \ {d} /\ r.quiet = thread[t].quiet
        /\ r.answer = thread[t].answer /\ r.source = thread[t].source
    BY <1>1, <2>1 DEF Thread
  <2>3. thread' = [thread EXCEPT ![t] = r]
    BY <1>7 DEF batch
  <2> HIDE DEF r
  <2>4. ASSUME r.quiet
        PROVE  Undelayed(t)'
    <3>1. thread'[t] = r
      BY <2>3 DEF TypeInv, TypeOK
    <3>2. /\ thread[t].id \in clean /\ f.n = n
          /\ thread[t].batch.n = n /\ thread[t].left \subseteq rolled[n]
          /\ thread[t].batch.rollups = RollupsOf(n, rolled[n] \ thread[t].left)
          /\ thread[t].answer # "none" => thread[t].answer = "rows" /\ thread[t].source = n
      BY <1>5, <2>2, <2>4
    <3>3. batch.rollups = RollupsOf(n, rolled[n] \ r.left)
      <4>1. RollupsOf(n, rolled[n] \ r.left)
              = [e \in Dims |-> IF e \in rolled[n] \ (thread[t].left \ {d}) THEN n ELSE 0]
        BY <2>2 DEF RollupsOf
      <4>2. batch.rollups = [e \in Dims |-> IF e = d THEN n ELSE thread[t].batch.rollups[e]]
        BY <1>4, <2>1, <3>2
      <4>3. \A e \in Dims : thread[t].batch.rollups[e] = IF e \in rolled[n] \ thread[t].left THEN n ELSE 0
        BY <3>2 DEF RollupsOf
      <4>4. d \in rolled[n]
        BY <3>2
      <4> QED
        BY <4>1, <4>2, <4>3, <4>4
    <3> QED
      BY <1>1, <2>1, <2>2, <3>1, <3>2, <3>3 DEF Undelayed, RollupsOf
  <2> QED
    BY <1>1, <1>2, <2>2, <2>3, <2>4, OneThread DEF ServeInv
<1> QED
  BY <1>3, <1>6, <1>7

LEMMA PutServe ==
  ASSUME TypeInv, DiskInv, ServeInv, NEW t \in Threads, PutBatch(t)
  PROVE  ServeInv'
<1> USE Facts
<1> DEFINE id == thread[t].id
           n  == record[id]
           r  == [thread[t] EXCEPT !.pc = "query"]
<1>1. /\ record' = record /\ rolled' = rolled /\ clean' = clean
      /\ thread[t] \in Thread /\ thread[t].pc = "rollups" /\ thread[t].left = {} /\ id \in Ids
      /\ thread' = [thread EXCEPT ![t] = r]
  BY DEF PutBatch, TypeInv, TypeOK, Named
<1>2. PICK gone :
        /\ cache' = [i \in Ids |-> IF i \in gone THEN NotLoaded
                                   ELSE IF i = id THEN thread[t].batch ELSE cache[i]]
        /\ fresh' = (IF thread[t].quiet THEN fresh \cup {id} ELSE fresh \ {id}) \ gone
  BY DEF PutBatch
<1>3. thread[t].quiet =>
        /\ id \in clean /\ thread[t].batch.n = n
        /\ thread[t].batch.rollups = RollupsOf(n, rolled[n])
        /\ thread[t].answer # "none" => thread[t].answer = "rows" /\ thread[t].source = n
  <2>1. rolled[n] \ {} = rolled[n]
    OBVIOUS
  <2> QED
    BY <1>1, <2>1 DEF ServeInv, QuietIsUndelayed, Undelayed
<1>4. FreshIsRecorded'
  <2>1. ASSUME NEW i \in fresh'
        PROVE  /\ i \in clean' /\ cache'[i].n = record'[i]
               /\ cache'[i].rollups = RollupsOf(record[i], rolled[record[i]])
    <3>1. i \notin gone /\ i \in Ids
      BY <1>1, <1>2, <2>1 DEF TypeInv, TypeOK
    <3>2. CASE i = id
      <4>1. thread[t].quiet
        BY <1>2, <2>1, <3>2
      <4>2. cache'[i] = thread[t].batch
        BY <1>2, <3>1, <3>2
      <4> QED
        BY <1>1, <1>3, <3>2, <4>1, <4>2
    <3>3. CASE i # id
      <4>1. i \in fresh
        BY <1>2, <2>1, <3>3
      <4>2. cache'[i] = cache[i]
        BY <1>2, <3>1, <3>3
      <4> QED
        BY <1>1, <4>1, <4>2 DEF ServeInv, FreshIsRecorded
    <3> QED
      BY <3>2, <3>3
  <2> QED
    BY <1>1, <2>1 DEF FreshIsRecorded, RollupsOf
<1>5. /\ r \in Thread /\ r.id = id /\ r.pc = "query" /\ r.batch = thread[t].batch
      /\ r.quiet = thread[t].quiet /\ r.answer = thread[t].answer /\ r.source = thread[t].source
  BY <1>1 DEF Thread
<1>6. ASSUME r.quiet
      PROVE  Undelayed(t)'
  <2> HIDE DEF r
  <2>1. thread'[t] = r
    BY <1>1 DEF TypeInv, TypeOK
  <2> QED
    BY <1>1, <1>3, <1>5, <1>6, <2>1 DEF Undelayed, RollupsOf
<1>7. QuietIsUndelayed'
  <2> HIDE DEF r
  <2> QED
    BY <1>1, <1>5, <1>6, OneThread DEF ServeInv
<1> QED
  BY <1>4, <1>7 DEF ServeInv

LEMMA QueryServe ==
  ASSUME TypeInv, DiskInv, ServeInv, NEW t \in Threads, NEW d \in Dims, Query(t, d)
  PROVE  ServeInv'
<1> USE Facts
<1> DEFINE n    == record[thread[t].id]
           full == files[thread[t].id]["full"]
           roll == thread[t].batch.rollups[d]
<1>1. /\ cache' = cache /\ fresh' = fresh /\ record' = record /\ rolled' = rolled /\ clean' = clean
      /\ thread[t] \in Thread /\ thread[t].pc = "query" /\ thread[t].id \in Ids
      /\ "full" \in Artifacts /\ {"rows", "500"} \subseteq Answers
  BY DEF Query, server, TypeInv, TypeOK, Named, Artifacts, Answers
<1>2. roll \in 0..MaxBuilds /\ full.n \in 0..MaxBuilds
  BY <1>1 DEF Thread, Loaded, TypeInv, TypeOK, Content
<1>3. thread[t].quiet => full = [n |-> n, whole |-> TRUE] /\ roll \in {0, n}
  <2>1. ASSUME thread[t].quiet
        PROVE  /\ thread[t].batch.rollups = RollupsOf(n, rolled[n])
               /\ WholeOnDisk(thread[t].id, n)
    BY <1>1, <2>1 DEF ServeInv, QuietIsUndelayed, Undelayed, DiskInv, CleanIsWhole
  <2>2. RollupsOf(n, rolled[n])[d] \in {0, n}
    BY DEF RollupsOf
  <2> QED
    BY <2>1, <2>2 DEF WholeOnDisk
<1>4. \/ Reply(t, "rows", roll) /\ roll > 0
      \/ Reply(t, "rows", full.n) /\ full.whole
      \/ Reply(t, "500", 0) /\ ~full.whole
  BY DEF Query
<1>5. PICK kind \in Answers, source \in 0..MaxBuilds :
        /\ Reply(t, kind, source)
        /\ thread[t].quiet => kind = "rows" /\ source = n
  BY <1>1, <1>2, <1>3, <1>4
<1> QED
  BY <1>1, <1>5, SameFresh, ReplyServe DEF ServeInv

LEMMA ServeStepInv == TypeInv /\ DiskInv /\ ServeInv /\ [Next]_vars => ServeInv'
<1> SUFFICES ASSUME TypeInv, DiskInv, ServeInv, [Next]_vars
             PROVE  ServeInv'
  OBVIOUS
<1>1. ASSUME NEW b \in Builders, BuildStep(b)
      PROVE  ServeInv'
  BY <1>1, BuildServe
<1>2. ASSUME NEW t \in Threads, ServeStep(t)
      PROVE  ServeInv'
  BY <1>2, AskServe, ManifestServe, RollupServe, PutServe, QueryServe DEF ServeStep
<1>3. CASE UNCHANGED vars
  BY <1>3 DEF vars, server, ServeInv, FreshIsRecorded, QuietIsUndelayed, Undelayed, RollupsOf
<1> QED
  BY <1>1, <1>2, <1>3 DEF Next

\* The three invariants hold together from the start on.
LEMMA ServedRight == Spec => [](TypeInv /\ DiskInv /\ ServeInv)
<1>1. Init => TypeInv /\ DiskInv /\ ServeInv
  <2>1. Init => DiskInv
    BY Facts DEF Init, DiskInv, Planned, AloneIsUndisturbed, CleanIsWhole
  <2>2. Init => ServeInv
    BY DEF Init, ServeInv, FreshIsRecorded, QuietIsUndelayed, NoAsk
  <2> QED
    BY <2>1, <2>2, InitTypes
<1>2. TypeInv /\ DiskInv /\ ServeInv /\ [Next]_vars => (TypeInv /\ DiskInv /\ ServeInv)'
  BY TypeStep, DiskStep, ServeStepInv
<1> QED
  BY <1>1, <1>2, PTL DEF Spec

\* A batch loaded undisturbed is one build's in every tier until its id is
\* built again.
THEOREM SnapshotIfQuietAlways == Spec => []SnapshotIfQuiet
<1>1. TypeInv /\ DiskInv /\ ServeInv => SnapshotIfQuiet
  <2> SUFFICES ASSUME DiskInv, ServeInv, NEW id \in fresh
               PROVE  /\ cache[id].n = record[id]
                      /\ WholeOnDisk(id, cache[id].n)
                      /\ cache[id].rollups = RollupsOf(cache[id].n, rolled[cache[id].n])
    BY DEF SnapshotIfQuiet, RollupsOf
  <2> QED
    BY DEF DiskInv, CleanIsWhole, ServeInv, FreshIsRecorded
<1> QED
  BY <1>1, ServedRight, PTL

\* A request nobody builds under is answered, and with the registered build.
THEOREM QuietIsServedAlways == Spec => []QuietIsServed
<1>1. TypeInv /\ DiskInv /\ ServeInv => QuietIsServed
  BY DEF ServeInv, QuietIsUndelayed, Undelayed, QuietIsServed
<1> QED
  BY <1>1, ServedRight, PTL
=============================================================================
