--------------------------- MODULE AggregateCache ---------------------------
(***************************************************************************)
(* The aggregate cache of a loaded batch (src/risk/batch.py) under the     *)
(* thread pool that serves POST /api/grid/rows (src/api/main.py).          *)
(*                                                                         *)
(* A grid request reads one level of the pivot tree with Batch.aggregate   *)
(* and then, when the client asks for them, the grand totals with          *)
(* Batch.totals, which reads the root level through Batch.aggregate again. *)
(* Every access to the cache is under Batch._lock; the aggregation itself  *)
(* runs outside it, so two requests can compute the same level at once.    *)
(*                                                                         *)
(* An aggregate is abstracted to the number of the computation that        *)
(* produced it: the source's point is that two computations of one         *)
(* aggregate need not agree (src/risk/aggregate.py, cache_key).            *)
(***************************************************************************)
EXTENDS Integers, Sequences, FiniteSets, Functions

CONSTANTS
  Threads,      \* request threads of the API process
  NoThread,     \* nobody holds Batch._lock
  Keys,         \* cache keys: one per aggregate that can be asked for
  RootOf,       \* RootOf[k]: key of the root level totals_request(k) asks for
  Rollups,      \* keys _from_rollup serves without the cache
  SizeOf,       \* SizeOf[k]: estimated_size() of the aggregate
  Budget,       \* Batch.aggregate_budget
  MaxRequests   \* bound: grid requests in one behaviour

ASSUME CacheAssumption ==
  /\ NoThread \notin Threads
  /\ RootOf \in [Keys -> Keys]
  /\ \A k \in Keys : RootOf[RootOf[k]] = RootOf[k]
  /\ Rollups \subseteq Keys
  /\ \A k \in Rollups : RootOf[k] = k    \* a rollup is unfiltered and undrilled
  /\ SizeOf \in [Keys -> Nat]
  /\ Budget \in Nat
  /\ MaxRequests \in Nat

VARIABLES
  order,      \* keys of _aggregates, least recently used first
  held,       \* held[k]: computation whose result _aggregates[k] holds
  bytes,      \* Batch._bytes
  lock,       \* holder of Batch._lock
  pc,         \* where each thread is in aggregate()
  asked,      \* asked[t]: cache key of the level the request displays
  stage,      \* "rows" while grid_rows is in aggregate, "totals" in totals
  inHand,     \* inHand[t]: computation whose result the thread is holding
  shown,      \* shown[t]: computation the rows of the response came from
  totalled,   \* totalled[t]: computation the totals came from
  computed,   \* number of computations so far
  requests,   \* number of requests so far
  spoiled     \* history: what t showed is not what the cache has kept since

cacheVars  == <<order, held, bytes>>
threadVars == <<pc, asked, stage, inHand, shown, totalled>>
vars == <<order, held, bytes, lock, pc, asked, stage, inHand, shown, totalled,
          computed, requests, spoiled>>

\* Identity of an aggregate nobody computed while serving: a rollup of the file.
FromRollup == 0

PCs == {"idle", "lookup", "compute", "store", "evict", "present"}

Cached == Range(order)

\* The key aggregate() is working on: the request's own, or its root's.
KeyOf(t) == IF stage[t] = "rows" THEN asked[t] ELSE RootOf[asked[t]]

\* The bytes a set of keys takes, as the size of the disjoint union of their
\* bytes: a sum written so that it can be reasoned about.
Cells(K)   == UNION {{k} \X (1..SizeOf[k]) : k \in K}
BytesOf(K) == Cardinality(Cells(K))

\* OrderedDict.move_to_end.
MoveToEnd(s, k) ==
  LET i == CHOOSE i \in 1..Len(s) : s[i] = k
  IN  [j \in 1..Len(s) |-> IF j < i THEN s[j]
                           ELSE IF j < Len(s) THEN s[j + 1] ELSE k]

Goto(t, there) == pc' = [pc EXCEPT ![t] = there]

-----------------------------------------------------------------------------
Init ==
  /\ order = <<>>
  /\ held = [k \in Keys |-> FromRollup]
  /\ bytes = 0
  /\ lock = NoThread
  /\ pc = [t \in Threads |-> "idle"]
  /\ asked \in [Threads -> Keys]
  /\ stage = [t \in Threads |-> "rows"]
  /\ inHand = [t \in Threads |-> FromRollup]
  /\ shown = [t \in Threads |-> FromRollup]
  /\ totalled = [t \in Threads |-> FromRollup]
  /\ computed = 0
  /\ requests = 0
  /\ spoiled = [t \in Threads |-> FALSE]

\* grid_rows builds the PivotRequest and calls batch.aggregate(pivot).
Begin(t, k) ==
  /\ pc[t] = "idle"
  /\ requests < MaxRequests
  /\ requests' = requests + 1
  /\ Goto(t, "lookup")
  /\ asked' = [asked EXCEPT ![t] = k]
  /\ stage' = [stage EXCEPT ![t] = "rows"]
  /\ spoiled' = [spoiled EXCEPT ![t] = FALSE]
  /\ UNCHANGED <<cacheVars, lock, inHand, shown, totalled, computed>>

\* _from_rollup has the answer: no cache, no lock.
ServeFromRollup(t) ==
  /\ pc[t] = "lookup"
  /\ KeyOf(t) \in Rollups
  /\ inHand' = [inHand EXCEPT ![t] = FromRollup]
  /\ Goto(t, "present")
  /\ UNCHANGED <<cacheVars, lock, asked, stage, shown, totalled, computed,
                 requests, spoiled>>

\* The cache has the key: refresh its recency and keep the entry.
Hit(t) ==
  /\ pc[t] = "lookup"
  /\ KeyOf(t) \notin Rollups
  /\ lock = NoThread
  /\ KeyOf(t) \in Cached
  /\ order' = MoveToEnd(order, KeyOf(t))
  /\ inHand' = [inHand EXCEPT ![t] = held[KeyOf(t)]]
  /\ Goto(t, "present")
  /\ UNCHANGED <<held, bytes, lock, asked, stage, shown, totalled, computed,
                 requests, spoiled>>

Miss(t) ==
  /\ pc[t] = "lookup"
  /\ KeyOf(t) \notin Rollups
  /\ lock = NoThread
  /\ KeyOf(t) \notin Cached
  /\ Goto(t, "compute")
  /\ UNCHANGED <<cacheVars, lock, asked, stage, inHand, shown, totalled,
                 computed, requests, spoiled>>

\* aggregate_frame, with no lock held.
Compute(t) ==
  /\ pc[t] = "compute"
  /\ computed' = computed + 1
  /\ inHand' = [inHand EXCEPT ![t] = computed + 1]
  /\ Goto(t, "store")
  /\ UNCHANGED <<cacheVars, lock, asked, stage, shown, totalled, requests,
                 spoiled>>

\* Seeded fault: a failed request is parked in a state of its own.
FailParked(t) ==
  /\ pc[t] = "compute"
  /\ Goto(t, "failed")
  /\ UNCHANGED <<cacheVars, lock, asked, stage, inHand, shown, totalled,
                 computed, requests, spoiled>>

\* aggregate_frame raises on a column or filter it does not know: the request
\* ends as an error and nothing is stored.
Fail(t) ==
  /\ pc[t] = "compute"
  /\ Goto(t, "idle")
  /\ stage' = [stage EXCEPT ![t] = "rows"]
  /\ UNCHANGED <<cacheVars, lock, asked, inHand, shown, totalled, computed,
                 requests, spoiled>>

\* _store of an aggregate larger than the whole budget: returned uncached.
StoreTooBig(t) ==
  /\ pc[t] = "store"
  /\ SizeOf[KeyOf(t)] > Budget
  /\ Goto(t, "present")
  /\ spoiled' = [spoiled EXCEPT ![t] = TRUE]
  /\ UNCHANGED <<cacheVars, lock, asked, stage, inHand, shown, totalled,
                 computed, requests>>

\* _store finds that another thread stored the key first: that entry stays,
\* and aggregate still returns the thread's own result.
StoreLost(t) ==
  /\ pc[t] = "store"
  /\ SizeOf[KeyOf(t)] <= Budget
  /\ lock = NoThread
  /\ KeyOf(t) \in Cached
  /\ Goto(t, "present")
  /\ spoiled' = [spoiled EXCEPT ![t] = TRUE]
  /\ UNCHANGED <<cacheVars, lock, asked, stage, inHand, shown, totalled,
                 computed, requests>>

\* Seeded fault: no second look at the dictionary under the lock.
StoreInsertUnseen(t) ==
  /\ pc[t] = "store"
  /\ SizeOf[KeyOf(t)] <= Budget
  /\ lock = NoThread
  /\ lock' = t
  /\ order' = Append(order, KeyOf(t))
  /\ held' = [held EXCEPT ![KeyOf(t)] = inHand[t]]
  /\ bytes' = bytes + SizeOf[KeyOf(t)]
  /\ Goto(t, "evict")
  /\ UNCHANGED <<asked, stage, inHand, shown, totalled, computed, requests,
                 spoiled>>

\* Seeded fault: no check of the aggregate's own size.
StoreInsertAnySize(t) ==
  /\ pc[t] = "store"
  /\ lock = NoThread
  /\ KeyOf(t) \notin Cached
  /\ lock' = t
  /\ order' = Append(order, KeyOf(t))
  /\ held' = [held EXCEPT ![KeyOf(t)] = inHand[t]]
  /\ bytes' = bytes + SizeOf[KeyOf(t)]
  /\ Goto(t, "evict")
  /\ UNCHANGED <<asked, stage, inHand, shown, totalled, computed, requests,
                 spoiled>>

\* _store inserts the entry and keeps the lock for the eviction loop.
StoreInsert(t) ==
  /\ pc[t] = "store"
  /\ SizeOf[KeyOf(t)] <= Budget
  /\ lock = NoThread
  /\ KeyOf(t) \notin Cached
  /\ lock' = t
  /\ order' = Append(order, KeyOf(t))
  /\ held' = [held EXCEPT ![KeyOf(t)] = inHand[t]]
  /\ bytes' = bytes + SizeOf[KeyOf(t)]
  /\ Goto(t, "evict")
  /\ UNCHANGED <<asked, stage, inHand, shown, totalled, computed, requests,
                 spoiled>>

OverBudget == bytes > Budget /\ Len(order) > 1

\* u has its rows in hand and has not read its totals yet.
BetweenReads(u) ==
  IF stage[u] = "rows" THEN pc[u] \in {"evict", "present"}
                       ELSE pc[u] \in {"lookup", "compute", "store"}

\* Seeded fault: popitem() with its default, which pops the newest.
EvictNewest(t) ==
  /\ pc[t] = "evict"
  /\ OverBudget
  /\ order' = SubSeq(order, 1, Len(order) - 1)
  /\ bytes' = bytes - SizeOf[order[Len(order)]]
  /\ UNCHANGED <<held, lock, threadVars, computed, requests, spoiled>>

\* Seeded fault: the bytes of what is evicted stay counted.
EvictUncounted(t) ==
  /\ pc[t] = "evict"
  /\ OverBudget
  /\ order' = Tail(order)
  /\ UNCHANGED <<held, bytes, lock, threadVars, computed, requests, spoiled>>

\* One turn of _store's loop: popitem(last=False). A request that has read its
\* rows from this entry and not yet its totals is spoiled.
EvictOldest(t) ==
  /\ pc[t] = "evict"
  /\ OverBudget
  /\ order' = Tail(order)
  /\ bytes' = bytes - SizeOf[Head(order)]
  /\ spoiled' = [u \in Threads |->
                   spoiled[u] \/ (BetweenReads(u) /\ asked[u] = Head(order))]
  /\ UNCHANGED <<held, lock, threadVars, computed, requests>>

\* Seeded fault: the lock is never given back.
ReleaseNothing(t) ==
  /\ pc[t] = "evict"
  /\ ~OverBudget
  /\ Goto(t, "present")
  /\ UNCHANGED <<cacheVars, lock, asked, stage, inHand, shown, totalled,
                 computed, requests, spoiled>>

\* Seeded fault: the lock is given back between two evictions.
ReleaseSoon(t) ==
  /\ pc[t] = "evict"
  /\ \/ lock = t /\ lock' = NoThread /\ UNCHANGED pc
     \/ ~OverBudget /\ Goto(t, "present") /\ UNCHANGED lock
  /\ UNCHANGED <<cacheVars, asked, stage, inHand, shown, totalled, computed,
                 requests, spoiled>>

Release(t) ==
  /\ pc[t] = "evict"
  /\ ~OverBudget
  /\ lock' = NoThread
  /\ Goto(t, "present")
  /\ UNCHANGED <<cacheVars, asked, stage, inHand, shown, totalled, computed,
                 requests, spoiled>>

\* aggregate returns to grid_rows, which either answers with the rows alone or
\* goes on to batch.totals: totals_request keeps everything the key is made of
\* except the path and the deeper dimensions.
PresentRows(t) ==
  /\ pc[t] = "present"
  /\ stage[t] = "rows"
  /\ shown' = [shown EXCEPT ![t] = inHand[t]]
  /\ \/ /\ stage' = [stage EXCEPT ![t] = "totals"]    \* include_totals
        /\ Goto(t, "lookup")
     \/ /\ Goto(t, "idle")
        /\ UNCHANGED stage
  /\ UNCHANGED <<cacheVars, lock, asked, inHand, totalled, computed, requests,
                 spoiled>>

\* totals_from(root.rows, ...): the response is complete.
PresentTotals(t) ==
  /\ pc[t] = "present"
  /\ stage[t] = "totals"
  /\ totalled' = [totalled EXCEPT ![t] = inHand[t]]
  /\ Goto(t, "idle")
  /\ UNCHANGED <<cacheVars, lock, asked, stage, inHand, shown, computed,
                 requests, spoiled>>

Step(t) ==
  \/ ServeFromRollup(t) \/ Hit(t) \/ Miss(t)
  \/ Compute(t) \/ Fail(t)
  \/ StoreTooBig(t) \/ StoreLost(t) \/ StoreInsert(t)
  \/ EvictOldest(t) \/ Release(t)
  \/ PresentRows(t) \/ PresentTotals(t)

Next == \E t \in Threads : Step(t) \/ \E k \in Keys : Begin(t, k)

Spec == Init /\ [][Next]_vars

\* A thread the pool has started runs on, and a lock that is free is given to
\* a thread waiting for it: with finitely many requests nobody is overtaken
\* for ever.
FairSpec == Spec /\ \A t \in Threads : WF_vars(Step(t))

-----------------------------------------------------------------------------
TypeOK ==
  /\ order \in Seq(Keys)
  /\ held \in [Keys -> Nat]
  /\ bytes \in Int
  /\ lock \in Threads \cup {NoThread}
  /\ pc \in [Threads -> PCs]
  /\ asked \in [Threads -> Keys]
  /\ stage \in [Threads -> {"rows", "totals"}]
  /\ inHand \in [Threads -> Nat]
  /\ shown \in [Threads -> Nat]
  /\ totalled \in [Threads -> Nat]
  /\ computed \in Nat
  /\ requests \in Nat
  /\ spoiled \in [Threads -> BOOLEAN]

\* The running byte count is exactly what the entries take, through every
\* interleaving of lookups, lost stores and evictions (_store, _bytes): a drift
\* would make the cache refuse to hold anything, or hold anything at all.
BytesAccounted == bytes = BytesOf(Cached)

\* Whenever the lock is free the cache is within its byte budget (_store's
\* loop stops at one entry, which the size check before it makes sufficient).
WithinBudget == lock = NoThread => BytesOf(Cached) <= Budget

\* No key is cached twice, though several threads may be storing it at once
\* (_store's second look at the dictionary, under the lock).
CachedOnce == \A i, j \in 1..Len(order) : order[i] = order[j] => i = j

\* The rows and the totals of one response to a root-level request.
AnsweredRoot(t) ==
  pc[t] = "idle" /\ stage[t] = "totals" /\ RootOf[asked[t]] = asked[t]

\* "both read one aggregate. That sharing is correctness" (cache_key). What the
\* code achieves of it: rows and totals of a root-level response can differ only
\* when the result was too big to cache, when another thread stored the key
\* first, or when the entry was evicted in between.
SharedUnlessSpoiled ==
  \A t \in Threads :
    AnsweredRoot(t) /\ ~spoiled[t] => shown[t] = totalled[t]

\* The eviction loop of the thread that stored an entry never evicts that entry:
\* the store that just paid for the aggregate leaves it there to be shared.
StoreKeepsItsEntry ==
  [][\A t \in Threads :
       lock = t /\ lock' = NoThread =>
         /\ KeyOf(t) \in Range(order')
         /\ held'[KeyOf(t)] = inHand[t]]_vars

\* The cache as it will be once the thread in the eviction loop is through.
Policy == INSTANCE LruCache WITH recency <- order, memo <- held, answer <- inHand

Settled == Policy!Fit(order)

Lru == INSTANCE LruCache
         WITH recency <- Settled,
              memo    <- [k \in Range(Settled) |-> held[k]],
              answer  <- inHand

\* To the threads the cache is an atomic, bounded LRU memo: an insertion and the
\* evictions it costs happen as one step, least recently used first, and nobody
\* is given an entry that is about to go (_store holds the lock through its
\* loop; aggregate reads an entry and moves it to the end only under the lock).
ImplementsLru == Lru!Spec

\* Every grid request is answered, whatever the others do with the lock.
RequestsFinish == \A t \in Threads : pc[t] # "idle" ~> pc[t] = "idle"

=============================================================================
