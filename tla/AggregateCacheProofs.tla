------------------------ MODULE AggregateCacheProofs ------------------------
(***************************************************************************)
(* Proofs about AggregateCache for every set of threads, every set of      *)
(* keys, every size and every budget.                                      *)
(***************************************************************************)
EXTENDS AggregateCache, FiniteSetTheorems, SequenceTheorems, WellFoundedInduction, TLAPS

USE DEF FromRollup, PCs

-----------------------------------------------------------------------------
(* Bytes of a set of keys.                                                 *)

LEMMA CellOfKey ==
  ASSUME NEW k \in Keys
  PROVE  /\ IsFiniteSet({k} \X (1..SizeOf[k]))
         /\ Cardinality({k} \X (1..SizeOf[k])) = SizeOf[k]
<1>1. SizeOf[k] \in Nat
  BY CacheAssumption
<1>2. IsFiniteSet(1..SizeOf[k]) /\ Cardinality(1..SizeOf[k]) = SizeOf[k]
  BY <1>1, FS_Interval
<1>3. IsFiniteSet({k}) /\ Cardinality({k}) = 1
  BY FS_Singleton
<1>4. /\ IsFiniteSet({k} \X (1..SizeOf[k]))
      /\ Cardinality({k} \X (1..SizeOf[k]))
           = Cardinality({k}) * Cardinality(1..SizeOf[k])
  BY <1>2, <1>3, FS_Product
<1>5. 1 * SizeOf[k] = SizeOf[k]
  BY <1>1
<1> QED
  BY <1>2, <1>3, <1>4, <1>5

LEMMA BytesOfNone == IsFiniteSet(Cells({})) /\ BytesOf({}) = 0
<1>1. Cells({}) = {}
  BY DEF Cells
<1> QED
  BY <1>1, FS_EmptySet DEF BytesOf

\* A key that is added adds its size, and only that.
LEMMA BytesOfAdd ==
  ASSUME NEW K \in SUBSET Keys, NEW k \in Keys, k \notin K,
         IsFiniteSet(Cells(K))
  PROVE  /\ IsFiniteSet(Cells(K \cup {k}))
         /\ BytesOf(K \cup {k}) = BytesOf(K) + SizeOf[k]
<1> DEFINE C == {k} \X (1..SizeOf[k])
<1>1. Cells(K \cup {k}) = Cells(K) \cup C
  BY DEF Cells
<1>2. Cells(K) \cap C = {}
  BY DEF Cells
<1>3. IsFiniteSet(C) /\ Cardinality(C) = SizeOf[k]
  BY CellOfKey
<1>4. /\ IsFiniteSet(Cells(K) \cup C)
      /\ Cardinality(Cells(K) \cup C)
           = Cardinality(Cells(K)) + Cardinality(C) - Cardinality({})
  BY <1>2, <1>3, FS_Union
<1>5. Cardinality(Cells(K)) \in Nat /\ SizeOf[k] \in Nat
  BY FS_CardinalityType, CacheAssumption
<1>6. Cardinality({}) = 0
  BY FS_EmptySet
<1> HIDE DEF C
<1>7. Cardinality(Cells(K) \cup C) = Cardinality(Cells(K)) + SizeOf[k]
  BY <1>3, <1>4, <1>5, <1>6
<1> QED
  BY <1>1, <1>4, <1>7 DEF BytesOf

\* A key that is removed gives its size back.
LEMMA BytesOfRemove ==
  ASSUME NEW K \in SUBSET Keys, NEW k \in K, IsFiniteSet(Cells(K))
  PROVE  /\ IsFiniteSet(Cells(K \ {k}))
         /\ BytesOf(K \ {k}) = BytesOf(K) - SizeOf[k]
<1>1. Cells(K \ {k}) \subseteq Cells(K)
  BY DEF Cells
<1>2. IsFiniteSet(Cells(K \ {k}))
  BY <1>1, FS_Subset
<1>3. (K \ {k}) \cup {k} = K
  OBVIOUS
<1>4. BytesOf((K \ {k}) \cup {k}) = BytesOf(K \ {k}) + SizeOf[k]
  BY <1>2, BytesOfAdd
<1>5. BytesOf(K \ {k}) \in Nat /\ SizeOf[k] \in Nat
  BY <1>2, FS_CardinalityType, CacheAssumption DEF BytesOf
<1> DEFINE a == BytesOf(K \ {k})
           b == BytesOf((K \ {k}) \cup {k})
<1>6. b = a + SizeOf[k] /\ a \in Nat
  BY <1>4, <1>5
<1> HIDE DEF a, b
<1>7. a = b - SizeOf[k]
  BY <1>5, <1>6
<1> QED
  BY <1>2, <1>3, <1>7 DEF a, b

-----------------------------------------------------------------------------
(* The recency order.                                                      *)

Distinct(s) == \A i, j \in 1..Len(s) : s[i] = s[j] => i = j

LEMMA AppendOrder ==
  ASSUME NEW s \in Seq(Keys), NEW k \in Keys, k \notin Range(s), Distinct(s)
  PROVE  /\ Append(s, k) \in Seq(Keys)
         /\ Distinct(Append(s, k))
         /\ Range(Append(s, k)) = Range(s) \cup {k}
         /\ Len(Append(s, k)) = Len(s) + 1
         /\ Append(s, k)[Len(s) + 1] = k
<1> QED
  BY DEF Distinct, Range

LEMMA TailOrder ==
  ASSUME NEW s \in Seq(Keys), Len(s) > 1, Distinct(s)
  PROVE  /\ Tail(s) \in Seq(Keys)
         /\ Head(s) \in Range(s)
         /\ Distinct(Tail(s))
         /\ Range(Tail(s)) = Range(s) \ {Head(s)}
         /\ Len(Tail(s)) = Len(s) - 1
         /\ Tail(s)[Len(Tail(s))] = s[Len(s)]
<1>1. /\ Tail(s) \in Seq(Keys)
      /\ Len(Tail(s)) = Len(s) - 1
      /\ \A i \in 1..Len(s) - 1 : Tail(s)[i] = s[i + 1]
      /\ Head(s) = s[1]
  OBVIOUS
<1>2. /\ DOMAIN s = 1..Len(s)
      /\ DOMAIN Tail(s) = 1..Len(s) - 1
  BY <1>1
<1>3. Head(s) \in Range(s)
  BY <1>1, <1>2 DEF Range
<1>4. Distinct(Tail(s))
  BY <1>1 DEF Distinct
<1>5. ASSUME NEW k \in Range(Tail(s))
      PROVE  k \in Range(s) \ {Head(s)}
  <2>1. PICK i \in 1..Len(s) - 1 : k = s[i + 1]
    BY <1>1, <1>2, <1>5 DEF Range
  <2>2. i + 1 \in 1..Len(s) /\ i + 1 # 1
    OBVIOUS
  <2> QED
    BY <1>1, <1>2, <2>1, <2>2 DEF Range, Distinct
<1>6. ASSUME NEW k \in Range(s) \ {Head(s)}
      PROVE  k \in Range(Tail(s))
  <2>1. PICK i \in 1..Len(s) : k = s[i]
    BY <1>2, <1>6 DEF Range
  <2>2. i - 1 \in 1..Len(s) - 1
    BY <1>1, <1>6, <2>1
  <2>3. Tail(s)[i - 1] = k
    BY <1>1, <2>1, <2>2
  <2> QED
    BY <1>2, <2>2, <2>3 DEF Range
<1>7. Tail(s)[Len(Tail(s))] = s[Len(s)]
  BY <1>1
<1> QED
  BY <1>1, <1>3, <1>4, <1>5, <1>6, <1>7

LEMMA MoveToEndOrder ==
  ASSUME NEW s \in Seq(Keys), NEW k \in Range(s), Distinct(s)
  PROVE  /\ MoveToEnd(s, k) \in Seq(Keys)
         /\ Distinct(MoveToEnd(s, k))
         /\ Range(MoveToEnd(s, k)) = Range(s)
<1> DEFINE i == CHOOSE j \in 1..Len(s) : s[j] = k
           m == MoveToEnd(s, k)
<1>1. i \in 1..Len(s) /\ s[i] = k
  BY DEF Range
<1> HIDE DEF i
<1>2. m = [j \in 1..Len(s) |-> IF j < i THEN s[j]
                               ELSE IF j < Len(s) THEN s[j + 1] ELSE k]
  BY DEF MoveToEnd, i
<1>3. m \in Seq(Keys) /\ Len(m) = Len(s) /\ DOMAIN m = 1..Len(s)
  <2>1. \A j \in 1..Len(s) : m[j] \in Keys
    BY <1>1, <1>2
  <2> QED
    BY <1>2, <2>1
<1> HIDE DEF m
<1>4. ASSUME NEW j \in 1..Len(s)
      PROVE  /\ j < i => m[j] = s[j]
             /\ i <= j /\ j < Len(s) => m[j] = s[j + 1]
             /\ j = Len(s) => m[j] = s[i]
  BY <1>1, <1>2
<1>5. Distinct(m)
  <2> DEFINE from(j) == IF j < i THEN j ELSE IF j < Len(s) THEN j + 1 ELSE i
  <2>1. \A j \in 1..Len(s) : from(j) \in 1..Len(s) /\ m[j] = s[from(j)]
    BY <1>1, <1>4
  <2>2. \A j1, j2 \in 1..Len(s) : from(j1) = from(j2) => j1 = j2
    BY <1>1
  <2> HIDE DEF from
  <2> QED
    BY <1>3, <2>1, <2>2 DEF Distinct
<1>6. ASSUME NEW x \in Range(m)
      PROVE  x \in Range(s)
  <2>1. PICK j \in 1..Len(s) : x = m[j]
    BY <1>3, <1>6 DEF Range
  <2>. j < Len(s) => j + 1 \in 1..Len(s)
    OBVIOUS
  <2>2. \/ x = s[j]
        \/ j + 1 \in 1..Len(s) /\ x = s[j + 1]
        \/ x = s[i]
    BY <1>1, <1>4, <2>1
  <2> QED
    BY <1>1, <2>2 DEF Range
<1>7. ASSUME NEW x \in Range(s)
      PROVE  x \in Range(m)
  <2>1. PICK j \in 1..Len(s) : x = s[j]
    BY <1>7 DEF Range
  <2>2. CASE j < i
    BY <1>3, <1>4, <2>1, <2>2 DEF Range
  <2>3. CASE j = i
    <3>1. Len(s) \in 1..Len(s) /\ m[Len(s)] = s[i]
      BY <1>1, <1>4
    <3> QED
      BY <1>3, <2>1, <2>3, <3>1 DEF Range
  <2>4. CASE j > i
    <3>1. j - 1 \in 1..Len(s) /\ m[j - 1] = s[j]
      BY <1>1, <1>4, <2>4
    <3> QED
      BY <1>3, <2>1, <3>1 DEF Range
  <2> QED
    BY <1>1, <2>2, <2>3, <2>4
<1> QED
  BY <1>3, <1>5, <1>6, <1>7 DEF m

-----------------------------------------------------------------------------
(* Type correctness.                                                       *)

\* Type correctness: every variable of the cache and of the request threads
\* keeps its type, for any number of threads and keys.
THEOREM TypeCorrect == Spec => []TypeOK
<1>1. Init => TypeOK
  BY CacheAssumption DEF Init, TypeOK
<1>2. TypeOK /\ [Next]_vars => TypeOK'
  <2> SUFFICES ASSUME TypeOK, [Next]_vars
               PROVE  TypeOK'
    OBVIOUS
  <2>0. CASE UNCHANGED vars
    BY <2>0 DEF TypeOK, vars
  <2>1. ASSUME NEW t \in Threads, NEW k \in Keys, Begin(t, k)
        PROVE  TypeOK'
    BY <2>1 DEF TypeOK, Begin, Goto, cacheVars
  <2> SUFFICES ASSUME NEW t \in Threads, Step(t)
               PROVE  TypeOK'
    BY <2>0, <2>1 DEF Next
  <2>k. KeyOf(t) \in Keys
    BY CacheAssumption DEF TypeOK, KeyOf
  <2>2. CASE ServeFromRollup(t)
    BY <2>2 DEF TypeOK, ServeFromRollup, Goto, cacheVars
  <2>3. CASE Hit(t)
    <3>1. MoveToEnd(order, KeyOf(t)) \in Seq(Keys)
      <4>1. /\ order \in Seq(Keys)
            /\ DOMAIN order = 1..Len(order)
        BY DEF TypeOK
      <4>2. \A j \in 1..Len(order) :
              MoveToEnd(order, KeyOf(t))[j] \in Keys
        BY <2>k, <4>1 DEF MoveToEnd
      <4> QED
        BY <4>1, <4>2 DEF MoveToEnd
    <3>2. held[KeyOf(t)] \in Nat
      BY <2>k DEF TypeOK
    <3> QED
      BY <2>3, <3>1, <3>2 DEF TypeOK, Hit, Goto
  <2>4. CASE Miss(t)
    BY <2>4 DEF TypeOK, Miss, Goto, cacheVars
  <2>5. CASE Compute(t)
    BY <2>5 DEF TypeOK, Compute, Goto, cacheVars
  <2>6. CASE Fail(t)
    BY <2>6 DEF TypeOK, Fail, Goto, cacheVars
  <2>7. CASE StoreTooBig(t)
    BY <2>7 DEF TypeOK, StoreTooBig, Goto, cacheVars
  <2>8. CASE StoreLost(t)
    BY <2>8 DEF TypeOK, StoreLost, Goto, cacheVars
  <2>9. CASE StoreInsert(t)
    <3>1. SizeOf[KeyOf(t)] \in Int
      BY <2>k, CacheAssumption
    <3> QED
      BY <2>9, <2>k, <3>1 DEF TypeOK, StoreInsert, Goto
  <2>10. CASE EvictOldest(t)
    <3>1. /\ Tail(order) \in Seq(Keys)
          /\ Head(order) \in Keys
      BY <2>10 DEF TypeOK, EvictOldest, OverBudget
    <3>2. SizeOf[Head(order)] \in Int
      BY <3>1, CacheAssumption
    <3>3. spoiled' \in [Threads -> BOOLEAN]
      <4> DEFINE f(u) == spoiled[u] \/ (BetweenReads(u) /\ asked[u] = Head(order))
      <4>1. \A u \in Threads : f(u) \in BOOLEAN
        BY DEF TypeOK
      <4>2. spoiled' = [u \in Threads |-> f(u)]
        BY <2>10 DEF EvictOldest
      <4> HIDE DEF f
      <4> QED
        BY <4>1, <4>2
    <3>4. bytes' \in Int
      BY <2>10, <3>2 DEF TypeOK, EvictOldest
    <3>5. /\ order' = Tail(order)
          /\ UNCHANGED <<held, lock, pc, asked, stage, inHand, shown, totalled,
                         computed, requests>>
      BY <2>10 DEF EvictOldest, threadVars
    <3> QED
      BY <3>1, <3>3, <3>4, <3>5 DEF TypeOK
  <2>11. CASE Release(t)
    BY <2>11 DEF TypeOK, Release, Goto, cacheVars
  <2>12. CASE PresentRows(t)
    BY <2>12 DEF TypeOK, PresentRows, Goto, cacheVars
  <2>13. CASE PresentTotals(t)
    BY <2>13 DEF TypeOK, PresentTotals, Goto, cacheVars
  <2> QED
    BY <2>2, <2>3, <2>4, <2>5, <2>6, <2>7, <2>8, <2>9, <2>10, <2>11, <2>12,
       <2>13 DEF Step
<1> QED
  BY <1>1, <1>2, PTL DEF Spec

-----------------------------------------------------------------------------
(* The cache: what it holds, what it weighs, and who is changing it.       *)

\* The thread in _store's critical section holds the lock, the entry it
\* inserted is the newest one, fits the budget by itself and is still its own.
LockInv ==
  /\ \A t \in Threads : pc[t] = "evict" <=> lock = t
  /\ lock \in Threads =>
       /\ Len(order) > 0
       /\ order[Len(order)] = KeyOf(lock)
       /\ SizeOf[KeyOf(lock)] <= Budget
       /\ held[KeyOf(lock)] = inHand[lock]
  /\ lock = NoThread => bytes <= Budget

CacheInv ==
  /\ Distinct(order)
  /\ IsFiniteSet(Cells(Cached))
  /\ bytes = BytesOf(Cached)
  /\ LockInv

LEMMA CacheInvInit == Init => CacheInv
<1> SUFFICES ASSUME Init PROVE CacheInv
  OBVIOUS
<1>1. Cached = {} /\ Len(order) = 0
  BY DEF Init, Cached, Range
<1>2. Distinct(order)
  BY <1>1 DEF Distinct
<1>3. IsFiniteSet(Cells(Cached)) /\ bytes = BytesOf(Cached)
  BY <1>1, BytesOfNone DEF Init
<1>4. LockInv
  BY CacheAssumption DEF Init, LockInv
<1> QED
  BY <1>2, <1>3, <1>4 DEF CacheInv

\* A step that leaves the cache and the lock alone keeps CacheInv, if it keeps
\* every thread out of, or inside, the critical section.
LEMMA CacheInvUntouched ==
  ASSUME TypeOK, CacheInv, UNCHANGED <<order, held, bytes, lock>>,
         \A u \in Threads : /\ pc'[u] = "evict" <=> pc[u] = "evict"
                            /\ pc[u] = "evict" => KeyOf(u)' = KeyOf(u)
                                               /\ inHand'[u] = inHand[u]
  PROVE  CacheInv'
<1>1. Cached' = Cached
  BY DEF Cached
<1>2. LockInv'
  BY DEF CacheInv, LockInv, TypeOK
<1> QED
  BY <1>1, <1>2 DEF CacheInv, Distinct, Cells, BytesOf

LEMMA CacheInvStep == TypeOK /\ CacheInv /\ [Next]_vars => CacheInv'
<1> SUFFICES ASSUME TypeOK, CacheInv, [Next]_vars
             PROVE  CacheInv'
  OBVIOUS
<1>0. CASE UNCHANGED vars
  BY <1>0, CacheInvUntouched DEF vars, KeyOf
<1>1. ASSUME NEW t \in Threads, NEW k \in Keys, Begin(t, k)
      PROVE  CacheInv'
  <2>1. UNCHANGED <<order, held, bytes, lock, inHand>>
    BY <1>1 DEF Begin, cacheVars
  <2>2. \A u \in Threads : pc'[u] = "evict" <=> pc[u] = "evict"
    BY <1>1 DEF Begin, Goto, TypeOK
  <2>3. \A u \in Threads : pc[u] = "evict" => KeyOf(u)' = KeyOf(u)
    BY <1>1 DEF Begin, Goto, TypeOK, KeyOf
  <2> QED
    BY <2>1, <2>2, <2>3, CacheInvUntouched
<1> SUFFICES ASSUME NEW t \in Threads, Step(t)
             PROVE  CacheInv'
  BY <1>0, <1>1 DEF Next
<1>k. KeyOf(t) \in Keys /\ SizeOf[KeyOf(t)] \in Nat
  BY CacheAssumption DEF TypeOK, KeyOf
<1>2. ASSUME \/ ServeFromRollup(t) \/ Miss(t) \/ Compute(t) \/ Fail(t)
             \/ StoreTooBig(t) \/ StoreLost(t)
             \/ PresentRows(t) \/ PresentTotals(t)
      PROVE  CacheInv'
  <2>1. UNCHANGED <<order, held, bytes, lock>>
    BY <1>2 DEF ServeFromRollup, Miss, Compute, Fail, StoreTooBig, StoreLost,
                PresentRows, PresentTotals, cacheVars
  <2>2. /\ pc[t] # "evict" /\ pc'[t] # "evict"
        /\ \A u \in Threads \ {t} : pc'[u] = pc[u]
    BY <1>2 DEF ServeFromRollup, Miss, Compute, Fail, StoreTooBig, StoreLost,
                PresentRows, PresentTotals, Goto, TypeOK
  <2>3. \A u \in Threads \ {t} : /\ stage'[u] = stage[u]
                                 /\ asked'[u] = asked[u]
                                 /\ inHand'[u] = inHand[u]
    BY <1>2 DEF ServeFromRollup, Miss, Compute, Fail, StoreTooBig, StoreLost,
                PresentRows, PresentTotals, TypeOK
  <2>4. \A u \in Threads \ {t} : KeyOf(u)' = KeyOf(u)
    BY <2>3 DEF KeyOf
  <2> QED
    BY <2>1, <2>2, <2>3, <2>4, CacheInvUntouched
<1>3. CASE Hit(t)
  <2>1. /\ order' = MoveToEnd(order, KeyOf(t))
        /\ KeyOf(t) \in Range(order)
        /\ lock = NoThread
        /\ UNCHANGED <<held, bytes, lock>>
    BY <1>3 DEF Hit, Cached
  <2>2. Distinct(order') /\ Range(order') = Range(order)
    BY <2>1, MoveToEndOrder DEF TypeOK, CacheInv
  <2>3. Cached' = Cached
    BY <2>2 DEF Cached
  <2>4. \A u \in Threads : pc'[u] = "evict" <=> pc[u] = "evict"
    BY <1>3 DEF Hit, Goto, TypeOK
  <2>5. LockInv'
    BY <2>1, <2>4, CacheAssumption DEF CacheInv, LockInv
  <2> QED
    BY <2>1, <2>2, <2>3, <2>5 DEF CacheInv, Cells, BytesOf
<1>4. CASE StoreInsert(t)
  <2>1. /\ order' = Append(order, KeyOf(t))
        /\ KeyOf(t) \notin Range(order)
        /\ lock' = t
        /\ lock = NoThread
        /\ bytes' = bytes + SizeOf[KeyOf(t)]
        /\ held' = [held EXCEPT ![KeyOf(t)] = inHand[t]]
        /\ SizeOf[KeyOf(t)] <= Budget
        /\ UNCHANGED <<asked, stage, inHand>>
    BY <1>4 DEF StoreInsert, Cached
  <2>2. /\ Distinct(order')
        /\ Range(order') = Range(order) \cup {KeyOf(t)}
        /\ Len(order') = Len(order) + 1
        /\ order'[Len(order) + 1] = KeyOf(t)
    BY <1>k, <2>1, AppendOrder DEF TypeOK, CacheInv
  <2>3. /\ Range(order) \in SUBSET Keys
        /\ Len(order) \in Nat
    BY RangeOfSeq, LenProperties DEF TypeOK
  <2>4. /\ IsFiniteSet(Cells(Cached \cup {KeyOf(t)}))
        /\ BytesOf(Cached \cup {KeyOf(t)}) = BytesOf(Cached) + SizeOf[KeyOf(t)]
    BY <1>k, <2>1, <2>3, BytesOfAdd DEF CacheInv, Cached
  <2>5. Cached' = Cached \cup {KeyOf(t)}
    BY <2>2 DEF Cached
  <2>6. KeyOf(t)' = KeyOf(t)
    BY <2>1 DEF KeyOf
  <2>7. held'[KeyOf(t)] = inHand[t]
    BY <1>k, <2>1 DEF TypeOK
  <2>8. \A u \in Threads : pc'[u] = "evict" <=> lock' = u
    BY <1>4, <2>1, CacheAssumption
      DEF StoreInsert, Goto, TypeOK, CacheInv, LockInv
  <2>9. LockInv'
    BY <2>1, <2>2, <2>3, <2>6, <2>7, <2>8, CacheAssumption DEF LockInv
  <2>10. bytes' = BytesOf(Cached')
    BY <2>1, <2>4, <2>5 DEF CacheInv
  <2>11. IsFiniteSet(Cells(Cached)')
    BY <2>4, <2>5 DEF Cells
  <2> QED
    BY <2>2, <2>9, <2>10, <2>11 DEF CacheInv, BytesOf, Cells
<1>5. CASE EvictOldest(t)
  <2>1. /\ order' = Tail(order)
        /\ Len(order) > 1
        /\ bytes' = bytes - SizeOf[Head(order)]
        /\ pc[t] = "evict"
        /\ UNCHANGED <<held, lock, pc, asked, stage, inHand>>
    BY <1>5 DEF EvictOldest, OverBudget, threadVars
  <2>2. /\ Distinct(order')
        /\ Head(order) \in Range(order)
        /\ Range(order') = Range(order) \ {Head(order)}
        /\ Len(order') = Len(order) - 1
        /\ order'[Len(order')] = order[Len(order)]
    BY <2>1, TailOrder DEF TypeOK, CacheInv
  <2>3. /\ Range(order) \in SUBSET Keys
        /\ Len(order) \in Nat
    BY RangeOfSeq, LenProperties DEF TypeOK
  <2>4. /\ IsFiniteSet(Cells(Cached \ {Head(order)}))
        /\ BytesOf(Cached \ {Head(order)})
             = BytesOf(Cached) - SizeOf[Head(order)]
    BY <2>2, <2>3, BytesOfRemove DEF CacheInv, Cached
  <2>5. Cached' = Cached \ {Head(order)}
    BY <2>2 DEF Cached
  <2>6. lock = t /\ lock \in Threads
    BY <2>1 DEF CacheInv, LockInv
  <2>7. KeyOf(lock)' = KeyOf(lock)
    BY <2>1 DEF KeyOf
  <2>8. LockInv'
    BY <2>1, <2>2, <2>3, <2>6, <2>7, CacheAssumption DEF CacheInv, LockInv
  <2>9. bytes' = BytesOf(Cached')
    BY <2>1, <2>4, <2>5 DEF CacheInv
  <2>10. IsFiniteSet(Cells(Cached)')
    BY <2>4, <2>5 DEF Cells
  <2> QED
    BY <2>2, <2>8, <2>9, <2>10 DEF CacheInv, BytesOf, Cells
<1>6. CASE Release(t)
  <2>1. /\ lock' = NoThread
        /\ pc[t] = "evict"
        /\ ~(bytes > Budget /\ Len(order) > 1)
        /\ pc' = [pc EXCEPT ![t] = "present"]
        /\ UNCHANGED <<order, held, bytes>>
    BY <1>6 DEF Release, OverBudget, cacheVars, Goto
  <2>2. /\ lock = t
        /\ Len(order) > 0
        /\ order[Len(order)] = KeyOf(t)
        /\ SizeOf[KeyOf(t)] <= Budget
    BY <2>1 DEF CacheInv, LockInv
  <2>3. Len(order) = 1 => bytes = SizeOf[KeyOf(t)]
    <3> SUFFICES ASSUME Len(order) = 1
                 PROVE  bytes = SizeOf[KeyOf(t)]
      OBVIOUS
    <3>1. Range(order) = {KeyOf(t)}
      BY <2>2 DEF Range, TypeOK
    <3>2. Cells(Cached) = {KeyOf(t)} \X (1..SizeOf[KeyOf(t)])
      BY <3>1 DEF Cells, Cached
    <3>3. bytes = Cardinality(Cells(Cached))
      BY DEF CacheInv, BytesOf
    <3>4. Cardinality({KeyOf(t)} \X (1..SizeOf[KeyOf(t)])) = SizeOf[KeyOf(t)]
      BY <1>k, CellOfKey
    <3> QED
      BY <3>2, <3>3, <3>4
  <2>4. bytes <= Budget
    <3>1. Len(order) \in Nat /\ bytes \in Int /\ Budget \in Nat
      BY LenProperties, CacheAssumption DEF TypeOK
    <3>2. \A n \in Nat : ~(n > 1) /\ n > 0 => n = 1
      OBVIOUS
    <3>3. \A b \in Int, m \in Nat : ~(b > m) => b <= m
      OBVIOUS
    <3>4. CASE bytes > Budget
      <4>1. Len(order) = 1
        BY <2>1, <2>2, <3>1, <3>2, <3>4
      <4> QED
        BY <2>2, <2>3, <4>1
    <3>5. CASE ~(bytes > Budget)
      BY <3>1, <3>3, <3>5
    <3> QED
      BY <3>4, <3>5
  <2>5. \A u \in Threads : pc'[u] # "evict" /\ u # NoThread
    BY <2>1, <2>2, CacheAssumption DEF TypeOK, CacheInv, LockInv
  <2>6. LockInv'
    BY <2>1, <2>4, <2>5, CacheAssumption DEF LockInv
  <2>7. /\ Cached' = Cached
        /\ bytes' = bytes
        /\ order' = order
    BY <2>1 DEF Cached
  <2>8. Cells(Cached)' = Cells(Cached)
    BY <2>7 DEF Cells
  <2> QED
    BY <2>6, <2>7, <2>8 DEF CacheInv, Distinct, BytesOf
<1> QED
  BY <1>2, <1>3, <1>4, <1>5, <1>6 DEF Step

\* The inductive invariant of the cache holds: what is cached, what it weighs
\* and who is changing it agree, between any two steps of any threads.
THEOREM CacheInvariant == Spec => []CacheInv
<1> QED
  BY CacheInvInit, CacheInvStep, TypeCorrect, PTL DEF Spec

\* The byte count never drifts from the entries it counts.
THEOREM BytesAccountedAlways == Spec => []BytesAccounted
<1>1. CacheInv => BytesAccounted
  BY DEF CacheInv, BytesAccounted
<1> QED
  BY <1>1, CacheInvariant, PTL

\* Nobody who takes the lock finds the cache over its budget.
THEOREM WithinBudgetAlways == Spec => []WithinBudget
<1>1. CacheInv => WithinBudget
  BY DEF CacheInv, LockInv, WithinBudget
<1> QED
  BY <1>1, CacheInvariant, PTL

\* No key is cached twice.
THEOREM CachedOnceAlways == Spec => []CachedOnce
<1>1. CacheInv => CachedOnce
  BY DEF CacheInv, Distinct, CachedOnce
<1> QED
  BY <1>1, CacheInvariant, PTL

-----------------------------------------------------------------------------
(* Rows and totals.                                                        *)

\* k is where t's rows came from: a rollup, or an entry the cache still holds.
Kept(k, run) == IF k \in Rollups THEN run = FromRollup
                                 ELSE k \in Cached /\ held[k] = run

\* What an unspoiled request to a root level has in hand at each point.
ShareInvOf(t) ==
  /\ pc[t] \in {"compute", "store", "evict"} => KeyOf(t) \notin Rollups
  /\ RootOf[asked[t]] = asked[t] /\ ~spoiled[t] =>
       /\ stage[t] = "rows" /\ pc[t] \in {"evict", "present"}
            => Kept(asked[t], inHand[t])
       /\ stage[t] = "totals" /\ pc[t] = "lookup" => Kept(asked[t], shown[t])
       /\ stage[t] = "totals" => pc[t] \in {"lookup", "present", "idle"}
       /\ stage[t] = "totals" /\ pc[t] = "present" => inHand[t] = shown[t]
       /\ stage[t] = "totals" /\ pc[t] = "idle" => totalled[t] = shown[t]

ShareInv == \A t \in Threads : ShareInvOf(t)

\* Only an eviction takes an entry away, and nothing replaces one.
LEMMA EntriesStay ==
  ASSUME TypeOK, CacheInv, NEW t \in Threads, Step(t), ~EvictOldest(t)
  PROVE  \A k \in Keys : k \in Cached => k \in Cached' /\ held'[k] = held[k]
<1>1. CASE Hit(t)
  <2>1. Range(MoveToEnd(order, KeyOf(t))) = Range(order)
    BY <1>1, MoveToEndOrder DEF Hit, Cached, TypeOK, CacheInv
  <2> QED
    BY <1>1, <2>1 DEF Hit, Cached
<1>2. CASE StoreInsert(t)
  <2>1. KeyOf(t) \in Keys
    BY CacheAssumption DEF TypeOK, KeyOf
  <2>2. Range(Append(order, KeyOf(t))) = Range(order) \cup {KeyOf(t)}
    BY <1>2, <2>1, AppendOrder DEF StoreInsert, Cached, TypeOK, CacheInv
  <2> QED
    BY <1>2, <2>2 DEF StoreInsert, Cached, TypeOK
<1>3. CASE ~Hit(t) /\ ~StoreInsert(t)
  <2>1. UNCHANGED <<order, held>>
    BY <1>3 DEF Step, ServeFromRollup, Miss, Compute, Fail, StoreTooBig,
                StoreLost, Release, PresentRows, PresentTotals, cacheVars
  <2> QED
    BY <2>1 DEF Cached
<1> QED
  BY <1>1, <1>2, <1>3

\* What an eviction takes away, from whom, and whom it marks.
LEMMA EvictionMarks ==
  ASSUME TypeOK, CacheInv, NEW t \in Threads, EvictOldest(t),
         NEW u \in Threads, ~spoiled'[u], BetweenReads(u),
         NEW run, Kept(asked[u], run)
  PROVE  Kept(asked[u], run)' /\ ~spoiled[u]
<1>1. ~spoiled[u] /\ asked[u] # Head(order)
  BY DEF EvictOldest
<1>2. Cached' = Cached \ {Head(order)} /\ held' = held /\ asked' = asked
  <2>1. Len(order) > 1
    BY DEF EvictOldest, OverBudget
  <2>2. Range(Tail(order)) = Range(order) \ {Head(order)}
    BY <2>1, TailOrder DEF TypeOK, CacheInv
  <2> QED
    BY <2>2 DEF EvictOldest, Cached, threadVars
<1> QED
  BY <1>1, <1>2 DEF Kept

LEMMA ShareInvStep ==
  TypeOK /\ CacheInv /\ ShareInv /\ [Next]_vars => ShareInv'
<1> SUFFICES ASSUME TypeOK, CacheInv, ShareInv, [Next]_vars
             PROVE  ShareInv'
  OBVIOUS
<1>0. CASE UNCHANGED vars
  BY <1>0 DEF vars, ShareInv, ShareInvOf, KeyOf, Kept, Cached
<1>1. ASSUME NEW t \in Threads, NEW k \in Keys, Begin(t, k)
      PROVE  ShareInv'
  <2>1. ShareInvOf(t)'
    BY <1>1 DEF Begin, Goto, TypeOK, ShareInvOf
  <2>2. ASSUME NEW u \in Threads \ {t}
        PROVE  ShareInvOf(u)'
    <3>1. /\ pc'[u] = pc[u] /\ asked'[u] = asked[u] /\ stage'[u] = stage[u]
          /\ spoiled'[u] = spoiled[u]
          /\ UNCHANGED <<order, held, inHand, shown, totalled>>
      BY <1>1, <2>2 DEF Begin, Goto, TypeOK, cacheVars
    <3>2. ShareInvOf(u)
      BY <2>2 DEF ShareInv
    <3> QED
      BY <3>1, <3>2 DEF ShareInvOf, KeyOf, Kept, Cached
  <2> QED
    BY <2>1, <2>2 DEF ShareInv
<1> SUFFICES ASSUME NEW t \in Threads, Step(t)
             PROVE  ShareInv'
  BY <1>0, <1>1 DEF Next
<1>2. ASSUME NEW u \in Threads \ {t}
      PROVE  ShareInvOf(u)'
  <2>1. /\ pc'[u] = pc[u] /\ asked'[u] = asked[u] /\ stage'[u] = stage[u]
        /\ inHand'[u] = inHand[u] /\ shown'[u] = shown[u]
        /\ totalled'[u] = totalled[u]
    BY <1>2 DEF Step, ServeFromRollup, Hit, Miss, Compute, Fail, StoreTooBig,
                StoreLost, StoreInsert, EvictOldest, Release, PresentRows,
                PresentTotals, Goto, TypeOK, cacheVars, threadVars
  <2>2. ShareInvOf(u) /\ asked[u] \in Keys
    BY <1>2 DEF ShareInv, TypeOK
  <2>3. KeyOf(u)' = KeyOf(u)
    BY <2>1 DEF KeyOf
  <2>4. CASE EvictOldest(t)
    <3>1. ~spoiled'[u] => ~spoiled[u]
      BY <1>2, <2>4 DEF EvictOldest
    <3> QED
      BY <1>2, <2>1, <2>2, <2>3, <2>4, <3>1, EvictionMarks
        DEF ShareInvOf, BetweenReads, Kept
  <2>5. CASE ~EvictOldest(t)
    <3>1. spoiled'[u] = spoiled[u]
      BY <1>2, <2>5 DEF Step, ServeFromRollup, Hit, Miss, Compute, Fail,
                  StoreTooBig, StoreLost, StoreInsert, Release, PresentRows,
                  PresentTotals, TypeOK, cacheVars, threadVars
    <3>2. \A run : Kept(asked[u], run) => Kept(asked[u], run)'
      BY <2>1, <2>2, <2>5, EntriesStay DEF Kept
    <3> QED
      BY <2>1, <2>2, <2>3, <3>1, <3>2 DEF ShareInvOf, Kept
  <2> QED
    BY <2>4, <2>5
<1>3. ShareInvOf(t)'
  <2>a. ShareInvOf(t) /\ asked[t] \in Keys
    BY DEF ShareInv, TypeOK
  <2>b. RootOf[asked[t]] = asked[t] => KeyOf(t) = asked[t]
    BY DEF KeyOf
  <2>1. CASE ServeFromRollup(t)
    BY <2>1, <2>a, <2>b DEF ServeFromRollup, Goto, TypeOK, cacheVars,
                            ShareInvOf, Kept
  <2>2. CASE Hit(t)
    <3>1. \A run : Kept(asked[t], run) => Kept(asked[t], run)'
      BY <2>2, <2>a, EntriesStay DEF Kept, Hit, Step, EvictOldest
    <3>2. /\ pc[t] = "lookup" /\ pc'[t] = "present"
          /\ inHand'[t] = held[KeyOf(t)]
          /\ KeyOf(t) \in Cached /\ KeyOf(t) \notin Rollups
          /\ UNCHANGED <<asked, stage, shown, totalled, spoiled>>
      BY <2>2 DEF Hit, Goto, TypeOK
    <3> QED
      BY <2>a, <2>b, <3>1, <3>2 DEF ShareInvOf, Kept
  <2>3. CASE Miss(t)
    BY <2>3, <2>a, <2>b DEF Miss, Goto, TypeOK, cacheVars, ShareInvOf, Kept,
                            KeyOf
  <2>4. CASE Compute(t)
    BY <2>4, <2>a DEF Compute, Goto, TypeOK, cacheVars, ShareInvOf, KeyOf
  <2>5. CASE Fail(t)
    BY <2>5, <2>a DEF Fail, Goto, TypeOK, cacheVars, ShareInvOf, KeyOf
  <2>6. CASE StoreTooBig(t) \/ StoreLost(t)
    BY <2>6, <2>a DEF StoreTooBig, StoreLost, Goto, TypeOK, cacheVars,
                      ShareInvOf
  <2>7. CASE StoreInsert(t)
    <3>1. /\ pc[t] = "store" /\ pc'[t] = "evict"
          /\ held' = [held EXCEPT ![KeyOf(t)] = inHand[t]]
          /\ order' = Append(order, KeyOf(t))
          /\ KeyOf(t) \notin Cached
          /\ UNCHANGED <<asked, stage, inHand, shown, totalled, spoiled>>
      BY <2>7 DEF StoreInsert, Goto, TypeOK
    <3>2. KeyOf(t) \in Keys /\ KeyOf(t)' = KeyOf(t)
      BY <3>1, CacheAssumption DEF TypeOK, KeyOf
    <3>3. KeyOf(t) \in Cached' /\ held'[KeyOf(t)] = inHand[t]
      <4>1. Range(Append(order, KeyOf(t))) = Range(order) \cup {KeyOf(t)}
        BY <3>1, <3>2, AppendOrder DEF Cached, TypeOK, CacheInv
      <4> QED
        BY <3>1, <3>2, <4>1 DEF Cached, TypeOK
    <3> QED
      BY <2>a, <2>b, <3>1, <3>2, <3>3 DEF ShareInvOf, Kept
  <2>8. CASE EvictOldest(t)
    <3>1. /\ pc[t] = "evict"
          /\ UNCHANGED <<pc, asked, stage, inHand, shown, totalled>>
      BY <2>8 DEF EvictOldest, threadVars
    <3>2. ~spoiled'[t] => ~spoiled[t]
      BY <2>8 DEF EvictOldest
    <3>3. KeyOf(t)' = KeyOf(t)
      BY <3>1 DEF KeyOf
    <3> QED
      BY <2>8, <2>a, <3>1, <3>2, <3>3, EvictionMarks
        DEF ShareInvOf, BetweenReads, Kept
  <2>9. CASE Release(t)
    BY <2>9, <2>a DEF Release, Goto, TypeOK, cacheVars, ShareInvOf, Kept,
                      Cached
  <2>10. CASE PresentRows(t)
    BY <2>10, <2>a DEF PresentRows, Goto, TypeOK, cacheVars, ShareInvOf, Kept,
                       Cached
  <2>11. CASE PresentTotals(t)
    BY <2>11, <2>a DEF PresentTotals, Goto, TypeOK, cacheVars, ShareInvOf
  <2> QED
    BY <2>1, <2>2, <2>3, <2>4, <2>5, <2>6, <2>7, <2>8, <2>9, <2>10, <2>11
      DEF Step
<1> QED
  BY <1>2, <1>3 DEF ShareInv

\* Rows and totals of a root-level response are one aggregate, except in the
\* three cases the history variable marks.
THEOREM SharedUnlessSpoiledAlways == Spec => []SharedUnlessSpoiled
<1>1. Init => ShareInv
  BY DEF Init, ShareInv, ShareInvOf
<1>2. ShareInv => SharedUnlessSpoiled
  BY DEF ShareInv, ShareInvOf, SharedUnlessSpoiled, AnsweredRoot
<1> QED
  BY <1>1, <1>2, ShareInvStep, TypeCorrect, CacheInvariant, PTL DEF Spec

\* The thread that inserts an entry leaves it in the cache when it lets go of
\* the lock, whatever the sizes of the others.
THEOREM StoreKeepsItsEntryAlways == Spec => StoreKeepsItsEntry
<1>1. ASSUME TypeOK, CacheInv, [Next]_vars
      PROVE  [\A t \in Threads :
                lock = t /\ lock' = NoThread =>
                  /\ KeyOf(t) \in Range(order')
                  /\ held'[KeyOf(t)] = inHand[t]]_vars
  <2> SUFFICES ASSUME NEW t \in Threads, lock = t, lock' = NoThread
               PROVE  /\ KeyOf(t) \in Range(order')
                      /\ held'[KeyOf(t)] = inHand[t]
    OBVIOUS
  <2>1. lock' # lock
    BY CacheAssumption
  <2>2. PICK u \in Threads : Release(u)
    BY <1>1, <2>1, CacheAssumption
      DEF Next, vars, Begin, Step, ServeFromRollup, Hit, Miss, Compute, Fail,
          StoreTooBig, StoreLost, StoreInsert, EvictOldest, PresentRows,
          PresentTotals
  <2>3. order' = order /\ held' = held
    BY <2>2 DEF Release, cacheVars
  <2>4. /\ Len(order) > 0
        /\ order[Len(order)] = KeyOf(t)
        /\ held[KeyOf(t)] = inHand[t]
    BY <1>1 DEF CacheInv, LockInv
  <2>5. KeyOf(t) \in Range(order)
    BY <1>1, <2>4 DEF TypeOK, Range
  <2> QED
    BY <2>3, <2>4, <2>5
<1> QED
  BY <1>1, TypeCorrect, CacheInvariant, PTL DEF Spec, StoreKeepsItsEntry

-----------------------------------------------------------------------------
(* The cache implements LruCache: the lock makes an insertion and the      *)
(* evictions it costs one step.  First, which keys an LRU memo keeps.      *)

LEMMA Smallest ==
  ASSUME NEW T \in SUBSET Nat, T # {}
  PROVE  \E m \in T : \A n \in T : m <= n
<1>1. IsWellFoundedOn(OpToRel(<, Nat), Nat)
  BY NatLessThanWellFounded
<1>2. PICK m \in T : \A n \in T : ~(<<n, m>> \in OpToRel(<, Nat))
  BY <1>1, WFMin
<1>3. ASSUME NEW n \in T
      PROVE  m <= n
  <2>1. ~(<<n, m>> \in OpToRel(<, Nat))
    BY <1>2
  <2>2. n \in Nat /\ m \in Nat
    OBVIOUS
  <2>3. ~(n < m)
    BY <2>1, <2>2 DEF OpToRel
  <2> QED
    BY <2>2, <2>3
<1> QED
  BY <1>3

\* n is the least number of keys to drop from s.
Least(s, n) ==
  n \in 0..Len(s) /\ Policy!Enough(s, n) /\ \A m \in 0..Len(s) : Policy!Enough(s, m) => n <= m

LEMMA LeastExists ==
  ASSUME NEW s \in Seq(Keys)
  PROVE  \E n \in 0..Len(s) : Least(s, n)
<1> DEFINE T == {n \in 0..Len(s) : Policy!Enough(s, n)}
<1>1. Len(s) \in Nat
  BY LenProperties
<1>2. Len(s) \in T
  BY <1>1 DEF Policy!Enough
<1>3. PICK m \in T : \A n \in T : m <= n
  <2>1. T \in SUBSET Nat /\ T # {}
    BY <1>1, <1>2
  <2> HIDE DEF T
  <2> QED
    BY <2>1, Smallest
<1> QED
  BY <1>3 DEF Least

LEMMA FitLeast ==
  ASSUME NEW s \in Seq(Keys), NEW n, Least(s, n)
  PROVE  Policy!Fit(s) = Policy!Without(s, n)
<1> DEFINE P(m) == m \in 0..Len(s) /\ Policy!Enough(s, m)
                   /\ \A l \in 0..Len(s) : Policy!Enough(s, l) => m <= l
           c == CHOOSE m \in 0..Len(s) :
                  Policy!Enough(s, m) /\ \A l \in 0..Len(s) : Policy!Enough(s, l) => m <= l
<1>1. Len(s) \in Nat
  BY LenProperties
<1>2. n \in 0..Len(s) /\ Policy!Enough(s, n) /\ \A l \in 0..Len(s) : Policy!Enough(s, l) => n <= l
  BY DEF Least
<1>3. c \in 0..Len(s) /\ Policy!Enough(s, c) /\ \A l \in 0..Len(s) : Policy!Enough(s, l) => c <= l
  BY <1>2
<1>4. Policy!Fit(s) = Policy!Without(s, c)
  BY DEF Policy!Fit
<1> HIDE DEF c
<1>5. c <= n /\ n <= c
  BY <1>2, <1>3
<1>6. c = n
  BY <1>1, <1>2, <1>3, <1>5
<1> QED
  BY <1>4, <1>6

LEMMA WeightIsBytes ==
  ASSUME NEW s PROVE Policy!Weight(s) = BytesOf(Range(s))
<1>1. Policy!Range(s) = Range(s)
  BY DEF Policy!Range, Range
<1>2. ASSUME NEW S PROVE Policy!Cardinality(S) = Cardinality(S)
  BY DEF Policy!Cardinality, Cardinality
<1> QED
  BY <1>1, <1>2 DEF Policy!Weight, BytesOf, Cells

\* What fits stays as it is.
LEMMA FitFits ==
  ASSUME NEW s \in Seq(Keys), BytesOf(Range(s)) <= Budget
  PROVE  Policy!Fit(s) = s
<1>1. Len(s) \in Nat /\ SubSeq(s, 1, Len(s)) = s
  BY LenProperties
<1>2. Policy!Without(s, 0) = s
  BY <1>1 DEF Policy!Without
<1>3. Policy!Enough(s, 0)
  BY <1>2, WeightIsBytes DEF Policy!Enough
<1>4. Least(s, 0)
  BY <1>1, <1>3 DEF Least
<1> QED
  BY <1>2, <1>4, FitLeast

\* Where the oldest key must go, the rest is cut as if it had gone already.
LEMMA FitTail ==
  ASSUME NEW s \in Seq(Keys), Len(s) > 1, ~(BytesOf(Range(s)) <= Budget)
  PROVE  Policy!Fit(Tail(s)) = Policy!Fit(s)
<1>1. /\ Len(s) \in Nat /\ SubSeq(s, 1, Len(s)) = s
      /\ Tail(s) \in Seq(Keys) /\ Len(Tail(s)) = Len(s) - 1
  BY LenProperties
<1>2. ~Policy!Enough(s, 0)
  <2>1. Policy!Without(s, 0) = s
    BY <1>1 DEF Policy!Without
  <2>2. Policy!Weight(s) = BytesOf(Range(s))
    BY WeightIsBytes
  <2>3. ~(Len(s) <= 0 + 1)
    BY <1>1
  <2> QED
    BY <2>1, <2>2, <2>3 DEF Policy!Enough
<1>3. ASSUME NEW n \in 0..Len(s) - 1
      PROVE  Policy!Without(Tail(s), n) = Policy!Without(s, n + 1)
  <2>1. SubSeq(Tail(s), n + 1, Len(s) - 1) = SubSeq(s, n + 2, Len(s))
    BY <1>1
  <2> QED
    BY <1>1, <2>1 DEF Policy!Without
<1>4. ASSUME NEW n \in 0..Len(s) - 1
      PROVE  Policy!Enough(Tail(s), n) <=> Policy!Enough(s, n + 1)
  <2>1. Len(Tail(s)) <= n + 1 <=> Len(s) <= (n + 1) + 1
    BY <1>1
  <2> QED
    BY <1>3, <2>1 DEF Policy!Enough
<1>5. PICK n \in 0..Len(s) : Least(s, n)
  BY LeastExists
<1>6. n # 0 /\ n - 1 \in 0..Len(s) - 1 /\ (n - 1) + 1 = n
  BY <1>1, <1>2, <1>5 DEF Least
<1>7. Least(Tail(s), n - 1)
  <2>1. Policy!Enough(Tail(s), n - 1)
    BY <1>4, <1>5, <1>6 DEF Least
  <2>2. ASSUME NEW m \in 0..Len(s) - 1, Policy!Enough(Tail(s), m)
        PROVE  n - 1 <= m
    <3>1. Policy!Enough(s, m + 1) /\ m + 1 \in 0..Len(s)
      BY <1>1, <1>4, <2>2
    <3>2. n <= m + 1
      BY <1>5, <3>1 DEF Least
    <3> QED
      BY <3>2
  <2> QED
    BY <1>1, <1>6, <2>1, <2>2 DEF Least
<1>8. Policy!Without(Tail(s), n - 1) = Policy!Without(s, n)
  BY <1>3, <1>6
<1> QED
  BY <1>1, <1>5, <1>7, <1>8, FitLeast

\* No key comes in.
LEMMA FitRange ==
  ASSUME NEW s \in Seq(Keys)
  PROVE  Range(Policy!Fit(s)) \subseteq Range(s)
<1>1. PICK n \in 0..Len(s) : Least(s, n)
  BY LeastExists
<1>2. Policy!Fit(s) = SubSeq(s, n + 1, Len(s))
  BY <1>1, FitLeast DEF Policy!Without
<1>3. Len(s) \in Nat
  BY LenProperties
<1>4. /\ DOMAIN SubSeq(s, n + 1, Len(s)) = 1..(Len(s) - n)
      /\ \A i \in 1..(Len(s) - n) : SubSeq(s, n + 1, Len(s))[i] = s[n + i] /\ n + i \in 1..Len(s)
  BY <1>3
<1>5. DOMAIN s = 1..Len(s)
  OBVIOUS
<1> QED
  BY <1>2, <1>4, <1>5 DEF Range

-----------------------------------------------------------------------------
(* The steps.                                                              *)

Memo == [k \in Range(Settled) |-> held[k]]

\* Both copies of the policy are one.
LEMMA OnePolicy == \A s : Lru!Fit(s) = Policy!Fit(s) /\ Lru!Range(s) = Range(s)
<1>1. ASSUME NEW S PROVE Lru!Cardinality(S) = Policy!Cardinality(S)
  BY DEF Lru!Cardinality, Policy!Cardinality
<1>2. ASSUME NEW s PROVE Lru!Range(s) = Range(s) /\ Policy!Range(s) = Range(s)
  BY DEF Lru!Range, Policy!Range, Range
<1>3. ASSUME NEW s PROVE Lru!Weight(s) = Policy!Weight(s)
  BY <1>1, <1>2 DEF Lru!Weight, Policy!Weight
<1>4. ASSUME NEW s, NEW n PROVE Lru!Enough(s, n) = Policy!Enough(s, n)
  BY <1>3 DEF Lru!Enough, Policy!Enough, Lru!Without, Policy!Without
<1>5. ASSUME NEW s PROVE Lru!Fit(s) = Policy!Fit(s)
  BY <1>4 DEF Lru!Fit, Policy!Fit, Lru!Without, Policy!Without
<1> QED
  BY <1>2, <1>5

\* With the lock free there is nothing left to evict.
LEMMA SettledFree ==
  ASSUME TypeOK, CacheInv, lock = NoThread PROVE Settled = order
BY FitFits DEF Settled, TypeOK, CacheInv, LockInv, Cached

LEMMA MoveToEndSplits ==
  ASSUME NEW s \in Seq(Keys), NEW k \in Range(s)
  PROVE  \E i \in 1..Len(s) :
           s[i] = k /\ MoveToEnd(s, k) = SubSeq(s, 1, i - 1) \o Append(SubSeq(s, i + 1, Len(s)), k)
<1> DEFINE i == CHOOSE j \in 1..Len(s) : s[j] = k
           m == MoveToEnd(s, k)
<1>1. i \in 1..Len(s) /\ s[i] = k
  BY DEF Range
<1>2. m = [j \in 1..Len(s) |-> IF j < i THEN s[j]
                               ELSE IF j < Len(s) THEN s[j + 1] ELSE k]
  BY DEF MoveToEnd
<1> HIDE DEF i, m
<1> DEFINE p == SubSeq(s, 1, i - 1)
           q == SubSeq(s, i + 1, Len(s))
           r == p \o Append(q, k)
<1>3. /\ p \in Seq(Keys) /\ Len(p) = i - 1 /\ \A j \in 1..i - 1 : p[j] = s[j]
      /\ q \in Seq(Keys) /\ Len(q) = Len(s) - i /\ \A j \in 1..Len(s) - i : q[j] = s[i + j]
  BY <1>1, SubSeqProperties
<1> HIDE DEF p, q
<1>4. k \in Keys
  BY <1>1
<1>5. /\ Append(q, k) \in Seq(Keys) /\ Len(Append(q, k)) = Len(s) - i + 1
      /\ \A j \in 1..Len(s) - i : Append(q, k)[j] = s[i + j]
      /\ Append(q, k)[Len(s) - i + 1] = k
  BY <1>3, <1>4, AppendProperties
<1> DEFINE q1 == Append(q, k)
<1> HIDE DEF q1
<1>6. /\ r \in Seq(Keys) /\ Len(r) = Len(s)
      /\ \A j \in 1..Len(s) : r[j] = IF j < i THEN p[j] ELSE q1[j - (i - 1)]
  BY <1>1, <1>3, <1>5, ConcatProperties DEF q1
<1>7. \A j \in 1..Len(s) : r[j] = m[j]
  <2> SUFFICES ASSUME NEW j \in 1..Len(s) PROVE r[j] = m[j]
    OBVIOUS
  <2>1. CASE j < i
    BY <1>1, <1>2, <1>3, <1>6, <2>1
  <2>2. CASE ~(j < i) /\ j < Len(s)
    <3>1. j - (i - 1) \in 1..Len(s) - i /\ i + (j - (i - 1)) = j + 1
      BY <1>1, <2>2
    <3>2. q1[j - (i - 1)] = s[j + 1]
      BY <1>5, <3>1 DEF q1
    <3>3. r[j] = q1[j - (i - 1)] /\ m[j] = s[j + 1]
      BY <1>2, <1>6, <2>2
    <3> QED
      BY <3>2, <3>3
  <2>3. CASE ~(j < i) /\ ~(j < Len(s))
    BY <1>1, <1>2, <1>5, <1>6, <2>3 DEF q1
  <2> QED
    BY <2>1, <2>2, <2>3
<1>8. m \in Seq(Keys) /\ Len(m) = Len(s)
  BY <1>1, <1>2, <1>4
<1>9. r = m
  BY <1>6, <1>7, <1>8, SeqEqual
<1> QED
  BY <1>1, <1>9 DEF m, p, q

\* A step that leaves the cache, and what is computed, leaves the memo.
LEMMA SameMemo ==
  ASSUME UNCHANGED <<order, held, inHand, computed>>
  PROVE  UNCHANGED <<Settled, Memo, inHand, computed>>
<1>1. Settled' = Settled
  BY DEF Settled
<1> QED
  BY <1>1 DEF Memo

\* Every step is one of the memo's, or none.
LEMMA RefinesStep ==
  ASSUME TypeOK, CacheInv, TypeOK', CacheInv', [Next]_vars
  PROVE  Lru!Next \/ UNCHANGED <<Settled, Memo, inHand, computed>>
<1>1. CASE UNCHANGED vars
  BY <1>1, SameMemo DEF vars
<1>2. ASSUME NEW t \in Threads, NEW k \in Keys, Begin(t, k)
      PROVE  UNCHANGED <<Settled, Memo, inHand, computed>>
  BY <1>2, SameMemo DEF Begin, cacheVars
<1> SUFFICES ASSUME NEW t \in Threads, Step(t)
             PROVE  Lru!Next \/ UNCHANGED <<Settled, Memo, inHand, computed>>
  BY <1>1, <1>2 DEF Next
<1> DEFINE k == KeyOf(t)
<1>k. k \in Keys /\ SizeOf[k] \in Nat
  BY CacheAssumption DEF TypeOK, KeyOf
<1>3. CASE Miss(t) \/ Fail(t) \/ StoreTooBig(t) \/ StoreLost(t) \/ Release(t)
           \/ PresentRows(t) \/ PresentTotals(t)
  BY <1>3, SameMemo DEF Miss, Fail, StoreTooBig, StoreLost, Release, PresentRows, PresentTotals, cacheVars
<1>4. CASE ServeFromRollup(t)
  <2>1. UNCHANGED <<order, held, computed>> /\ inHand' = [inHand EXCEPT ![t] = 0]
    BY <1>4 DEF ServeFromRollup, FromRollup, cacheVars
  <2>2. UNCHANGED <<Settled, Memo>>
    BY <2>1 DEF Settled, Memo
  <2>3. Lru!Read(t)
    BY <2>1, <2>2 DEF Lru!Read, Memo
  <2> QED
    BY <2>3 DEF Lru!Next
<1>5. CASE Compute(t)
  <2>1. UNCHANGED <<order, held>> /\ computed' = computed + 1 /\ inHand' = [inHand EXCEPT ![t] = computed + 1]
    BY <1>5 DEF Compute, cacheVars
  <2>2. UNCHANGED <<Settled, Memo>>
    BY <2>1 DEF Settled, Memo
  <2>3. Lru!Compute(t)
    BY <2>1, <2>2 DEF Lru!Compute, Memo
  <2> QED
    BY <2>3 DEF Lru!Next
<1>6. CASE Hit(t)
  <2>1. /\ lock = NoThread /\ lock' = NoThread /\ k \in Range(order)
        /\ order' = MoveToEnd(order, k) /\ held' = held /\ computed' = computed
        /\ inHand' = [inHand EXCEPT ![t] = held[k]]
    BY <1>6 DEF Hit, Cached
  <2>2. Settled = order /\ Settled' = order'
    <3>1. Settled = order
      BY <2>1, SettledFree
    <3>2. order' \in Seq(Keys) /\ BytesOf(Range(order')) <= Budget
      BY <2>1 DEF TypeOK, CacheInv, LockInv, Cached, BytesOf, Cells
    <3> QED
      BY <3>1, <3>2, FitFits DEF Settled
  <2>3. Range(order') = Range(order)
    BY <2>1, MoveToEndOrder DEF TypeOK, CacheInv
  <2>4. Memo' = Memo /\ Memo[k] = held[k]
    BY <2>1, <2>2, <2>3 DEF Memo
  <2>5. PICK i \in 1..Len(order) :
          order[i] = k /\ order' = SubSeq(order, 1, i - 1) \o Append(SubSeq(order, i + 1, Len(order)), k)
    BY <2>1, MoveToEndSplits DEF TypeOK
  <2>6. Lru!Use(t, k)
    BY <2>1, <2>2, <2>4, <2>5, OnePolicy DEF Lru!Use, Lru!Without, Memo
  <2> QED
    BY <1>k, <2>6 DEF Lru!Next
<1>7. CASE StoreInsert(t)
  <2>1. /\ lock = NoThread /\ k \notin Range(order) /\ SizeOf[k] <= Budget
        /\ order' = Append(order, k) /\ held' = [held EXCEPT ![k] = inHand[t]]
        /\ inHand' = inHand /\ computed' = computed
    BY <1>7 DEF StoreInsert, Cached
  <2>2. Settled = order
    BY <2>1, SettledFree
  <2>3. Settled' = Lru!Fit(Append(Settled, k))
    BY <2>1, <2>2, OnePolicy DEF Settled
  <2>4. Range(Settled') \subseteq Range(order) \cup {k}
    <3>1. Range(Append(order, k)) = Range(order) \cup {k} /\ Append(order, k) \in Seq(Keys)
      BY <1>k, <2>1, AppendOrder DEF TypeOK, CacheInv
    <3> QED
      BY <2>1, <3>1, FitRange DEF Settled
  <2>5. \A j \in Range(Settled') : held'[j] = IF j = k THEN inHand[t] ELSE Memo[j]
    <3>1. Range(order) \subseteq Keys
      BY RangeOfSeq DEF TypeOK
    <3> QED
      BY <1>k, <2>1, <2>2, <2>4, <3>1 DEF Memo, TypeOK
  <2>6. Memo' = [j \in Range(Settled') |-> IF j = k THEN inHand[t] ELSE Memo[j]]
    BY <2>5 DEF Memo
  <2>7. PICK c \in Keys : c = k
    BY <1>k
  <2>8. Lru!Add(t, c)
    BY <2>1, <2>2, <2>3, <2>6, <2>7, OnePolicy DEF Lru!Add, Memo
  <2> QED
    BY <2>8 DEF Lru!Next
<1>8. CASE EvictOldest(t)
  <2>1. /\ bytes > Budget /\ Len(order) > 1 /\ order' = Tail(order)
        /\ held' = held /\ inHand' = inHand /\ computed' = computed
    BY <1>8 DEF EvictOldest, OverBudget, threadVars
  <2>2. ~(BytesOf(Range(order)) <= Budget)
    BY <2>1, CacheAssumption DEF CacheInv, Cached, TypeOK
  <2>3. Settled' = Settled
    BY <2>1, <2>2, FitTail DEF Settled, TypeOK
  <2> QED
    BY <2>1, <2>3 DEF Memo
<1> QED
  BY <1>3, <1>4, <1>5, <1>6, <1>7, <1>8 DEF Step

LEMMA RefinesInit == Init => Lru!Init
<1> SUFFICES ASSUME Init PROVE Lru!Init
  OBVIOUS
<1>1. Range(order) = {} /\ order = <<>> /\ order \in Seq(Keys)
  BY DEF Init, Range
<1>2. BytesOf(Range(order)) <= Budget
  BY <1>1, BytesOfNone, CacheAssumption
<1>3. Settled = <<>>
  BY <1>1, <1>2, FitFits DEF Settled
<1>4. Memo = <<>>
  <2>1. Range(Settled) = {}
    BY <1>1, <1>3
  <2> QED
    BY <2>1 DEF Memo
<1> QED
  BY <1>3, <1>4 DEF Init, Lru!Init, Memo, FromRollup

\* To its threads the cache is an atomic, bounded LRU memo.
THEOREM ImplementsLruAlways == Spec => ImplementsLru
<1>1. TypeOK /\ CacheInv /\ (TypeOK /\ CacheInv)' /\ [Next]_vars => [Lru!Next]_<<Settled, Memo, inHand, computed>>
  BY RefinesStep
<1> QED
  BY <1>1, RefinesInit, TypeCorrect, CacheInvariant, PTL DEF Spec, ImplementsLru, Lru!Spec, Memo
=============================================================================
