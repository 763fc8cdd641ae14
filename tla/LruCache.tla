------------------------------ MODULE LruCache ------------------------------
(***************************************************************************)
(* What a batch's aggregate cache promises (src/risk/batch.py): a memo of  *)
(* the least recently used kind, bounded by the bytes of what it holds, in *)
(* which looking up and storing are each one indivisible step.             *)
(***************************************************************************)
EXTENDS Integers, Sequences, FiniteSets, Functions

CONSTANTS Threads, Keys, SizeOf, Budget

VARIABLES
  recency,  \* the keys held, least recently used first
  memo,     \* memo[k]: the computation k is remembered from, for the keys held
  answer,   \* answer[t]: the computation whose result t has in hand
  computed  \* number of computations so far; 0 stands for a file's own rollup

Weight(s) == Cardinality(UNION {{k} \X (1..SizeOf[k]) : k \in Range(s)})

\* s without its first n keys.
Without(s, n) == SubSeq(s, n + 1, Len(s))

\* Dropping n keys is enough: the rest fits, or is the newest key alone.
Enough(s, n) == Weight(Without(s, n)) <= Budget \/ Len(s) <= n + 1

\* The keys that stay when the least recently used go first, and no more of
\* them than must.
Fit(s) == Without(s, CHOOSE n \in 0..Len(s) :
                       Enough(s, n) /\ \A m \in 0..Len(s) : Enough(s, m) => n <= m)

Init ==
  /\ recency = <<>>
  /\ memo = <<>>
  /\ answer = [t \in Threads |-> 0]
  /\ computed = 0

\* t asks for k and it is held: it becomes the most recently used.
Use(t, k) ==
  /\ k \in Range(recency)
  /\ \E i \in 1..Len(recency) :
       /\ recency[i] = k
       /\ recency' = SubSeq(recency, 1, i - 1) \o Append(Without(recency, i), k)
  /\ answer' = [answer EXCEPT ![t] = memo[k]]
  /\ UNCHANGED <<memo, computed>>

\* t computes something anew.
Compute(t) ==
  /\ computed' = computed + 1
  /\ answer' = [answer EXCEPT ![t] = computed']
  /\ UNCHANGED <<recency, memo>>

\* t remembers for k what it has in hand, at the cost of the oldest keys. What
\* the others are remembered from stays.
Add(t, k) ==
  /\ k \notin Range(recency)
  /\ SizeOf[k] <= Budget
  /\ recency' = Fit(Append(recency, k))
  /\ memo' = [j \in Range(recency') |-> IF j = k THEN answer[t] ELSE memo[j]]
  /\ UNCHANGED <<answer, computed>>

\* t is answered from a file.
Read(t) ==
  /\ answer' = [answer EXCEPT ![t] = 0]
  /\ UNCHANGED <<recency, memo, computed>>

Next ==
  \E t \in Threads :
    Compute(t) \/ Read(t) \/ \E k \in Keys : Use(t, k) \/ Add(t, k)

Spec == Init /\ [][Next]_<<recency, memo, answer, computed>>

=============================================================================
