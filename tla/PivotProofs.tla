----------------------------- MODULE PivotProofs -----------------------------
(***************************************************************************)
(* What the pivot engine computes, for any finite book, any dimensions and *)
(* scenarios, any filters and any sizes of a page and of a rollup.         *)
(***************************************************************************)
EXTENDS Pivot, FiniteSetTheorems, SequenceTheorems, WellFoundedInduction, TLAPS

-----------------------------------------------------------------------------
(* Least sets and least numbers                                            *)

\* Of the subsets of a finite set that some family has, one is least: no other
\* of the family is inside it. Induction over finite sets is argued from this.
LEMMA LeastSet ==
  ASSUME NEW S, IsFiniteSet(S), NEW F \in SUBSET (SUBSET S), F # {}
  PROVE  \E T \in F : \A U \in F : U \subseteq T => U = T
<1>1. IsWellFoundedOn(StrictSubsetOrdering(S), SUBSET S)
  BY FS_StrictSubsetOrderingWellFounded, FS_FiniteSubsetsOfFinite
<1>2. PICK T \in F : \A U \in F : ~(<<U, T>> \in StrictSubsetOrdering(S))
  BY <1>1, WFMin
<1>3. ASSUME NEW U \in F, U \subseteq T, U # T PROVE FALSE
  BY <1>2, <1>3 DEF StrictSubsetOrdering
<1> QED
  BY <1>3

LEMMA LeastNumber ==
  ASSUME NEW T \in SUBSET Nat, T # {}
  PROVE  \E m \in T : \A n \in T : m <= n
<1>1. PICK m \in T : \A n \in T : ~(<<n, m>> \in OpToRel(<, Nat))
  BY NatLessThanWellFounded, WFMin
<1>2. ASSUME NEW n \in T PROVE ~(n < m)
  BY <1>1 DEF OpToRel
<1> QED
  BY <1>2

-----------------------------------------------------------------------------
(* Sums                                                                    *)

Chosen(s) == CHOOSE x \in s : TRUE

\* it folds f over every subset of S, an element at a time.
FoldsOver(it, f, S) ==
  it = [s \in SUBSET S |-> IF s = {} THEN 0 ELSE f[Chosen(s)] + it[s \ {Chosen(s)}]]

LEMMA SumIsFold ==
  ASSUME NEW f
  PROVE  Sum(f) = (CHOOSE it : FoldsOver(it, f, DOMAIN f))[DOMAIN f]
BY DEF Sum, SumFunction, SumFunctionOnSet, FoldFunctionOnSet, MapThenFoldSet, FoldsOver, Chosen

LEMMA FoldExists ==
  ASSUME NEW S, IsFiniteSet(S), NEW f \in [S -> Int]
  PROVE  \E it \in [SUBSET S -> Int] : FoldsOver(it, f, S)
<1> DEFINE Small(n) == {s \in SUBSET S : Cardinality(s) <= n}
           Value(it, s) == IF s = {} THEN 0 ELSE f[Chosen(s)] + it[s \ {Chosen(s)}]
           Good(n) == \E it \in [Small(n) -> Int] : \A s \in Small(n) : it[s] = Value(it, s)
           Bad == {n \in Nat : ~Good(n)}
<1>1. \A s \in SUBSET S : IsFiniteSet(s) /\ Cardinality(s) \in Nat
  BY FS_Subset, FS_CardinalityType
<1>2. \A s \in SUBSET S : s # {} =>
        /\ Chosen(s) \in s /\ f[Chosen(s)] \in Int /\ s \ {Chosen(s)} \in SUBSET S
        /\ Cardinality(s \ {Chosen(s)}) = Cardinality(s) - 1
  BY <1>1, FS_RemoveElement DEF Chosen
<1>3. Good(0)
  <2> DEFINE it == [s \in Small(0) |-> 0]
  <2>1. \A s \in Small(0) : s = {}
    BY <1>1, FS_EmptySet
  <2>2. it \in [Small(0) -> Int] /\ \A s \in Small(0) : it[s] = Value(it, s)
    BY <2>1
  <2> QED
    BY <2>2
<1>4. ASSUME NEW n \in Nat, Good(n) PROVE Good(n + 1)
  <2>1. PICK old \in [Small(n) -> Int] : \A s \in Small(n) : old[s] = Value(old, s)
    BY <1>4
  <2> DEFINE it == [s \in Small(n + 1) |-> Value(old, s)]
  <2>2. \A s \in Small(n + 1) : s # {} => s \ {Chosen(s)} \in Small(n)
    BY <1>1, <1>2
  <2>3. it \in [Small(n + 1) -> Int]
    BY <1>2, <2>1, <2>2
  <2>4. \A s \in Small(n) : s \in Small(n + 1) /\ it[s] = old[s]
    BY <1>1, <2>1
  <2>5. ASSUME NEW s \in Small(n + 1) PROVE it[s] = Value(it, s)
    BY <2>2, <2>4
  <2> QED
    BY <2>3, <2>5
<1> HIDE DEF Good
<1>5. Bad = {}
  <2>1. SUFFICES ASSUME Bad # {} PROVE FALSE
    OBVIOUS
  <2>2. PICK m \in Bad : \A n \in Bad : m <= n
    BY <2>1, LeastNumber
  <2>3. m # 0 /\ m - 1 \in Nat /\ m - 1 \notin Bad
    BY <1>3, <2>2
  <2> QED
    BY <1>4, <2>2, <2>3
<1>6. Good(Cardinality(S)) /\ Small(Cardinality(S)) = SUBSET S
  BY <1>1, <1>5, FS_Subset
<1> QED
  BY <1>6 DEF Good, FoldsOver

\* Two folds of functions that agree on T agree on T's sum.
LEMMA FoldsAgree ==
  ASSUME NEW S, NEW T, IsFiniteSet(T), T \subseteq S, NEW f, NEW g, NEW it, NEW jt,
         FoldsOver(it, f, S), FoldsOver(jt, g, T), \A x \in T : f[x] = g[x]
  PROVE  it[T] = jt[T]
<1> DEFINE Bad == {s \in SUBSET T : it[s] # jt[s]}
<1>1. SUFFICES ASSUME Bad # {} PROVE FALSE
  OBVIOUS
<1>2. PICK s \in Bad : \A u \in Bad : u \subseteq s => u = s
  <2>1. Bad \in SUBSET (SUBSET T)
    OBVIOUS
  <2> HIDE DEF Bad
  <2> QED
    BY <1>1, <2>1, LeastSet
<1>3. s \in SUBSET S /\ s \in SUBSET T
  OBVIOUS
<1>4. /\ it[s] = IF s = {} THEN 0 ELSE f[Chosen(s)] + it[s \ {Chosen(s)}]
      /\ jt[s] = IF s = {} THEN 0 ELSE g[Chosen(s)] + jt[s \ {Chosen(s)}]
  BY <1>3 DEF FoldsOver
<1>5. s # {}
  BY <1>4
<1>6. Chosen(s) \in s
  BY <1>5 DEF Chosen
<1>7. s \ {Chosen(s)} \in SUBSET T /\ s \ {Chosen(s)} \notin Bad
  BY <1>2, <1>3, <1>6
<1>8. it[s \ {Chosen(s)}] = jt[s \ {Chosen(s)}] /\ f[Chosen(s)] = g[Chosen(s)]
  BY <1>3, <1>6, <1>7
<1> QED
  BY <1>4, <1>5, <1>8

\* The sum of f over T.
Over(f, T) == Sum([x \in T |-> f[x]])

LEMMA SumOverAll ==
  ASSUME NEW S, NEW f, f = [x \in S |-> f[x]]
  PROVE  Sum(f) = Over(f, S)
BY DEF Over

LEMMA OverIsFold ==
  ASSUME NEW T, IsFiniteSet(T), NEW f, \A x \in T : f[x] \in Int
  PROVE  \E it \in [SUBSET T -> Int] : FoldsOver(it, [x \in T |-> f[x]], T) /\ Over(f, T) = it[T]
<1> DEFINE g == [x \in T |-> f[x]]
<1>1. g \in [T -> Int] /\ DOMAIN g = T
  OBVIOUS
<1> HIDE DEF g
<1>2. PICK it \in [SUBSET T -> Int] : FoldsOver(it, g, T)
  BY <1>1, FoldExists
<1>3. PICK jt : FoldsOver(jt, g, T) /\ Sum(g) = jt[T]
  <2>1. FoldsOver(CHOOSE jt : FoldsOver(jt, g, T), g, T)
    BY <1>2
  <2> QED
    BY <1>1, <2>1, SumIsFold
<1>4. it[T] = jt[T]
  BY <1>2, <1>3, FoldsAgree
<1> QED
  BY <1>2, <1>3, <1>4 DEF Over, g

LEMMA OverType ==
  ASSUME NEW T, IsFiniteSet(T), NEW f, \A x \in T : f[x] \in Int
  PROVE  Over(f, T) \in Int
<1>1. PICK it \in [SUBSET T -> Int] : Over(f, T) = it[T]
  BY OverIsFold
<1> QED
  BY <1>1

LEMMA OverNone ==
  ASSUME NEW f
  PROVE  Over(f, {}) = 0
<1>1. IsFiniteSet({})
  BY FS_EmptySet
<1>2. PICK it \in [SUBSET {} -> Int] : FoldsOver(it, [x \in {} |-> f[x]], {}) /\ Over(f, {}) = it[{}]
  BY <1>1, OverIsFold
<1> QED
  BY <1>2 DEF FoldsOver

\* One element less, the chosen one.
LEMMA OverLessChosen ==
  ASSUME NEW T, IsFiniteSet(T), T # {}, NEW f, \A x \in T : f[x] \in Int
  PROVE  /\ Chosen(T) \in T
         /\ Over(f, T) = f[Chosen(T)] + Over(f, T \ {Chosen(T)})
<1> DEFINE c == Chosen(T)
           U == T \ {c}
<1>1. c \in T
  BY DEF Chosen
<1> HIDE DEF c
<1>2. IsFiniteSet(U)
  BY FS_RemoveElement
<1>3. PICK it \in [SUBSET T -> Int] : FoldsOver(it, [x \in T |-> f[x]], T) /\ Over(f, T) = it[T]
  BY OverIsFold
<1>4. PICK jt \in [SUBSET U -> Int] : FoldsOver(jt, [x \in U |-> f[x]], U) /\ Over(f, U) = jt[U]
  BY <1>2, OverIsFold
<1>5. it[U] = jt[U]
  <2> DEFINE fT == [x \in T |-> f[x]]
             fU == [x \in U |-> f[x]]
  <2>1. \A x \in U : fT[x] = fU[x]
    OBVIOUS
  <2>2. FoldsOver(it, fT, T) /\ FoldsOver(jt, fU, U) /\ U \subseteq T
    BY <1>3, <1>4
  <2> HIDE DEF fT, fU, U
  <2> QED
    BY <1>2, <2>1, <2>2, FoldsAgree
<1>6. it[T] = f[c] + it[U]
  BY <1>1, <1>3 DEF FoldsOver, c
<1> QED
  BY <1>1, <1>3, <1>4, <1>5, <1>6 DEF c

LEMMA OverAgrees ==
  ASSUME NEW T, NEW f, NEW g, \A x \in T : f[x] = g[x]
  PROVE  Over(f, T) = Over(g, T)
<1>1. [x \in T |-> f[x]] = [x \in T |-> g[x]]
  OBVIOUS
<1> QED
  BY <1>1 DEF Over

\* One element less, any one: the order of a sum does not matter.
LEMMA OverLess ==
  ASSUME NEW T, IsFiniteSet(T), NEW f, \A x \in T : f[x] \in Int, NEW a \in T
  PROVE  Over(f, T) = f[a] + Over(f, T \ {a})
<1> DEFINE Right(s) == \A x \in s : Over(f, s) = f[x] + Over(f, s \ {x})
           Bad == {s \in SUBSET T : ~Right(s)}
<1>1. SUFFICES ASSUME Bad # {} PROVE FALSE
  OBVIOUS
<1>2. PICK s \in Bad : \A u \in Bad : u \subseteq s => u = s
  <2>1. Bad \in SUBSET (SUBSET T)
    OBVIOUS
  <2> HIDE DEF Bad
  <2> QED
    BY <1>1, <2>1, LeastSet
<1>3. s \in SUBSET T /\ ~Right(s)
  OBVIOUS
<1>4. PICK x \in s : Over(f, s) # f[x] + Over(f, s \ {x})
  BY <1>3
<1> DEFINE c == Chosen(s)
<1>5. c \in s /\ Over(f, s) = f[c] + Over(f, s \ {c})
  <2>1. IsFiniteSet(s) /\ s # {} /\ \A y \in s : f[y] \in Int
    BY <1>3, <1>4, FS_Subset
  <2> QED
    BY <2>1, OverLessChosen
<1> HIDE DEF c, Bad
<1>6. x # c
  BY <1>4, <1>5
<1>7. Right(s \ {c}) /\ Right(s \ {x})
  <2>1. s \ {c} \notin Bad /\ s \ {x} \notin Bad
    BY <1>2, <1>4, <1>5
  <2>2. s \ {c} \in SUBSET T /\ s \ {x} \in SUBSET T
    BY <1>3
  <2> QED
    BY <2>1, <2>2 DEF Bad
<1>8. /\ Over(f, s \ {c}) = f[x] + Over(f, (s \ {c}) \ {x})
      /\ Over(f, s \ {x}) = f[c] + Over(f, (s \ {x}) \ {c})
  BY <1>4, <1>5, <1>6, <1>7
<1>9. (s \ {c}) \ {x} = (s \ {x}) \ {c}
  OBVIOUS
<1>10. Over(f, (s \ {x}) \ {c}) \in Int /\ f[c] \in Int /\ f[x] \in Int
  <2>1. (s \ {x}) \ {c} \in SUBSET T
    BY <1>3
  <2>2. IsFiniteSet((s \ {x}) \ {c}) /\ \A y \in (s \ {x}) \ {c} : f[y] \in Int
    BY <2>1, FS_Subset
  <2> QED
    BY <1>3, <1>4, <1>5, <2>2, OverType
<1> DEFINE rest == Over(f, (s \ {x}) \ {c})
<1>11. Over(f, s) = f[c] + (f[x] + rest) /\ Over(f, s \ {x}) = f[c] + rest /\ rest \in Int
  BY <1>5, <1>8, <1>9, <1>10
<1> HIDE DEF rest
<1> QED
  BY <1>4, <1>10, <1>11

\* The sum over two disjoint sets.
LEMMA OverUnion ==
  ASSUME NEW A, NEW B, IsFiniteSet(A), IsFiniteSet(B), A \cap B = {},
         NEW f, \A x \in A \cup B : f[x] \in Int
  PROVE  Over(f, A \cup B) = Over(f, A) + Over(f, B)
<1> DEFINE Bad == {s \in SUBSET B : Over(f, A \cup s) # Over(f, A) + Over(f, s)}
<1>1. SUFFICES ASSUME Bad # {} PROVE FALSE
  OBVIOUS
<1>2. PICK s \in Bad : \A u \in Bad : u \subseteq s => u = s
  <2>1. Bad \in SUBSET (SUBSET B)
    OBVIOUS
  <2> HIDE DEF Bad
  <2> QED
    BY <1>1, <2>1, LeastSet
<1>3. s \in SUBSET B /\ Over(f, A \cup s) # Over(f, A) + Over(f, s)
  OBVIOUS
<1>4. Over(f, A) \in Int
  BY OverType
<1>5. s # {}
  <2>1. A \cup {} = A
    OBVIOUS
  <2> QED
    BY <1>3, <1>4, <2>1, OverNone
<1>6. PICK x \in s : TRUE
  BY <1>5
<1>7. Over(f, s) = f[x] + Over(f, s \ {x}) /\ Over(f, s \ {x}) \in Int /\ f[x] \in Int
  <2>1. IsFiniteSet(s) /\ IsFiniteSet(s \ {x}) /\ \A y \in s : f[y] \in Int
    BY <1>3, FS_Subset, FS_RemoveElement
  <2>2. Over(f, s) = f[x] + Over(f, s \ {x})
    BY <2>1, OverLess
  <2>3. Over(f, s \ {x}) \in Int
    BY <2>1, OverType
  <2> QED
    BY <2>1, <2>2, <2>3
<1>8. Over(f, A \cup s) = f[x] + Over(f, A \cup (s \ {x}))
  <2>1. IsFiniteSet(A \cup s) /\ \A y \in A \cup s : f[y] \in Int
    BY <1>3, FS_Subset, FS_Union
  <2>2. (A \cup s) \ {x} = A \cup (s \ {x})
    BY <1>3
  <2>3. Over(f, A \cup s) = f[x] + Over(f, (A \cup s) \ {x})
    BY <2>1, OverLess
  <2> QED
    BY <2>2, <2>3
<1>9. Over(f, A \cup (s \ {x})) = Over(f, A) + Over(f, s \ {x})
  BY <1>2, <1>3, <1>6
<1> QED
  BY <1>3, <1>4, <1>7, <1>8, <1>9

Members(P, k, r) == {p \in P : k[p] = r}

\* Each p of P is in the group of the member k[p] of R; what a member stands
\* for is the sum over its group. Summing up the members sums up P.
LEMMA OverGroups ==
  ASSUME NEW P, NEW R, IsFiniteSet(P), IsFiniteSet(R), NEW k \in [P -> R],
         NEW f, \A p \in P : f[p] \in Int,
         NEW g, \A r \in R : g[r] = Over(f, Members(P, k, r))
  PROVE  Over(g, R) = Over(f, P)
<1> USE DEF Members
<1> DEFINE In(s) == {p \in P : k[p] \in s}
           Bad == {s \in SUBSET R : Over(g, s) # Over(f, In(s))}
<1>1. SUFFICES ASSUME Bad # {} PROVE FALSE
  <2>1. R \notin Bad
    BY <1>1
  <2>2. In(R) = P
    OBVIOUS
  <2> QED
    BY <2>1, <2>2
<1>2. PICK s \in Bad : \A u \in Bad : u \subseteq s => u = s
  <2>1. Bad \in SUBSET (SUBSET R)
    OBVIOUS
  <2> HIDE DEF Bad
  <2> QED
    BY <1>1, <2>1, LeastSet
<1>3. s \in SUBSET R /\ Over(g, s) # Over(f, In(s))
  OBVIOUS
<1>4. s # {}
  <2>1. In({}) = {}
    OBVIOUS
  <2> QED
    BY <1>3, <2>1, OverNone
<1>5. PICK r \in s : TRUE
  BY <1>4
<1>6. \A t \in SUBSET P : IsFiniteSet(t) /\ \A p \in t : f[p] \in Int
  BY FS_Subset
<1>7. \A t \in SUBSET P : Over(f, t) \in Int
  BY <1>6, OverType
<1>8. \A q \in R : g[q] \in Int
  BY <1>7
<1>9. Over(g, s) = g[r] + Over(g, s \ {r})
  <2>1. IsFiniteSet(s) /\ \A q \in s : g[q] \in Int
    BY <1>3, <1>8, FS_Subset
  <2> QED
    BY <2>1, OverLess
<1>10. Over(g, s \ {r}) = Over(f, In(s \ {r}))
  BY <1>2, <1>3, <1>5
<1>11. Over(f, In(s)) = Over(f, {p \in P : k[p] = r}) + Over(f, In(s \ {r}))
  <2> DEFINE A == {p \in P : k[p] = r}
             B == In(s \ {r})
  <2>1. A \cap B = {} /\ A \cup B = In(s) /\ A \in SUBSET P /\ B \in SUBSET P
    BY <1>5
  <2> HIDE DEF A, B, In
  <2>2. IsFiniteSet(A) /\ IsFiniteSet(B) /\ \A x \in A \cup B : f[x] \in Int
    BY <1>6, <2>1
  <2>3. Over(f, A \cup B) = Over(f, A) + Over(f, B)
    BY <2>1, <2>2, OverUnion
  <2> QED
    BY <2>1, <2>3 DEF A, B
<1> QED
  BY <1>3, <1>5, <1>9, <1>10, <1>11

LEMMA OverMonotone ==
  ASSUME NEW T, IsFiniteSet(T), NEW f, NEW g,
         \A x \in T : f[x] \in Int /\ g[x] \in Int /\ f[x] <= g[x]
  PROVE  Over(f, T) <= Over(g, T)
<1> DEFINE Bad == {s \in SUBSET T : ~(Over(f, s) <= Over(g, s))}
<1>1. SUFFICES ASSUME Bad # {} PROVE FALSE
  OBVIOUS
<1>2. PICK s \in Bad : \A u \in Bad : u \subseteq s => u = s
  <2>1. Bad \in SUBSET (SUBSET T)
    OBVIOUS
  <2> HIDE DEF Bad
  <2> QED
    BY <1>1, <2>1, LeastSet
<1>3. s \in SUBSET T /\ ~(Over(f, s) <= Over(g, s))
  OBVIOUS
<1>4. s # {}
  BY <1>3, OverNone
<1>5. PICK x \in s : TRUE
  BY <1>4
<1>6. IsFiniteSet(s) /\ IsFiniteSet(s \ {x}) /\ \A y \in s : f[y] \in Int /\ g[y] \in Int
  BY <1>3, FS_Subset, FS_RemoveElement
<1>7. Over(f, s) = f[x] + Over(f, s \ {x}) /\ Over(g, s) = g[x] + Over(g, s \ {x})
  BY <1>6, OverLess
<1>8. Over(f, s \ {x}) \in Int /\ Over(g, s \ {x}) \in Int
  BY <1>6, OverType
<1>9. Over(f, s \ {x}) <= Over(g, s \ {x})
  BY <1>2, <1>3, <1>5
<1>10. f[x] \in Int /\ g[x] \in Int /\ f[x] <= g[x]
  BY <1>3
<1> QED
  BY <1>3, <1>7, <1>8, <1>9, <1>10

\* Counting is summing ones.
LEMMA OverOnes ==
  ASSUME NEW T, IsFiniteSet(T), NEW f, \A x \in T : f[x] = 1
  PROVE  Over(f, T) = Cardinality(T)
<1> DEFINE Bad == {s \in SUBSET T : Over(f, s) # Cardinality(s)}
<1>1. SUFFICES ASSUME Bad # {} PROVE FALSE
  OBVIOUS
<1>2. PICK s \in Bad : \A u \in Bad : u \subseteq s => u = s
  <2>1. Bad \in SUBSET (SUBSET T)
    OBVIOUS
  <2> HIDE DEF Bad
  <2> QED
    BY <1>1, <2>1, LeastSet
<1>3. s \in SUBSET T /\ Over(f, s) # Cardinality(s)
  OBVIOUS
<1>4. s # {}
  BY <1>3, OverNone, FS_EmptySet
<1>5. PICK x \in s : TRUE
  BY <1>4
<1>6. /\ IsFiniteSet(s) /\ Cardinality(s) \in Nat /\ \A y \in s : f[y] \in Int
      /\ Cardinality(s \ {x}) = Cardinality(s) - 1
  BY <1>3, FS_Subset, FS_RemoveElement, FS_CardinalityType
<1>7. Over(f, s) = f[x] + Over(f, s \ {x})
  BY <1>6, OverLess
<1>8. Over(f, s \ {x}) = Cardinality(s \ {x})
  BY <1>2, <1>3, <1>5
<1> QED
  BY <1>3, <1>6, <1>7, <1>8

\* Some number of finitely many is the least.
LEMMA LeastIs ==
  ASSUME NEW S, IsFiniteSet(S), S # {}, NEW f \in [S -> Int]
  PROVE  /\ Least(f) \in Int
         /\ \E s \in S : Least(f) = f[s]
         /\ \A s \in S : Least(f) <= f[s]
<1> DEFINE Low(t) == {s \in S : f[s] <= f[t]}
           F == {Low(t) : t \in S}
<1>1. PICK m \in F : \A u \in F : u \subseteq m => u = m
  <2>1. F \in SUBSET (SUBSET S)
    OBVIOUS
  <2>2. F # {}
    <3>1. PICK t \in S : TRUE
      OBVIOUS
    <3> QED
      BY <3>1
  <2> HIDE DEF F
  <2> QED
    BY <2>1, <2>2, LeastSet
<1>2. PICK t \in S : m = Low(t)
  OBVIOUS
<1>3. ASSUME NEW s \in S PROVE f[t] <= f[s]
  <2>1. SUFFICES ASSUME f[s] < f[t] PROVE FALSE
    OBVIOUS
  <2>2. Low(s) \subseteq Low(t) /\ t \notin Low(s) /\ t \in Low(t)
    BY <2>1
  <2> QED
    BY <1>1, <1>2, <2>2
<1> DEFINE V == {f[s] : s \in S}
<1>4. f[t] \in V /\ \A y \in V : f[t] <= y
  BY <1>3
<1>5. Min(V) \in V /\ \A y \in V : Min(V) <= y
  <2> HIDE DEF V
  <2> QED
    BY <1>4 DEF Min
<1>6. Least(f) = Min(V)
  BY DEF Least
<1> QED
  BY <1>5, <1>6

-----------------------------------------------------------------------------
(* Levels                                                                  *)

\* A book: finitely many positions.
IsBook(b) == IsFiniteSet(DOMAIN b) /\ \A p \in DOMAIN b : IsPosition(b[p])

\* The dimension that the level under path groups by, the dimensions its rows
\* have details of, the positions of one group and the row of the group.
GroupBy(v, path)      == v.order[Len(path) + 1]
DetailsOf(v, path)    == v.details \ {v.order[i] : i \in 1..(Len(path) + 1)}
Group(b, v, path, k)  == {p \in Selected(b, v, path) : b[p].at[GroupBy(v, path)] = k}
RowOf(b, v, path, k)  == Row(b, Group(b, v, path, k), k, v, DetailsOf(v, path))
Shown(v, r)           == \A f \in Post(v) : Matches(f, RowCell(r, f.column))

LEMMA LevelIs ==
  ASSUME NEW b, NEW v, NEW path
  PROVE  Level(b, v, path) =
           {r \in {RowOf(b, v, path, k) :
                     k \in {b[p].at[GroupBy(v, path)] : p \in Selected(b, v, path)}} : Shown(v, r)}
BY DEF Level, RowOf, Group, GroupBy, DetailsOf, Shown

LEMMA RowIs ==
  ASSUME NEW b, NEW P, NEW k, NEW v, NEW details
  PROVE  LET r == Row(b, P, k, v, details)
         IN  /\ r.key = k /\ r.positions = Cardinality(P)
             /\ r.m = IF v.measured THEN Sum([p \in P |-> b[p].m]) ELSE 0
             /\ r.pnl = [s \in Scens |-> Sum([p \in P |-> b[p].pnl[s]])]
             /\ r.worst = Least(r.pnl)
             /\ r.detail = [d \in details |-> Detail(b, P, d)]
             /\ r = [key |-> r.key, positions |-> r.positions, m |-> r.m, pnl |-> r.pnl,
                     worst |-> r.worst, detail |-> r.detail]
BY DEF Row

LEMMA SelectedIsFinite ==
  ASSUME NEW b, IsBook(b), NEW v, NEW path
  PROVE  /\ Selected(b, v, path) \subseteq DOMAIN b
         /\ \A P \in SUBSET Selected(b, v, path) : IsFiniteSet(P) /\ Cardinality(P) \in Nat
<1>1. Selected(b, v, path) \subseteq DOMAIN b
  BY DEF Selected
<1> QED
  BY <1>1, FS_Subset, FS_CardinalityType DEF IsBook

\* The numbers in a row are numbers.
LEMMA RowIsNumeric ==
  ASSUME NEW b, IsBook(b), NEW v, NEW path, NEW k
  PROVE  LET r == RowOf(b, v, path, k)
         IN  /\ r.positions \in Nat /\ r.pnl \in [Scens -> Int] /\ r.worst \in Int
             /\ \A s \in Scens : r.worst <= r.pnl[s]
<1> DEFINE P == Group(b, v, path, k)
           r == RowOf(b, v, path, k)
<1>1. P \in SUBSET Selected(b, v, path)
  BY DEF Group
<1>2. IsFiniteSet(P) /\ Cardinality(P) \in Nat /\ P \subseteq DOMAIN b
  BY <1>1, SelectedIsFinite
<1> HIDE DEF P
<1>3. /\ r.positions = Cardinality(P) /\ r.pnl = [s \in Scens |-> Sum([p \in P |-> b[p].pnl[s]])]
      /\ r.worst = Least(r.pnl)
  <2> DEFINE details == DetailsOf(v, path)
  <2>1. r = Row(b, P, k, v, details)
    BY DEF RowOf, P
  <2> HIDE DEF r, details, P
  <2> QED
    BY <2>1 DEF Row
<1> HIDE DEF r
<1>4. ASSUME NEW s \in Scens PROVE Sum([p \in P |-> b[p].pnl[s]]) \in Int
  <2> DEFINE f == [p \in P |-> b[p].pnl[s]]
  <2>1. \A p \in P : f[p] \in Int
    BY <1>2 DEF IsBook, IsPosition
  <2>2. f = [p \in P |-> f[p]]
    OBVIOUS
  <2> HIDE DEF f
  <2>3. Over(f, P) \in Int /\ Sum(f) = Over(f, P)
    BY <1>2, <2>1, <2>2, OverType, SumOverAll
  <2> QED
    BY <2>3 DEF f
<1>5. r.pnl \in [Scens -> Int]
  BY <1>3, <1>4
<1>6. r.worst \in Int /\ \A s \in Scens : r.worst <= r.pnl[s]
  <2>1. CASE Scens = {}
    BY <1>3, <1>5, <2>1 DEF Least, Null
  <2>2. CASE Scens # {}
    <3> DEFINE f == r.pnl
    <3>1. f \in [Scens -> Int] /\ r.worst = Least(f) /\ IsFiniteSet(Scens)
      BY <1>3, <1>5, PivotAssumption
    <3> HIDE DEF f
    <3>2. Least(f) \in Int /\ \A s \in Scens : Least(f) <= f[s]
      BY <2>2, <3>1, LeastIs
    <3> QED
      BY <3>1, <3>2 DEF f
  <2> QED
    BY <2>1, <2>2
<1> QED
  BY <1>2, <1>3, <1>5, <1>6 DEF r

\* The positions whose groups a level shows.
Covered(b, v, path) ==
  {p \in Selected(b, v, path) : b[p].at[GroupBy(v, path)] \in {r.key : r \in Level(b, v, path)}}

\* A row of a level is that of its key, whose group holds some position.
LEMMA LevelRow ==
  ASSUME NEW b, NEW v, NEW path, NEW r \in Level(b, v, path)
  PROVE  /\ r = RowOf(b, v, path, r.key) /\ Shown(v, r)
         /\ \E p \in Covered(b, v, path) : b[p].at[GroupBy(v, path)] = r.key
<1>1. PICK q \in Selected(b, v, path) : r = RowOf(b, v, path, b[q].at[GroupBy(v, path)])
  BY LevelIs
<1>2. r.key = b[q].at[GroupBy(v, path)]
  <2> DEFINE k == b[q].at[GroupBy(v, path)]
  <2>1. r = RowOf(b, v, path, k)
    BY <1>1
  <2> HIDE DEF k
  <2>2. r.key = k
    BY <2>1 DEF RowOf, Row
  <2> QED
    BY <2>2 DEF k
<1>3. Shown(v, r)
  BY LevelIs
<1> QED
  BY <1>1, <1>2, <1>3 DEF Covered

\* Rows and groups correspond, and a level has finitely many rows.
LEMMA LevelGroups ==
  ASSUME NEW b, IsBook(b), NEW v, NEW path
  PROVE  LET R == Level(b, v, path)
             Q == Covered(b, v, path)
             k == [p \in Q |-> RowOf(b, v, path, b[p].at[GroupBy(v, path)])]
         IN  /\ IsFiniteSet(R) /\ IsFiniteSet(Q) /\ Q \subseteq DOMAIN b
             /\ k \in [Q -> R]
             /\ \A r \in R : Members(Q, k, r) = Group(b, v, path, r.key)
<1> DEFINE R == Level(b, v, path)
           Q == Covered(b, v, path)
           at(p) == b[p].at[GroupBy(v, path)]
           k == [p \in Q |-> RowOf(b, v, path, at(p))]
<1>1. Q \in SUBSET Selected(b, v, path) /\ IsFiniteSet(Q) /\ Q \subseteq DOMAIN b
  <2>1. Q \in SUBSET Selected(b, v, path)
    BY DEF Covered
  <2> QED
    BY <2>1, SelectedIsFinite
<1>2. \A p \in Q : \E r \in R : r.key = at(p)
  BY DEF Covered
<1>3. k \in [Q -> R]
  BY <1>2, LevelRow
<1>4. \A r \in R : \E p \in Q : k[p] = r
  BY LevelRow
<1>5. IsFiniteSet(R)
  <2>1. k \in Surjection(Q, R)
    BY <1>3, <1>4 DEF Surjection
  <2> HIDE DEF k, Q, R
  <2> QED
    BY <1>1, <2>1, FS_Surjection
<1>6. ASSUME NEW r \in R PROVE Members(Q, k, r) = Group(b, v, path, r.key)
  <2>1. r = RowOf(b, v, path, r.key)
    BY LevelRow
  <2>2. ASSUME NEW p \in Q, k[p] = r PROVE p \in Group(b, v, path, r.key)
    <3> DEFINE key == at(p)
    <3>1. r = RowOf(b, v, path, key)
      BY <2>2
    <3> HIDE DEF key
    <3>2. r.key = key
      BY <3>1 DEF RowOf, Row
    <3> QED
      BY <1>1, <3>2 DEF Group, key
  <2>3. ASSUME NEW p \in Group(b, v, path, r.key) PROVE p \in Q /\ k[p] = r
    <3>1. p \in Selected(b, v, path) /\ at(p) = r.key
      BY DEF Group
    <3>2. p \in Q
      BY <3>1 DEF Covered
    <3> QED
      BY <2>1, <3>1, <3>2
  <2>4. Group(b, v, path, r.key) \subseteq Q
    BY <2>3
  <2> HIDE DEF Q, k
  <2> QED
    BY <2>2, <2>3, <2>4 DEF Members
<1> QED
  BY <1>1, <1>3, <1>5, <1>6

\* The rows of a level add up to the positions in its groups.
LEMMA LevelCounts ==
  ASSUME NEW b, IsBook(b), NEW v, NEW path
  PROVE  Sum([r \in Level(b, v, path) |-> r.positions]) = Cardinality(Covered(b, v, path))
<1> DEFINE R == Level(b, v, path)
           Q == Covered(b, v, path)
           k == [p \in Q |-> RowOf(b, v, path, b[p].at[GroupBy(v, path)])]
           f == [p \in Q |-> 1]
           g == [r \in R |-> r.positions]
<1>1. /\ IsFiniteSet(R) /\ IsFiniteSet(Q)
      /\ k \in [Q -> R]
      /\ \A r \in R : Members(Q, k, r) = Group(b, v, path, r.key)
  BY LevelGroups
<1>2. ASSUME NEW r \in R PROVE g[r] = Cardinality(Group(b, v, path, r.key))
  <2> DEFINE P == Group(b, v, path, r.key)
             details == DetailsOf(v, path)
             key == r.key
  <2>1. r = Row(b, P, key, v, details)
    BY LevelRow DEF RowOf
  <2> HIDE DEF P, details, key
  <2>2. r.positions = Cardinality(P)
    BY <2>1 DEF Row
  <2> QED
    BY <2>2 DEF P
<1>3. (\A p \in Q : f[p] = 1 /\ f[p] \in Int) /\ g = [r \in R |-> g[r]]
  OBVIOUS
<1> HIDE DEF R, Q, k, f, g
<1>4. ASSUME NEW r \in R PROVE g[r] = Over(f, Members(Q, k, r))
  <2> DEFINE T == Members(Q, k, r)
  <2>1. T \in SUBSET Q /\ g[r] = Cardinality(T)
    BY <1>1, <1>2 DEF Members
  <2>2. IsFiniteSet(T) /\ \A p \in T : f[p] = 1
    BY <1>1, <1>3, <2>1, FS_Subset
  <2> HIDE DEF T
  <2>3. Over(f, T) = Cardinality(T)
    BY <2>2, OverOnes
  <2> QED
    BY <2>1, <2>3 DEF T
<1>5. Over(g, R) = Over(f, Q)
  <2>1. k \in [Q -> R] /\ \A r \in R : g[r] = Over(f, Members(Q, k, r))
    BY <1>1, <1>4
  <2> QED
    BY <1>1, <1>3, <2>1, OverGroups
<1>6. Over(f, Q) = Cardinality(Q)
  BY <1>1, <1>3, OverOnes
<1>7. Sum(g) = Over(g, R)
  BY <1>3, SumOverAll
<1> QED
  BY <1>5, <1>6, <1>7 DEF R, Q, g

LEMMA LevelAddsUp ==
  ASSUME NEW b, IsBook(b), NEW v, NEW path, NEW s \in Scens
  PROVE  Sum([r \in Level(b, v, path) |-> r.pnl[s]]) = Sum([p \in Covered(b, v, path) |-> b[p].pnl[s]])
<1> DEFINE R == Level(b, v, path)
           Q == Covered(b, v, path)
           k == [p \in Q |-> RowOf(b, v, path, b[p].at[GroupBy(v, path)])]
           f == [p \in Q |-> b[p].pnl[s]]
           g == [r \in R |-> r.pnl[s]]
<1>1. /\ IsFiniteSet(R) /\ IsFiniteSet(Q) /\ Q \subseteq DOMAIN b
      /\ k \in [Q -> R]
      /\ \A r \in R : Members(Q, k, r) = Group(b, v, path, r.key)
  BY LevelGroups
<1>2. ASSUME NEW r \in R
      PROVE  r.pnl[s] = Sum([p \in Group(b, v, path, r.key) |-> b[p].pnl[s]])
  <2> DEFINE P == Group(b, v, path, r.key)
             details == DetailsOf(v, path)
             key == r.key
  <2>1. r = Row(b, P, key, v, details)
    BY LevelRow DEF RowOf
  <2> HIDE DEF P, details, key
  <2>2. r.pnl = [t \in Scens |-> Sum([p \in P |-> b[p].pnl[t]])]
    BY <2>1 DEF Row
  <2>3. r.pnl[s] = Sum([p \in P |-> b[p].pnl[s]])
    BY <2>2
  <2> QED
    BY <2>3 DEF P
<1>3. \A p \in Q : f[p] \in Int
  BY <1>1 DEF IsBook, IsPosition
<1>4. ASSUME NEW r \in R PROVE g[r] = Over(f, Members(Q, k, r))
  <2> DEFINE T == Members(Q, k, r)
  <2>1. T \subseteq Q /\ T = Group(b, v, path, r.key)
    BY <1>1 DEF Members
  <2> HIDE DEF T, Q, k
  <2>2. [p \in T |-> f[p]] = [p \in T |-> b[p].pnl[s]]
    BY <2>1
  <2>3. g[r] = Sum([p \in T |-> b[p].pnl[s]])
    BY <1>2, <2>1
  <2> QED
    BY <2>2, <2>3 DEF Over, T
<1>5. f = [p \in Q |-> f[p]] /\ g = [r \in R |-> g[r]]
  OBVIOUS
<1> HIDE DEF R, Q, k, f, g
<1>6. Over(g, R) = Over(f, Q)
  <2>1. k \in [Q -> R] /\ \A r \in R : g[r] = Over(f, Members(Q, k, r))
    BY <1>1, <1>4
  <2>2. IsFiniteSet(R) /\ IsFiniteSet(Q) /\ \A p \in Q : f[p] \in Int
    BY <1>1, <1>3
  <2> QED
    BY <2>1, <2>2, OverGroups
<1>7. Sum(g) = Over(g, R) /\ Sum(f) = Over(f, Q)
  BY <1>5, SumOverAll
<1> QED
  BY <1>6, <1>7 DEF R, Q, f, g

LEMMA OverNoughts ==
  ASSUME NEW T, IsFiniteSet(T), NEW f, \A x \in T : f[x] = 0
  PROVE  Over(f, T) = 0
<1> DEFINE Bad == {s \in SUBSET T : Over(f, s) # 0}
<1>1. SUFFICES ASSUME Bad # {} PROVE FALSE
  OBVIOUS
<1>2. PICK s \in Bad : \A u \in Bad : u \subseteq s => u = s
  <2>1. Bad \in SUBSET (SUBSET T)
    OBVIOUS
  <2> HIDE DEF Bad
  <2> QED
    BY <1>1, <2>1, LeastSet
<1>3. s \in SUBSET T /\ Over(f, s) # 0
  OBVIOUS
<1>4. PICK x \in s : TRUE
  BY <1>3, OverNone
<1>5. IsFiniteSet(s) /\ \A y \in s : f[y] \in Int
  BY <1>3, FS_Subset
<1>6. Over(f, s) = f[x] + Over(f, s \ {x}) /\ f[x] = 0
  BY <1>3, <1>5, OverLess
<1>7. Over(f, s \ {x}) = 0
  BY <1>2, <1>3, <1>4
<1> QED
  BY <1>3, <1>6, <1>7

\* The worst of the summed P&L is no worse than the sum of the rows' worsts.
LEMMA WorstOfSum ==
  ASSUME NEW b, IsBook(b), NEW v, NEW path
  PROVE  LET R   == Level(b, v, path)
             pnl == [s \in Scens |-> Sum([r \in R |-> r.pnl[s]])]
         IN  Least(pnl) >= Sum([r \in R |-> r.worst])
<1> DEFINE R == Level(b, v, path)
           w == [r \in R |-> r.worst]
           at(s) == [r \in R |-> r.pnl[s]]
           pnl == [s \in Scens |-> Sum(at(s))]
<1> SUFFICES Least(pnl) >= Sum(w)
  OBVIOUS
<1>1. IsFiniteSet(R)
  BY LevelGroups
<1>2. ASSUME NEW r \in R
      PROVE  /\ r.worst \in Int /\ r.pnl \in [Scens -> Int]
             /\ \A s \in Scens : r.worst <= r.pnl[s]
             /\ r.worst = Least(r.pnl)
  <2> DEFINE k == r.key
  <2>1. r = RowOf(b, v, path, k)
    BY LevelRow
  <2> HIDE DEF k
  <2>2. r.worst = Least(r.pnl)
    <3> DEFINE P == Group(b, v, path, k)
               details == DetailsOf(v, path)
    <3>1. r = Row(b, P, k, v, details)
      BY <2>1 DEF RowOf
    <3> HIDE DEF P, details
    <3> QED
      BY <3>1 DEF Row
  <2> QED
    BY <2>1, <2>2, RowIsNumeric
<1> HIDE DEF R
<1>3. w = [r \in R |-> w[r]] /\ \A r \in R : w[r] \in Int
  BY <1>2
<1>4. CASE Scens = {}
  <2>1. \A r \in R : w[r] = 0
    BY <1>2, <1>4 DEF Least, Null
  <2> HIDE DEF w
  <2>2. Sum(w) = 0
    BY <1>1, <1>3, <2>1, OverNoughts, SumOverAll
  <2>3. Least(pnl) = 0
    BY <1>4 DEF Least, Null
  <2> HIDE DEF pnl
  <2> QED
    BY <2>2, <2>3
<1>5. CASE Scens # {}
  <2>1. ASSUME NEW s \in Scens PROVE Sum(at(s)) \in Int /\ Sum(w) <= Sum(at(s))
    <3> DEFINE f == at(s)
    <3>1. f = [r \in R |-> f[r]] /\ \A r \in R : f[r] \in Int /\ w[r] \in Int /\ w[r] <= f[r]
      BY <1>2
    <3> HIDE DEF f, w
    <3>2. Over(w, R) <= Over(f, R) /\ Over(f, R) \in Int
      BY <1>1, <3>1, OverMonotone, OverType
    <3>3. Sum(w) = Over(w, R) /\ Sum(f) = Over(f, R)
      BY <1>3, <3>1, SumOverAll
    <3> QED
      BY <3>2, <3>3 DEF f
  <2>2. pnl \in [Scens -> Int] /\ \A s \in Scens : Sum(w) <= pnl[s]
    BY <2>1
  <2> HIDE DEF pnl, w
  <2>3. \E s \in Scens : Least(pnl) = pnl[s]
    BY <1>5, <2>2, LeastIs, PivotAssumption
  <2>4. PICK s \in Scens : Least(pnl) = pnl[s]
    BY <2>3
  <2>5. Sum(w) \in Int /\ pnl[s] \in Int
    <3>1. Sum(w) = Over(w, R) /\ Over(w, R) \in Int
      BY <1>1, <1>3, OverType, SumOverAll
    <3> QED
      BY <2>2, <3>1
  <2> QED
    BY <2>2, <2>4, <2>5
<1> QED
  BY <1>4, <1>5

-----------------------------------------------------------------------------
(* Which tier answers                                                      *)

\* What the rows of a level depend on.
LEMMA SameRows ==
  ASSUME NEW b, NEW u, NEW v, NEW p, NEW q,
         Selected(b, u, p) = Selected(b, v, q), GroupBy(u, p) = GroupBy(v, q),
         DetailsOf(u, p) = DetailsOf(v, q), u.measured = v.measured
  PROVE  \A k : RowOf(b, u, p, k) = RowOf(b, v, q, k)
<1>1. \A k : Group(b, u, p, k) = Group(b, v, q, k)
  BY DEF Group
<1>2. \A P, k, d : Row(b, P, k, u, d) = Row(b, P, k, v, d)
  BY DEF Row
<1> QED
  BY <1>1, <1>2 DEF RowOf

LEMMA ViewIs ==
  ASSUME NEW v \in Views
  PROVE  /\ v.order \in Orders /\ v.order[1] \in Dims
         /\ v.order \in Seq(Dims) /\ Len(v.order) \in {1, 2} /\ v.order # <<>>
         /\ v.filters \in Filters /\ v.details \in SUBSET Dims /\ v.measured \in BOOLEAN
         /\ v # NoView
<1>1. /\ v.order \in Orders /\ v.filters \in Filters /\ v.details \in SUBSET Dims
      /\ v.measured \in BOOLEAN
  BY DEF Views
<1>2. v.order[1] \in Dims /\ v.order \in Seq(Dims) /\ Len(v.order) \in {1, 2}
  <2>1. CASE \E d \in Dims : v.order = <<d>>
    BY <2>1
  <2>2. CASE \E d, e \in Dims : v.order = <<d, e>>
    BY <2>2
  <2> QED
    BY <1>1, <2>1, <2>2 DEF Orders
<1>3. v.order # <<>>
  BY <1>2
<1> QED
  BY <1>1, <1>2, <1>3 DEF NoView

\* The root level depends on the first dimension alone.
LEMMA RootOfTruncated ==
  ASSUME NEW b, NEW v \in Views
  PROVE  LET u == [v EXCEPT !.order = <<v.order[1]>>]
         IN  u \in Views /\ Level(b, u, <<>>) = Level(b, v, <<>>)
<1> DEFINE d == v.order[1]
           u == [v EXCEPT !.order = <<d>>]
<1>1. d \in Dims
  BY ViewIs
<1>2. /\ u.order = <<d>> /\ u.filters = v.filters /\ u.details = v.details
      /\ u.measured = v.measured
  BY DEF Views
<1>3. u \in Views
  <2>1. <<d>> \in Orders /\ \A i, j \in DOMAIN <<d>> : <<d>>[i] = <<d>>[j] => i = j
    BY <1>1 DEF Orders
  <2> HIDE DEF d
  <2> QED
    BY <2>1 DEF Views
<1> HIDE DEF u
<1>4. Post(u) = Post(v) /\ Pre(u) = Pre(v)
  BY <1>2 DEF Post, Pre
<1>5. GroupBy(u, <<>>) = GroupBy(v, <<>>) /\ DetailsOf(u, <<>>) = DetailsOf(v, <<>>)
  BY <1>2 DEF GroupBy, DetailsOf
<1>6. Selected(b, u, <<>>) = Selected(b, v, <<>>)
  BY <1>4 DEF Selected
<1>7. \A k : RowOf(b, u, <<>>, k) = RowOf(b, v, <<>>, k)
  BY <1>2, <1>5, <1>6, SameRows
<1>8. \A r : Shown(u, r) <=> Shown(v, r)
  BY <1>4 DEF Shown
<1> QED
  BY <1>3, <1>5, <1>6, <1>7, <1>8, LevelIs DEF u

Narrow(r, v, E) == [r EXCEPT !.m = IF v.measured THEN @ ELSE 0,
                             !.detail = [d \in E |-> r.detail[d]]]

\* Columns selected from a rollup's row are those of the request's row.
LEMMA NarrowedRow ==
  ASSUME NEW b, NEW P, NEW k, NEW v, NEW w, NEW D, NEW E, w.measured, E \subseteq D
  PROVE  Narrow(Row(b, P, k, w, D), v, E) = Row(b, P, k, v, E)
<1> DEFINE n == Cardinality(P)
           M == Sum([p \in P |-> b[p].m])
           L == [s \in Scens |-> Sum([p \in P |-> b[p].pnl[s]])]
           detail(F) == [d \in F |-> Detail(b, P, d)]
           DD == detail(D)
           EE == detail(E)
           r == Row(b, P, k, w, D)
<1>1. r = [key |-> k, positions |-> n, m |-> M, pnl |-> L, worst |-> Least(L), detail |-> DD]
  BY DEF Row
<1>2. Row(b, P, k, v, E) = [key |-> k, positions |-> n, m |-> IF v.measured THEN M ELSE 0,
                            pnl |-> L, worst |-> Least(L), detail |-> EE]
  BY DEF Row
<1>3. EE = [d \in E |-> DD[d]]
  OBVIOUS
<1> HIDE DEF n, M, L, DD, EE, r
<1>4. EE = [d \in E |-> r.detail[d]]
  BY <1>1, <1>3
<1>5. Narrow(r, v, E) = [r EXCEPT !.m = IF v.measured THEN r.m ELSE 0, !.detail = EE]
  BY <1>4 DEF Narrow
<1>6. Narrow(r, v, E) = Row(b, P, k, v, E)
  BY <1>1, <1>2, <1>5
<1> QED
  BY <1>6 DEF r

\* A request served from a rollup gets what the frame would answer.
LEMMA RollupAnswers ==
  ASSUME rollups = Materialised(book), NEW v \in Views, ServedByRollup(v)
  PROVE  FromRollup(v) = Level(book, v, <<>>)
<1> DEFINE d == v.order[1]
           w == [NoView EXCEPT !.order = <<d>>, !.details = Dims]
           E == v.details \ {d}
           D == Dims \ {d}
           K == {book[p].at[d] : p \in DOMAIN book}
<1>1. w.order = <<d>> /\ w.filters = {} /\ w.details = Dims /\ w.measured = TRUE
  BY DEF NoView
<1>2. v.filters = {} /\ d \in Dims /\ E \subseteq D
  BY ViewIs DEF ServedByRollup
<1>3. rollups[d] = Level(book, w, <<>>)
  BY DEF ServedByRollup, Materialised
<1> HIDE DEF w
<1>4. Post(v) = {} /\ Pre(v) = {} /\ Post(w) = {} /\ Pre(w) = {}
  BY <1>1, <1>2 DEF Post, Pre
<1>5. Selected(book, v, <<>>) = DOMAIN book /\ Selected(book, w, <<>>) = DOMAIN book
  BY <1>4 DEF Selected
<1>6. /\ GroupBy(v, <<>>) = d /\ GroupBy(w, <<>>) = d
      /\ DetailsOf(v, <<>>) = E /\ DetailsOf(w, <<>>) = D
  BY <1>1 DEF GroupBy, DetailsOf
<1>7. \A r : Shown(v, r) /\ Shown(w, r)
  BY <1>4 DEF Shown
<1>8. /\ Level(book, v, <<>>) = {RowOf(book, v, <<>>, k) : k \in K}
      /\ Level(book, w, <<>>) = {RowOf(book, w, <<>>, k) : k \in K}
  BY <1>5, <1>6, <1>7, LevelIs
<1>9. ASSUME NEW k PROVE Narrow(RowOf(book, w, <<>>, k), v, E) = RowOf(book, v, <<>>, k)
  <2> DEFINE P == Group(book, v, <<>>, k)
  <2>1. P = Group(book, w, <<>>, k)
    BY <1>5, <1>6 DEF Group
  <2>2. RowOf(book, w, <<>>, k) = Row(book, P, k, w, D) /\ RowOf(book, v, <<>>, k) = Row(book, P, k, v, E)
    BY <1>6, <2>1 DEF RowOf
  <2> HIDE DEF P, D, E
  <2>3. w.measured /\ E \subseteq D
    BY <1>1, <1>2
  <2>4. Narrow(Row(book, P, k, w, D), v, E) = Row(book, P, k, v, E)
    BY <2>3, NarrowedRow
  <2> QED
    BY <2>2, <2>4
<1>10. FromRollup(v) = {Narrow(r, v, E) : r \in Level(book, w, <<>>)}
  BY <1>3 DEF FromRollup, Narrow
<1> HIDE DEF K, D, E
<1> QED
  BY <1>8, <1>9, <1>10

\* Whichever tier answers, it answers the level.
LEMMA RootIsLevel ==
  ASSUME rollups = Materialised(book), NEW v \in Views
  PROVE  RootLevel(v) = Level(book, v, <<>>)
BY RollupAnswers DEF RootLevel

-----------------------------------------------------------------------------
(* Sorted rows                                                             *)

\* A sort lists every row once.
LEMMA SortedIs ==
  ASSUME NEW rows, IsFiniteSet(rows), NEW c, NEW d, NEW s \in Sorted(rows, c, d)
  PROVE  /\ Cardinality(rows) \in Nat
         /\ s \in [1..Cardinality(rows) -> rows]
         /\ \A i, j \in 1..Cardinality(rows) : s[i] = s[j] => i = j
         /\ \A r \in rows : \E i \in 1..Cardinality(rows) : s[i] = r
         /\ \A i, j \in 1..Cardinality(rows) : i < j =>
              IF d THEN SortKey(s[i], c) >= SortKey(s[j], c)
                   ELSE SortKey(s[i], c) <= SortKey(s[j], c)
<1> DEFINE N == Cardinality(rows)
<1>1. N \in Nat
  BY FS_CardinalityType
<1> HIDE DEF N
<1>2. s \in [1..N -> rows] /\ \A i, j \in DOMAIN s : i < j =>
         s[i] # s[j] /\ IF d THEN SortKey(s[i], c) >= SortKey(s[j], c)
                             ELSE SortKey(s[i], c) <= SortKey(s[j], c)
  BY DEF Sorted, N
<1>3. \A i, j \in 1..N : s[i] = s[j] => i = j
  BY <1>1, <1>2
<1>4. \A r \in rows : \E i \in 1..N : s[i] = r
  <2>1. s \in Injection(1..N, rows)
    BY <1>2, <1>3 DEF Injection, IsInjective
  <2>2. IsFiniteSet(1..N) /\ Cardinality(1..N) = N
    BY <1>1, FS_Interval
  <2>3. s \in Surjection(1..N, rows)
    BY <2>1, <2>2, FS_Injection DEF N
  <2> QED
    BY <2>3 DEF Surjection
<1> QED
  BY <1>1, <1>2, <1>3, <1>4 DEF N

\* When no two rows tie there is one way to sort them.
LEMMA SortedOnce ==
  ASSUME NEW rows, IsFiniteSet(rows), NEW c, NEW d \in BOOLEAN,
         \A r \in rows : SortKey(r, c) \in Int,
         \A a, b \in rows : SortKey(a, c) = SortKey(b, c) => a = b,
         NEW s \in Sorted(rows, c, d), NEW t \in Sorted(rows, c, d)
  PROVE  s = t
<1> DEFINE N == Cardinality(rows)
           Bad == {i \in 1..N : s[i] # t[i]}
<1>1. /\ N \in Nat /\ s \in [1..N -> rows] /\ t \in [1..N -> rows]
      /\ \A i, j \in 1..N : s[i] = s[j] => i = j
      /\ \A i, j \in 1..N : t[i] = t[j] => i = j
      /\ \A r \in rows : (\E i \in 1..N : s[i] = r) /\ (\E i \in 1..N : t[i] = r)
  BY SortedIs
<1>2. \A i, j \in 1..N : i < j =>
        /\ IF d THEN SortKey(s[i], c) >= SortKey(s[j], c) ELSE SortKey(s[i], c) <= SortKey(s[j], c)
        /\ IF d THEN SortKey(t[i], c) >= SortKey(t[j], c) ELSE SortKey(t[i], c) <= SortKey(t[j], c)
  BY SortedIs
<1> HIDE DEF N
<1>3. SUFFICES ASSUME Bad # {} PROVE FALSE
  <2>1. (\A i \in 1..N : s[i] = t[i]) => s = t
    BY <1>1
  <2> QED
    BY <2>1
<1>4. PICK i \in Bad : \A j \in Bad : i <= j
  <2>1. Bad \in SUBSET Nat
    BY <1>1
  <2> HIDE DEF Bad
  <2> QED
    BY <1>3, <2>1, LeastNumber
<1>5. i \in 1..N /\ s[i] # t[i] /\ \A j \in 1..N : j < i => s[j] = t[j]
  BY <1>1, <1>4
<1>6. PICK j \in 1..N : s[j] = t[i]
  BY <1>1, <1>5
<1>7. PICK k \in 1..N : t[k] = s[i]
  BY <1>1, <1>5
<1>8. i < j /\ i < k
  <2>1. j # i /\ k # i
    BY <1>5, <1>6, <1>7
  <2>2. ~(j < i)
    <3>1. SUFFICES ASSUME j < i PROVE FALSE
      OBVIOUS
    <3>2. t[j] = t[i]
      BY <1>5, <1>6, <3>1
    <3> QED
      BY <1>1, <1>5, <2>1, <3>2
  <2>3. ~(k < i)
    <3>1. SUFFICES ASSUME k < i PROVE FALSE
      OBVIOUS
    <3>2. s[k] = s[i]
      BY <1>5, <1>7, <3>1
    <3> QED
      BY <1>1, <1>5, <2>1, <3>2
  <2>4. i \in Int /\ j \in Int /\ k \in Int
    BY <1>1, <1>5
  <2> QED
    BY <2>1, <2>2, <2>3, <2>4
<1>9. s[i] \in rows /\ t[i] \in rows /\ SortKey(s[i], c) \in Int /\ SortKey(t[i], c) \in Int
  BY <1>1, <1>5
<1>10. SortKey(s[i], c) = SortKey(t[i], c)
  BY <1>2, <1>5, <1>6, <1>7, <1>8, <1>9
<1> QED
  BY <1>5, <1>9, <1>10

-----------------------------------------------------------------------------
(* The invariant                                                           *)

SortColumns == {"key", "worst"}
Pages(rows) == [column : SortColumns, descending : BOOLEAN, rows : SUBSET rows]

\* Every page is a slice of some sort of the root level, on one column.
PagedBy(c, d) ==
  \A i \in 1..Len(pages) :
    /\ pages[i].column = c /\ pages[i].descending = d
    /\ \E s \in Sorted(root, c, d) : pages[i].rows = Slice(s, (i - 1) * PageSize)

\* What has been answered is what the book gives for the view on screen: the
\* root level from whichever tier, the opened level, and the pages.
IInv ==
  /\ book \in Books /\ rollups = Materialised(book)
  /\ view # NoView => /\ view \in Views
                      /\ root = Level(book, view, <<>>)
                      /\ totals = TotalsOf(root)
  /\ opened # Shut => /\ view # NoView /\ opened.keys \in Seq(Int)
                      /\ Len(opened.keys) <= Len(view.order)
                      /\ LET path == BuildPath(view.order, opened.keys)
                         IN  opened.answer = IF opened.leaf THEN Leaf(book, view, path)
                                                            ELSE Level(book, view, path)
  /\ pages # <<>> => view # NoView
  /\ pages \in Seq(Pages(root))
  /\ \E c \in SortColumns, d \in BOOLEAN : PagedBy(c, d)

LEMMA BookIs ==
  ASSUME NEW b \in Books
  PROVE  IsBook(b)
BY PivotAssumption DEF IsBook

\* What rows are sorted by is a number.
LEMMA RowKeys ==
  ASSUME NEW b, IsBook(b), NEW v, NEW path, GroupBy(v, path) \in Dims, NEW r \in Level(b, v, path)
  PROVE  r.key \in Int /\ \A c \in SortColumns : SortKey(r, c) \in Int
<1>1. PICK p \in Covered(b, v, path) : b[p].at[GroupBy(v, path)] = r.key
  BY LevelRow
<1>2. p \in DOMAIN b
  BY LevelGroups
<1>3. r.key \in Int
  BY <1>1, <1>2 DEF IsBook, IsPosition
<1>4. r.worst \in Int
  <2> DEFINE k == r.key
  <2>1. r = RowOf(b, v, path, k)
    BY LevelRow
  <2> HIDE DEF k
  <2> QED
    BY <2>1, RowIsNumeric
<1>5. SortKey(r, "key") = r.key /\ SortKey(r, "worst") = r.worst
  BY PivotAssumption DEF SortKey, RowCell
<1> QED
  BY <1>3, <1>4, <1>5 DEF SortColumns

LEMMA InitIInv == Init => IInv
<1> SUFFICES ASSUME Init PROVE IInv
  OBVIOUS
<1>1. pages \in Seq(Pages(root)) /\ Len(pages) = 0
  BY DEF Init
<1>2. PagedBy("key", FALSE)
  BY <1>1 DEF PagedBy
<1> QED
  BY <1>1, <1>2 DEF Init, IInv, SortColumns

\* A view is shown or mailed: its root level and its totals.
LEMMA ShownIInv ==
  ASSUME IInv, view = NoView, NEW v \in Views, view' = v, root' = RootLevel(v),
         totals' = TotalsOf(RootLevel([v EXCEPT !.order = <<v.order[1]>>])),
         UNCHANGED <<book, rollups, opened, pages>>
  PROVE  IInv'
<1>1. rollups = Materialised(book) /\ book \in Books /\ opened = Shut /\ pages = <<>>
  BY DEF IInv
<1>2. root' = Level(book, v, <<>>)
  BY <1>1, RootIsLevel
<1>3. totals' = TotalsOf(Level(book, v, <<>>))
  <2> DEFINE u == [v EXCEPT !.order = <<v.order[1]>>]
  <2>1. u \in Views /\ Level(book, u, <<>>) = Level(book, v, <<>>)
    BY RootOfTruncated
  <2> HIDE DEF u
  <2>2. RootLevel(u) = Level(book, u, <<>>)
    BY <1>1, <2>1, RootIsLevel
  <2> QED
    BY <2>1, <2>2 DEF u
<1>4. (pages \in Seq(Pages(root)))' /\ Len(pages') = 0
  BY <1>1
<1>5. PagedBy("key", FALSE)'
  BY <1>4 DEF PagedBy
<1> QED
  BY <1>1, <1>2, <1>3, <1>4, <1>5 DEF IInv, SortColumns

LEMMA ExpandIInv ==
  ASSUME IInv, NEW keys \in Routes, Expand(keys)
  PROVE  IInv'
<1>1. /\ view # NoView /\ view \in Views /\ IsBook(book)
      /\ UNCHANGED <<book, rollups, view, root, totals, pages>>
  BY BookIs DEF IInv, Expand
<1>2. keys \in Seq(Int) /\ Len(keys) \in Nat /\ Len(view.order) \in Nat
  <2>1. PICK o \in Orders, p \in DOMAIN book :
          keys = [i \in DOMAIN o |-> AsText(o[i], book[p].at[o[i]])]
    BY DEF Routes
  <2>2. o \in Seq(Dims)
    BY <2>1 DEF Orders
  <2>3. ASSUME NEW i \in DOMAIN o
        PROVE  keys[i] \in Int
    <3>1. book[p].at[o[i]] \in Nat
      BY <1>1, <2>1, <2>2, <2>3 DEF IsBook, IsPosition
    <3> QED
      BY <2>1, <2>3, <3>1 DEF AsText
  <2>4. DOMAIN o = 1..Len(o) /\ Len(o) \in Nat /\ DOMAIN keys = DOMAIN o
    BY <2>1, <2>2
  <2> HIDE DEF Routes
  <2>5. keys \in [1..Len(o) -> Int]
    BY <2>1, <2>3, <2>4
  <2> QED
    BY <1>1, <2>4, <2>5, ViewIs
<1>3. CASE PathFails(view.order, keys)
  BY <1>1, <1>3 DEF Expand, IInv, PagedBy
<1>4. CASE ~PathFails(view.order, keys)
  <2> DEFINE path == BuildPath(view.order, keys)
  <2>1. /\ opened'.keys = keys /\ Len(keys) <= Len(view.order)
        /\ opened'.answer = IF opened'.leaf THEN Leaf(book, view, path) ELSE Level(book, view, path)
    <3> DEFINE leaf == Len(path) >= Len(view.order)
               answer == IF leaf THEN Leaf(book, view, path) ELSE Level(book, view, path)
    <3>1. opened' = [keys |-> keys, leaf |-> leaf, answer |-> answer]
      BY <1>4 DEF Expand
    <3>2. Len(keys) <= Len(view.order)
      BY <1>2, <1>4 DEF PathFails
    <3> HIDE DEF leaf, path
    <3> QED
      BY <3>1, <3>2
  <2>2. \E c \in SortColumns, d \in BOOLEAN : PagedBy(c, d)'
    BY <1>1 DEF IInv, PagedBy
  <2> QED
    BY <1>1, <1>2, <2>1, <2>2 DEF IInv
<1> QED
  BY <1>3, <1>4

LEMMA FetchIInv ==
  ASSUME IInv, NEW c \in SortColumns, NEW d \in BOOLEAN, FetchPage(c, d)
  PROVE  IInv'
<1>1. /\ view # NoView /\ view \in Views /\ root = Level(book, view, <<>>) /\ IsBook(book)
      /\ pages \in Seq(Pages(root))
  BY BookIs DEF IInv, FetchPage
<1>2. RootLevel(view) = root
  BY <1>1, RootIsLevel DEF IInv
<1> DEFINE n == Len(pages)
<1>3. PICK s \in Sorted(root, c, d) :
        pages' = Append(pages, [column |-> c, descending |-> d, rows |-> Slice(s, n * PageSize)])
  BY <1>2 DEF FetchPage
<1> DEFINE page == [column |-> c, descending |-> d, rows |-> Slice(s, n * PageSize)]
<1>4. page \in Pages(root)
  <2>1. IsFiniteSet(root)
    BY <1>1, LevelGroups
  <2>2. Slice(s, n * PageSize) \subseteq root
    BY <2>1, SortedIs DEF Slice
  <2> QED
    BY <2>2 DEF Pages
<1> HIDE DEF page
<1>5. /\ pages' = Append(pages, page) /\ n \in Nat /\ pages' \in Seq(Pages(root)) /\ Len(pages') = n + 1
      /\ pages'[n + 1] = page /\ \A i \in 1..n : pages'[i] = pages[i]
  BY <1>1, <1>3, <1>4 DEF page
<1>6. PagedBy(c, d)
  <2>1. PICK e \in SortColumns, f \in BOOLEAN : PagedBy(e, f)
    BY DEF IInv
  <2>2. CASE pages = <<>>
    BY <2>2 DEF PagedBy
  <2>3. CASE pages # <<>>
    <3>1. 1 \in 1..Len(pages)
      BY <1>1, <2>3
    <3>2. c = pages[1].column /\ d = pages[1].descending
      BY <2>3 DEF FetchPage
    <3>3. c = e /\ d = f
      BY <2>1, <3>1, <3>2 DEF PagedBy
    <3> QED
      BY <2>1, <3>3
  <2> QED
    BY <2>2, <2>3
<1>7. root' = root /\ UNCHANGED <<book, rollups, view, totals, opened>>
  BY DEF FetchPage
<1>8. PagedBy(c, d)'
  <2> SUFFICES ASSUME NEW i \in 1..Len(pages')
               PROVE  /\ pages'[i].column = c /\ pages'[i].descending = d
                      /\ \E t \in Sorted(root, c, d) : pages'[i].rows = Slice(t, (i - 1) * PageSize)
    BY <1>7 DEF PagedBy
  <2>1. CASE i \in 1..n
    BY <1>5, <1>6, <2>1 DEF PagedBy
  <2>2. CASE i = n + 1
    <3>1. pages'[i] = page /\ i - 1 = n
      BY <1>5, <2>2
    <3> QED
      BY <3>1 DEF page
  <2> QED
    BY <1>5, <2>1, <2>2
<1> QED
  BY <1>1, <1>5, <1>7, <1>8 DEF IInv

LEMMA StepIInv == IInv /\ [Next]_vars => IInv'
<1> SUFFICES ASSUME IInv, [Next]_vars PROVE IInv'
  OBVIOUS
<1>1. ASSUME NEW v \in Views, Show(v) PROVE IInv'
  BY <1>1, ShownIInv DEF Show
<1>2. ASSUME NEW v \in Views, NEW depth \in 1..2, Mail(v, depth) PROVE IInv'
  BY <1>2, ShownIInv DEF Mail
<1>3. ASSUME NEW keys \in Routes, Expand(keys) PROVE IInv'
  BY <1>3, ExpandIInv
<1>4. ASSUME NEW c \in {"key", "worst"}, NEW desc \in BOOLEAN, FetchPage(c, desc) PROVE IInv'
  BY <1>4, FetchIInv DEF SortColumns
<1>5. CASE UNCHANGED vars
  BY <1>5 DEF vars, IInv, PagedBy
<1> QED
  BY <1>1, <1>2, <1>3, <1>4, <1>5 DEF Next

LEMMA IInvAlways == Spec => []IInv
<1> QED
  BY InitIInv, StepIInv, PTL DEF Spec

-----------------------------------------------------------------------------
(* The theorems                                                            *)

\* Whichever tier answers a view, its root level is what the frame gives.
THEOREM RollupIsExactAlways == Spec => []RollupIsExact
<1>1. IInv => RollupIsExact
  BY DEF IInv, RollupIsExact
<1> QED
  BY <1>1, IInvAlways, PTL

\* The total row is that of the positions under the rows on screen, and its
\* worst is no worse than their worsts summed.
THEOREM TotalsCoverRowsAlways == Spec => []TotalsCoverRows
<1>1. ASSUME IInv, view # NoView PROVE TotalsCoverRows
  <2> DEFINE P == Covered(book, view, <<>>)
             pnl == [s \in Scens |-> Sum([r \in root |-> r.pnl[s]])]
  <2>1. /\ IsBook(book) /\ view \in Views /\ root = Level(book, view, <<>>)
        /\ totals = TotalsOf(root)
    BY <1>1, BookIs DEF IInv
  <2>2. P = {p \in Selected(book, view, <<>>) : book[p].at[view.order[1]] \in {r.key : r \in root}}
    BY <2>1 DEF Covered, GroupBy
  <2>3. /\ totals.positions = Sum([r \in root |-> r.positions])
        /\ totals.pnl = pnl /\ totals.worst = Least(pnl)
    <3>1. totals = TotalsOf(root)
      BY <2>1
    <3> QED
      BY ONLY <3>1 DEF TotalsOf
  <2>4. totals.positions = Cardinality(P)
    BY <2>1, <2>3, LevelCounts
  <2>5. ASSUME NEW s \in Scens PROVE totals.pnl[s] = Sum([p \in P |-> book[p].pnl[s]])
    <3>1. Sum([r \in root |-> r.pnl[s]]) = Sum([p \in P |-> book[p].pnl[s]])
      BY <2>1, LevelAddsUp
    <3>2. totals.pnl[s] = Sum([r \in root |-> r.pnl[s]])
      BY <2>3
    <3> QED
      BY <3>1, <3>2
  <2>6. totals.worst = Least(totals.pnl) /\ totals.worst >= Sum([r \in root |-> r.worst])
    <3>1. Least(pnl) >= Sum([r \in root |-> r.worst])
      BY <2>1, WorstOfSum
    <3> HIDE DEF pnl
    <3> QED
      BY <2>3, <3>1
  <2> HIDE DEF P
  <2> QED
    BY <2>2, <2>4, <2>5, <2>6 DEF TotalsCoverRows
<1>2. IInv => TotalsCoverRows
  BY <1>1 DEF TotalsCoverRows
<1> QED
  BY <1>2, IInvAlways, PTL

\* A filter on a measure or a scenario shows fewer rows, and none with another
\* number.
THEOREM GroupFilterKeepsSumsAlways == Spec => []GroupFilterKeepsSums
<1>1. ASSUME IInv, view # NoView,
             view.measured \/ \A f \in view.filters : f.column # "m"
      PROVE  LET on == {f \in view.filters : f.column \in Dims}
             IN  root \subseteq Level(book, [view EXCEPT !.filters = on], <<>>)
  <2> DEFINE on == {f \in view.filters : f.column \in Dims}
             u == [view EXCEPT !.filters = on]
  <2>1. view \in Views /\ root = Level(book, view, <<>>)
    BY <1>1 DEF IInv
  <2>2. /\ u.order = view.order /\ u.filters = on /\ u.details = view.details
        /\ u.measured = view.measured
    BY <2>1 DEF Views
  <2> HIDE DEF u
  <2>3. \A f \in view.filters : f.column \in Dims \cup Scens \cup {"positions", "m", "worst"}
    BY <2>1, ViewIs, PivotAssumption
  <2>4. Pre(view) = on
    BY <1>1, <2>3, PivotAssumption DEF Pre, Post
  <2>5. Post(u) = {} /\ Pre(u) = on
    BY <2>2, PivotAssumption DEF Pre, Post
  <2>6. Selected(book, u, <<>>) = Selected(book, view, <<>>)
    BY <2>4, <2>5 DEF Selected
  <2>7. GroupBy(u, <<>>) = GroupBy(view, <<>>) /\ DetailsOf(u, <<>>) = DetailsOf(view, <<>>)
    BY <2>2 DEF GroupBy, DetailsOf
  <2>8. \A k : RowOf(book, u, <<>>, k) = RowOf(book, view, <<>>, k)
    BY <2>2, <2>6, <2>7, SameRows
  <2>9. \A r : Shown(u, r)
    BY <2>5 DEF Shown
  <2>10. Level(book, view, <<>>) \subseteq Level(book, u, <<>>)
    BY <2>6, <2>7, <2>8, <2>9, LevelIs
  <2> QED
    BY <2>1, <2>10 DEF u
<1>2. IInv => GroupFilterKeepsSums
  BY <1>1 DEF GroupFilterKeepsSums
<1> QED
  BY <1>2, IInvAlways, PTL

\* With no filter on rows, a level has a row for every position under its path.
LEMMA AllCovered ==
  ASSUME NEW b, NEW v, NEW path, Post(v) = {}
  PROVE  Covered(b, v, path) = Selected(b, v, path)
<1>1. ASSUME NEW p \in Selected(b, v, path) PROVE p \in Covered(b, v, path)
  <2> DEFINE k == b[p].at[GroupBy(v, path)]
             r == RowOf(b, v, path, k)
  <2>1. r \in Level(b, v, path)
    BY LevelIs DEF Shown
  <2> HIDE DEF k
  <2>2. r.key = k
    BY DEF RowOf, Row
  <2> HIDE DEF r
  <2> QED
    BY <2>1, <2>2 DEF Covered, k
<1> QED
  BY <1>1 DEF Covered

\* A row of numbers and names, read back: its keys stand for the values the grid
\* wrote them from.
LEMMA ReadBack ==
  ASSUME IInv, opened # Shut, \A i \in DOMAIN opened.keys : opened.keys[i] # Null
  PROVE  Under(opened.keys) = Selected(book, view, BuildPath(view.order, opened.keys))
<1> DEFINE keys == opened.keys
           path == BuildPath(view.order, keys)
<1>1. /\ IsBook(book) /\ view \in Views /\ keys \in Seq(Int)
      /\ Len(keys) <= Len(view.order) /\ view.order \in Seq(Dims)
  BY BookIs, ViewIs DEF IInv
<1>2. DOMAIN path = DOMAIN keys
  BY DEF BuildPath
<1>3. ASSUME NEW p \in DOMAIN book, NEW i \in DOMAIN keys
      PROVE  AsText(view.order[i], book[p].at[view.order[i]]) = keys[i]
               <=> path[i] # Null /\ book[p].at[view.order[i]] = path[i]
  <2>1. view.order[i] \in Dims /\ keys[i] \in Int /\ keys[i] # 0
    BY <1>1, <1>3 DEF Null
  <2>2. book[p].at[view.order[i]] \in Nat
    BY <1>1, <2>1 DEF IsBook, IsPosition
  <2>3. path[i] = IF view.order[i] \in Numbers THEN 0 - keys[i] ELSE keys[i]
    BY DEF BuildPath
  <2> HIDE DEF keys, path
  <2> QED
    BY <2>1, <2>2, <2>3 DEF AsText, Null
<1> HIDE DEF keys, path
<1>4. Under(keys) = Selected(book, view, path)
  BY <1>2, <1>3 DEF Under, Selected
<1> QED
  BY <1>4 DEF keys, path

\* What an expanded row opens adds up to the positions under it, though its keys
\* come back as strings.
THEOREM ExpandedAddsUpAlways == Spec => []ExpandedAddsUp
<1>1. ASSUME IInv, opened # Shut, Post(view) = {},
             \A i \in DOMAIN opened.keys : opened.keys[i] # Null
      PROVE  ExpandedAddsUp
  <2> DEFINE path == BuildPath(view.order, opened.keys)
             P == Under(opened.keys)
             R == opened.answer
  <2>1. /\ IsBook(book)
        /\ R = IF opened.leaf THEN Leaf(book, view, path) ELSE Level(book, view, path)
    BY <1>1, BookIs DEF IInv
  <2>2. P = Selected(book, view, path)
    BY <1>1, ReadBack
  <2> HIDE DEF path
  <2>3. ASSUME opened.leaf PROVE R = P
    BY <1>1, <2>1, <2>2, <2>3 DEF Leaf
  <2>4. ASSUME ~opened.leaf
        PROVE  /\ Sum([r \in R |-> r.positions]) = Cardinality(P)
               /\ \A s \in Scens : Sum([r \in R |-> r.pnl[s]]) = Sum([p \in P |-> book[p].pnl[s]])
    <3>1. R = Level(book, view, path) /\ P = Covered(book, view, path)
      BY <1>1, <2>1, <2>2, <2>4, AllCovered
    <3> HIDE DEF R, P
    <3>2. Sum([r \in R |-> r.positions]) = Cardinality(P)
      BY <2>1, <3>1, LevelCounts
    <3>3. ASSUME NEW s \in Scens
          PROVE  Sum([r \in R |-> r.pnl[s]]) = Sum([p \in P |-> book[p].pnl[s]])
      BY <2>1, <3>1, LevelAddsUp
    <3> QED
      BY <3>2, <3>3
  <2> QED
    BY <2>3, <2>4 DEF ExpandedAddsUp
<1>2. IInv => ExpandedAddsUp
  BY <1>1 DEF ExpandedAddsUp
<1> QED
  BY <1>2, IInvAlways, PTL

LEMMA DivMod ==
  ASSUME NEW k \in Nat, NEW m \in Nat, m > 0
  PROVE  /\ k \div m \in Nat /\ k % m \in 0..(m - 1)
         /\ k = (m * (k \div m)) + (k % m)
OBVIOUS

\* The pages of one size that a place may be on.
LEMMA OnePage ==
  ASSUME NEW k \in Nat, NEW i \in Nat, NEW j \in Nat, i < j, NEW m \in Nat, k <= i * m
  PROVE  ~((j - 1) * m < k)
<1>1. i <= j - 1
  OBVIOUS
<1>2. i * m <= (j - 1) * m
  BY <1>1
<1> QED
  BY <1>2

LEMMA SomePage ==
  ASSUME NEW n \in Nat, NEW m \in Nat, m > 0, NEW k \in Nat, 0 < k, k <= n * m
  PROVE  \E i \in 1..n : (i - 1) * m < k /\ k <= (i - 1) * m + m
<1> DEFINE q == (k - 1) \div m
           r == (k - 1) % m
<1>1. q \in Nat /\ r \in 0..(m - 1) /\ k - 1 = (m * q) + r
  BY DivMod
<1> HIDE DEF q, r
<1>2. q < n
  <2>1. SUFFICES ASSUME n <= q PROVE FALSE
    BY <1>1
  <2>2. n * m <= q * m
    BY <1>1, <2>1
  <2>3. m * q = q * m /\ m * q \in Int /\ n * m \in Int
    BY <1>1
  <2> QED
    BY <1>1, <2>2, <2>3
<1>3. m * q = q * m /\ m * q \in Int
  BY <1>1
<1>4. (q + 1) - 1 = q /\ q + 1 \in 1..n
  BY <1>1, <1>2
<1>5. q * m < k /\ k <= q * m + m
  BY <1>1, <1>3
<1> QED
  BY <1>4, <1>5

\* Pages fetched one by one, each sorted anew, show every row once when no two
\* rows tie.
THEOREM PagesPartitionAlways == Spec => []PagesPartition
<1>1. ASSUME IInv, pages # <<>>,
             \A a, b \in root : SortKey(a, pages[1].column) = SortKey(b, pages[1].column) => a = b
      PROVE  LET n == Len(pages)
             IN  /\ \A i, j \in 1..n : i # j => pages[i].rows \cap pages[j].rows = {}
                 /\ n * PageSize >= Cardinality(root) => UNION {pages[i].rows : i \in 1..n} = root
  <2> DEFINE n == Len(pages)
             N == Cardinality(root)
  <2>1. /\ IsBook(book) /\ view \in Views /\ root = Level(book, view, <<>>)
        /\ n \in Nat /\ 1 \in 1..n
    BY <1>1, BookIs DEF IInv
  <2>2. PICK c \in SortColumns, d \in BOOLEAN : PagedBy(c, d)
    BY <1>1 DEF IInv
  <2>3. c = pages[1].column
    BY <2>1, <2>2 DEF PagedBy
  <2>4. IsFiniteSet(root) /\ N \in Nat
    BY <2>1, LevelGroups, FS_CardinalityType
  <2>5. \A r \in root : SortKey(r, c) \in Int
    <3>1. GroupBy(view, <<>>) \in Dims
      BY <2>1, ViewIs DEF GroupBy
    <3> QED
      BY <2>1, <3>1, RowKeys
  <2>6. PICK s \in Sorted(root, c, d) : pages[1].rows = Slice(s, (1 - 1) * PageSize)
    BY <2>1, <2>2 DEF PagedBy
  <2>7. \A i \in 1..n : pages[i].rows = Slice(s, (i - 1) * PageSize)
    <3>1. \A t \in Sorted(root, c, d) : t = s
      BY <1>1, <2>3, <2>4, <2>5, SortedOnce
    <3> QED
      BY <2>2, <3>1 DEF PagedBy
  <2>8. /\ s \in [1..N -> root]
        /\ \A i, j \in 1..N : s[i] = s[j] => i = j
        /\ \A r \in root : \E i \in 1..N : s[i] = r
    BY <2>4, SortedIs
  <2>9. PageSize \in Nat /\ PageSize > 0
    BY PivotAssumption
  <2> HIDE DEF n, N
  <2>10. ASSUME NEW i \in 1..n
         PROVE  pages[i].rows = {s[k] : k \in {l \in 1..N : (i - 1) * PageSize < l
                                                       /\ l <= (i - 1) * PageSize + PageSize}}
    BY <2>7, <2>8 DEF Slice
  <2>11. ASSUME NEW i \in 1..n, NEW j \in 1..n, i < j, NEW r \in pages[i].rows \cap pages[j].rows
         PROVE  FALSE
    <3>1. PICK k \in 1..N : s[k] = r /\ k <= (i - 1) * PageSize + PageSize
      BY <2>10, <2>11
    <3>2. PICK l \in 1..N : s[l] = r /\ (j - 1) * PageSize < l
      BY <2>10, <2>11
    <3>3. k = l
      BY <2>8, <3>1, <3>2
    <3>4. (i - 1) * PageSize + PageSize = i * PageSize /\ i \in Nat /\ j \in Nat /\ k \in Nat
      BY <2>1, <2>4, <2>9
    <3> QED
      BY <2>9, <2>11, <3>1, <3>2, <3>3, <3>4, OnePage
  <2>12. \A i, j \in 1..n : i # j => pages[i].rows \cap pages[j].rows = {}
    <3> SUFFICES ASSUME NEW i \in 1..n, NEW j \in 1..n, i # j,
                        NEW r \in pages[i].rows \cap pages[j].rows
                 PROVE  FALSE
      OBVIOUS
    <3>1. i < j \/ j < i
      BY <2>1
    <3> QED
      BY <2>11, <3>1
  <2>13. ASSUME n * PageSize >= N PROVE UNION {pages[i].rows : i \in 1..n} = root
    <3>1. \A i \in 1..n : pages[i].rows \subseteq root
      BY <2>8, <2>10
    <3>2. ASSUME NEW r \in root PROVE \E i \in 1..n : r \in pages[i].rows
      <4>1. PICK k \in 1..N : s[k] = r
        BY <2>8
      <4>2. k \in Nat /\ 0 < k /\ k <= n * PageSize
        <5>1. n * PageSize \in Int
          BY <2>1, <2>9
        <5> QED
          BY <2>4, <2>13, <5>1
      <4>3. PICK i \in 1..n : (i - 1) * PageSize < k /\ k <= (i - 1) * PageSize + PageSize
        BY <2>1, <2>9, <4>2, SomePage
      <4> QED
        BY <2>10, <4>1, <4>3
    <3> QED
      BY <3>1, <3>2
  <2> QED
    BY <2>12, <2>13 DEF n, N
<1>2. IInv => PagesPartition
  BY <1>1 DEF PagesPartition
<1> QED
  BY <1>2, IInvAlways, PTL

-----------------------------------------------------------------------------
(* Reports                                                                 *)

\* Finitely many things can be put in the order of their numbers.
LEMMA InOrder ==
  ASSUME NEW S, IsFiniteSet(S), NEW K \in [S -> Int]
  PROVE  \E x \in [1..Cardinality(S) -> S] :
           \A i, j \in 1..Cardinality(S) : i < j => x[i] # x[j] /\ K[x[i]] <= K[x[j]]
<1> DEFINE Orders2(s) == {x \in [1..Cardinality(s) -> s] :
                            \A i, j \in 1..Cardinality(s) : i < j => x[i] # x[j] /\ K[x[i]] <= K[x[j]]}
           Bad == {s \in SUBSET S : Orders2(s) = {}}
<1>1. SUFFICES ASSUME Bad # {} PROVE FALSE
  <2>1. S \notin Bad
    BY <1>1
  <2>2. Orders2(S) # {}
    BY <2>1
  <2> QED
    BY <2>2
<1>2. PICK s \in Bad : \A u \in Bad : u \subseteq s => u = s
  <2>1. Bad \in SUBSET (SUBSET S)
    OBVIOUS
  <2> HIDE DEF Bad
  <2> QED
    BY <1>1, <2>1, LeastSet
<1>3. s \in SUBSET S /\ Orders2(s) = {}
  OBVIOUS
<1> DEFINE n == Cardinality(s)
<1>4. IsFiniteSet(s) /\ n \in Nat
  BY <1>3, FS_Subset, FS_CardinalityType
<1>5. s # {}
  <2>1. SUFFICES ASSUME s = {} PROVE FALSE
    OBVIOUS
  <2>2. n = 0
    BY <2>1, FS_EmptySet
  <2>3. [i \in 1..n |-> i] \in Orders2(s)
    BY <2>1, <2>2
  <2> QED
    BY <1>3, <2>3
<1>6. PICK z \in s : \A y \in s : K[y] <= K[z]
  <2> DEFINE f == [y \in s |-> 0 - K[y]]
  <2>1. f \in [s -> Int]
    BY <1>3
  <2>2. PICK z \in s : \A y \in s : f[z] <= f[y]
    <3> HIDE DEF f
    <3> QED
      BY <1>4, <1>5, <2>1, LeastIs
  <2>3. \A y \in s : K[y] \in Int
    BY <1>3
  <2> QED
    BY <2>2, <2>3
<1>7. s \ {z} \notin Bad /\ s \ {z} \in SUBSET S
  BY <1>2, <1>3, <1>6
<1>8. Cardinality(s \ {z}) = n - 1 /\ n >= 1
  <2>1. Cardinality(s \ {z}) = n - 1 /\ IsFiniteSet(s \ {z})
    BY <1>4, <1>6, FS_RemoveElement
  <2>2. Cardinality(s \ {z}) \in Nat
    BY <2>1, FS_CardinalityType
  <2> QED
    BY <1>4, <2>1, <2>2
<1>9. PICK x \in [1..(n - 1) -> s \ {z}] :
        \A i, j \in 1..(n - 1) : i < j => x[i] # x[j] /\ K[x[i]] <= K[x[j]]
  <2>1. Orders2(s \ {z}) # {}
    BY <1>7
  <2> HIDE DEF n
  <2> QED
    BY <1>8, <2>1
<1> DEFINE w == [i \in 1..n |-> IF i = n THEN z ELSE x[i]]
<1> HIDE DEF Bad
<1>10. w \in Orders2(s)
  <2> HIDE DEF n
  <2>1. \A i \in 1..n : i # n => i \in 1..(n - 1)
    BY <1>4
  <2>2. w \in [1..n -> s]
    BY <1>6, <1>9, <2>1
  <2>3. ASSUME NEW i \in 1..n, NEW j \in 1..n, i < j
        PROVE  w[i] # w[j] /\ K[w[i]] <= K[w[j]]
    <3>1. i # n /\ i \in 1..(n - 1) /\ w[i] = x[i] /\ x[i] \in s \ {z}
      BY <1>4, <1>9, <2>1, <2>3
    <3>2. CASE j = n
      BY <1>6, <3>1, <3>2
    <3>3. CASE j # n
      <4>1. j \in 1..(n - 1) /\ w[j] = x[j]
        BY <2>1, <3>3
      <4> QED
        BY <1>9, <2>3, <3>1, <4>1
    <3> QED
      BY <3>2, <3>3
  <2> HIDE DEF w
  <2> QED
    BY <2>2, <2>3 DEF n
<1> QED
  BY <1>3, <1>10

\* A sum does not change when its terms are listed otherwise.
LEMMA OverReindexed ==
  ASSUME NEW S, NEW T, IsFiniteSet(S), IsFiniteSet(T), NEW h \in [S -> T],
         \A x, y \in S : h[x] = h[y] => x = y, \A t \in T : \E x \in S : h[x] = t,
         NEW f, NEW g, \A x \in S : f[x] \in Int /\ g[h[x]] = f[x]
  PROVE  Over(g, T) = Over(f, S)
<1>1. ASSUME NEW t \in T PROVE g[t] = Over(f, Members(S, h, t))
  <2>1. PICK x \in S : h[x] = t
    OBVIOUS
  <2>2. Members(S, h, t) = {x}
    BY <2>1 DEF Members
  <2>3. Over(f, {x}) = f[x] + Over(f, {x} \ {x})
    <3>1. IsFiniteSet({x}) /\ x \in {x} /\ \A y \in {x} : f[y] \in Int
      BY FS_Singleton
    <3> QED
      BY <3>1, OverLess
  <2>4. {x} \ {x} = {} /\ f[x] \in Int /\ g[t] = f[x]
    BY <2>1
  <2>5. Over(f, {x} \ {x}) = 0
    BY <2>4, OverNone
  <2> QED
    BY <2>2, <2>3, <2>4, <2>5
<1> QED
  BY <1>1, OverGroups

\* A line of a report, and what the lines of lines that are in Q hold.
Line == [path : Seq(Int), holds : Int]
HoldsIn(lines, Q) ==
  Over([i \in {j \in DOMAIN lines : lines[j] \in Q} |-> lines[i].holds],
       {j \in DOMAIN lines : lines[j] \in Q})

LEMMA HoldsInType ==
  ASSUME NEW L \in Seq(Line), NEW Q
  PROVE  LET I == {j \in DOMAIN L : L[j] \in Q}
         IN  /\ IsFiniteSet(I) /\ I \subseteq 1..Len(L)
             /\ \A i \in I : L[i].holds \in Int
             /\ HoldsIn(L, Q) \in Int
<1> DEFINE I == {j \in DOMAIN L : L[j] \in Q}
           f == [i \in I |-> L[i].holds]
<1>1. DOMAIN L = 1..Len(L) /\ Len(L) \in Nat /\ \A i \in DOMAIN L : L[i] \in Line
  OBVIOUS
<1>2. I \subseteq 1..Len(L) /\ \A i \in I : L[i].holds \in Int
  BY <1>1 DEF Line
<1>3. IsFiniteSet(I)
  <2>1. IsFiniteSet(1..Len(L))
    BY <1>1, FS_Interval
  <2> HIDE DEF I
  <2> QED
    BY <1>2, <2>1, FS_Subset
<1>4. Over(f, I) \in Int
  <2>1. \A i \in I : f[i] \in Int
    BY <1>2
  <2> HIDE DEF f, I
  <2> QED
    BY <1>3, <2>1, OverType
<1> QED
  BY <1>2, <1>3, <1>4 DEF HoldsIn

\* Lines after lines hold what both hold.
LEMMA HoldsInBoth ==
  ASSUME NEW L \in Seq(Line), NEW M \in Seq(Line), NEW Q
  PROVE  HoldsIn(L \o M, Q) = HoldsIn(L, Q) + HoldsIn(M, Q)
<1> DEFINE n == Len(L)
           N == L \o M
           I == {j \in DOMAIN L : L[j] \in Q}
           J == {j \in DOMAIN M : M[j] \in Q}
           K == {j \in DOMAIN N : N[j] \in Q}
           H == {j \in K : j > n}
           f == [i \in I |-> L[i].holds]
           g == [i \in J |-> M[i].holds]
           e == [i \in K |-> N[i].holds]
<1>1. /\ n \in Nat /\ Len(M) \in Nat /\ N \in Seq(Line) /\ Len(N) = n + Len(M)
      /\ DOMAIN L = 1..n /\ DOMAIN M = 1..Len(M) /\ DOMAIN N = 1..(n + Len(M))
      /\ \A i \in 1..n : N[i] = L[i]
      /\ \A i \in 1..Len(M) : N[n + i] = M[i]
  OBVIOUS
<1>2. /\ IsFiniteSet(I) /\ IsFiniteSet(J) /\ IsFiniteSet(K)
      /\ \A i \in I : f[i] \in Int
      /\ \A i \in J : g[i] \in Int
      /\ \A i \in K : e[i] \in Int
  BY <1>1, HoldsInType
<1> HIDE DEF N
<1>3. K = I \cup H /\ I \cap H = {} /\ H \subseteq K
  BY <1>1
<1>4. IsFiniteSet(H)
  BY <1>2, <1>3, FS_Subset
<1>5. Over(e, I) = Over(f, I)
  <2>1. \A i \in I : e[i] = f[i]
    BY <1>1, <1>3
  <2> HIDE DEF e, f, I
  <2> QED
    BY <2>1, OverAgrees
<1>6. Over(e, H) = Over(g, J)
  <2> DEFINE h == [j \in J |-> n + j]
  <2>1. h \in [J -> H] /\ \A x, y \in J : h[x] = h[y] => x = y
    BY <1>1
  <2>2. ASSUME NEW t \in H PROVE \E x \in J : h[x] = t
    <3>1. t - n \in 1..Len(M) /\ n + (t - n) = t
      BY <1>1
    <3>2. t - n \in J
      BY <1>1, <3>1
    <3> QED
      BY <3>1, <3>2
  <2>3. \A x \in J : g[x] \in Int /\ e[h[x]] = g[x]
    BY <1>1, <1>2, <2>1
  <2> HIDE DEF e, f, g, h, I, J, K, H
  <2>4. \A t \in H : \E x \in J : h[x] = t
    BY <2>2
  <2>5. IsFiniteSet(J) /\ IsFiniteSet(H) /\ h \in [J -> H]
    BY <1>2, <1>4, <2>1
  <2>6. \A x, y \in J : h[x] = h[y] => x = y
    BY <2>1
  <2> QED
    BY <2>3, <2>4, <2>5, <2>6, OverReindexed
<1> HIDE DEF I, J, K, H, e, f, g
<1>7. Over(e, I \cup H) = Over(e, I) + Over(e, H)
  BY <1>2, <1>3, <1>4, OverUnion
<1>8. Over(e, K) = Over(f, I) + Over(g, J)
  BY <1>3, <1>5, <1>6, <1>7
<1> QED
  BY <1>8 DEF HoldsIn, e, f, g, I, J, K, N

\* Lines none of which, or all of which, are in Q.
LEMMA HoldsInNone ==
  ASSUME NEW L \in Seq(Line), NEW Q, \A i \in 1..Len(L) : L[i] \notin Q
  PROVE  HoldsIn(L, Q) = 0
<1> DEFINE I == {j \in DOMAIN L : L[j] \in Q}
<1>1. I = {}
  OBVIOUS
<1> QED
  BY <1>1, OverNone DEF HoldsIn

LEMMA HoldsInOne ==
  ASSUME NEW l \in Line, NEW Q, l \in Q
  PROVE  HoldsIn(<<l>>, Q) = l.holds
<1> DEFINE I == {j \in DOMAIN <<l>> : <<l>>[j] \in Q}
           f == [i \in I |-> <<l>>[i].holds]
<1>1. I = {1} /\ f[1] = l.holds /\ l.holds \in Int
  BY DEF Line
<1> HIDE DEF f, I
<1>2. Over(f, {1}) = f[1] + Over(f, {1} \ {1})
  <2>1. IsFiniteSet({1}) /\ 1 \in {1} /\ \A y \in {1} : f[y] \in Int
    BY <1>1, FS_Singleton
  <2> QED
    BY <2>1, OverLess
<1>3. {1} \ {1} = {} /\ Over(f, {}) = 0
  BY OverNone
<1>4. Over(f, I) = l.holds
  BY <1>1, <1>2, <1>3
<1> QED
  BY <1>4 DEF HoldsIn, f, I

\* F is the sequences of seqs, joined one after the other.
Joined(F, seqs) ==
  \A i \in 1..Len(seqs) : F[i] = IF i = 1 THEN seqs[i] ELSE F[i - 1] \o seqs[i]

LEMMA Joins ==
  ASSUME NEW T, NEW seqs \in Seq(Seq(T)), seqs # <<>>
  PROVE  \E F \in [1..Len(seqs) -> Seq(T)] : Joined(F, seqs) /\ FlattenSeq(seqs) = F[Len(seqs)]
<1> DEFINE N == Len(seqs)
           Part(F, n) == \A i \in 1..n : F[i] = IF i = 1 THEN seqs[i] ELSE F[i - 1] \o seqs[i]
           Good(n) == \E F \in [1..n -> Seq(T)] : Part(F, n)
           Bad == {n \in 1..N : ~Good(n)}
<1>1. N \in Nat /\ N # 0 /\ \A i \in 1..N : seqs[i] \in Seq(T)
  OBVIOUS
<1> HIDE DEF N
<1>2. Bad = {}
  <2>1. SUFFICES ASSUME Bad # {} PROVE FALSE
    OBVIOUS
  <2>2. PICK n \in Bad : \A m \in Bad : n <= m
    <3>1. Bad \in SUBSET Nat
      BY <1>1
    <3> HIDE DEF Bad
    <3> QED
      BY <2>1, <3>1, LeastNumber
  <2>3. n \in 1..N /\ ~ \E F \in [1..n -> Seq(T)] : Part(F, n)
    OBVIOUS
  <2>4. CASE n = 1
    <3> DEFINE F == [i \in 1..n |-> seqs[1]]
    <3>1. F \in [1..n -> Seq(T)] /\ Part(F, n)
      BY <1>1, <2>3, <2>4
    <3> QED
      BY <2>3, <3>1
  <2>5. CASE n # 1
    <3>1. n - 1 \in 1..N /\ n - 1 \notin Bad
      <4>1. n - 1 \in 1..N /\ ~(n <= n - 1)
        BY <1>1, <2>3, <2>5
      <4> QED
        BY <2>2, <4>1
    <3>2. PICK E \in [1..(n - 1) -> Seq(T)] : Part(E, n - 1)
      BY <3>1
    <3> DEFINE F == [i \in 1..n |-> IF i = n THEN E[n - 1] \o seqs[n] ELSE E[i]]
    <3>3. n - 1 \in 1..(n - 1) /\ \A i \in 1..n : i # n => i \in 1..(n - 1)
      BY <1>1, <2>3, <2>5
    <3>4. F \in [1..n -> Seq(T)]
      <4>1. E[n - 1] \o seqs[n] \in Seq(T)
        BY <1>1, <2>3, <3>2, <3>3
      <4> QED
        BY <3>2, <3>3, <4>1
    <3>5. ASSUME NEW i \in 1..n PROVE F[i] = IF i = 1 THEN seqs[i] ELSE F[i - 1] \o seqs[i]
      <4>1. CASE i = n
        <5>1. F[n - 1] = E[n - 1] /\ F[n] = E[n - 1] \o seqs[n]
          <6>1. n - 1 \in 1..n /\ n \in 1..n /\ n - 1 # n
            BY <1>1, <2>3, <2>5
          <6> QED
            BY <6>1
        <5> QED
          BY <2>5, <4>1, <5>1
      <4>2. CASE i # n
        <5>1. i \in 1..(n - 1) /\ F[i] = E[i]
          BY <3>3, <4>2
        <5>2. CASE i = 1
          BY <3>2, <5>1, <5>2
        <5>3. CASE i # 1
          <6>1. i - 1 \in 1..n /\ i - 1 # n
            BY <1>1, <2>3, <5>1, <5>3
          <6>2. F[i - 1] = E[i - 1]
            BY <6>1
          <6> QED
            BY <3>2, <5>1, <5>3, <6>2
        <5> QED
          BY <5>2, <5>3
      <4> QED
        BY <4>1, <4>2
    <3> HIDE DEF F
    <3> QED
      BY <2>3, <3>4, <3>5
  <2> QED
    BY <2>4, <2>5
<1>3. PICK F \in [1..N -> Seq(T)] : Part(F, N)
  <2>1. Good(N)
    <3> HIDE DEF Good
    <3> QED
      BY <1>1, <1>2
  <2> QED
    BY <2>1
<1> DEFINE Rec(f) == f = [i \in 1..N |-> IF i = 1 THEN seqs[i] ELSE f[i - 1] \o seqs[i]]
           C == CHOOSE f : Rec(f)
<1>4. Rec(F)
  BY <1>3
<1>5. Rec(C)
  BY <1>4
<1> HIDE DEF C
<1>6. FlattenSeq(seqs) = C[N]
  BY <1>1 DEF FlattenSeq, C, N
<1>7. C = F
  <2> DEFINE Odd == {i \in 1..N : C[i] # F[i]}
  <2>1. SUFFICES ASSUME Odd # {} PROVE FALSE
    <3>1. C = [i \in 1..N |-> C[i]]
      BY <1>5
    <3>2. F = [i \in 1..N |-> F[i]]
      OBVIOUS
    <3>3. (\A i \in 1..N : C[i] = F[i]) => [i \in 1..N |-> C[i]] = [i \in 1..N |-> F[i]]
      OBVIOUS
    <3> HIDE DEF Rec
    <3> QED
      BY <3>1, <3>2, <3>3
  <2>2. PICK i \in Odd : \A j \in Odd : i <= j
    <3>1. Odd \in SUBSET Nat
      BY <1>1
    <3> HIDE DEF Odd
    <3> QED
      BY <2>1, <3>1, LeastNumber
  <2>3. i # 1
    BY <1>1, <1>3, <1>5
  <2>4. i - 1 \in 1..N /\ ~(i <= i - 1)
    BY <1>1, <2>3
  <2>5. C[i - 1] = F[i - 1]
    BY <2>2, <2>4
  <2>6. C[i] = C[i - 1] \o seqs[i] /\ F[i] = F[i - 1] \o seqs[i]
    BY <1>3, <1>5, <2>3
  <2> QED
    BY <2>5, <2>6
<1> QED
  BY <1>1, <1>3, <1>6, <1>7 DEF Joined, N

\* The lines of groups, and the lines under the group k.
Heads   == {l \in Line : Len(l.path) <= 1}
Kids(k) == {l \in Line : Len(l.path) > 1 /\ l.path[1] = k}

\* Groups with keys of their own, and the lines under each of them.
IsTree(roots, under) ==
  /\ roots \in Seq(Line) /\ under \in [1..Len(roots) -> Seq(Line)]
  /\ \A i \in 1..Len(roots) : Len(roots[i].path) = 1
  /\ \A i, j \in 1..Len(roots) : roots[i].path[1] = roots[j].path[1] => i = j
  /\ \A i \in 1..Len(roots) : \A j \in 1..Len(under[i]) : under[i][j] \in Kids(roots[i].path[1])

\* Each line that is under a group follows one of that group.
Nested(L) ==
  \A j \in 1..Len(L) : Len(L[j].path) > 1 => j > 1 /\ L[j - 1].path[1] = L[j].path[1]

LEMMA SameIndices ==
  ASSUME NEW L \in Seq(Line), NEW Q, NEW R, \A i \in 1..Len(L) : L[i] \in Q <=> L[i] \in R
  PROVE  HoldsIn(L, Q) = HoldsIn(L, R)
<1>1. {j \in DOMAIN L : L[j] \in Q} = {j \in DOMAIN L : L[j] \in R}
  OBVIOUS
<1> QED
  BY <1>1 DEF HoldsIn

\* A group and the lines under it.
Block(roots, under, i) == <<roots[i]>> \o under[i]

IsBlock(B, r, U) ==
  /\ B \in Seq(Line) /\ Nested(B)
  /\ \A j \in 1..Len(B) : Len(B[j].path) <= 1 => B[j] = r
  /\ HoldsIn(B, Heads) = r.holds
  /\ \A k : HoldsIn(B, Kids(k)) = IF k = r.path[1] THEN HoldsIn(U, Line) ELSE 0

LEMMA BlockHolds ==
  ASSUME NEW roots, NEW under, IsTree(roots, under), NEW i \in 1..Len(roots)
  PROVE  IsBlock(Block(roots, under, i), roots[i], under[i])
<1> DEFINE r == roots[i]
           U == under[i]
           B == Block(roots, under, i)
           key == r.path[1]
<1>1. /\ r \in Line /\ Len(r.path) = 1 /\ U \in Seq(Line) /\ Len(U) \in Nat
      /\ \A j \in 1..Len(U) : U[j] \in Line /\ Len(U[j].path) > 1 /\ U[j].path[1] = key
  <2>1. r \in Line /\ Len(r.path) = 1
    BY DEF IsTree
  <2>2. U \in Seq(Line) /\ \A j \in 1..Len(U) : U[j] \in Kids(key)
    BY DEF IsTree
  <2> QED
    BY <2>1, <2>2 DEF Kids
<1>0. B = <<r>> \o U
  BY DEF Block
<1> HIDE DEF r, U, B
<1>2. /\ B \in Seq(Line) /\ Len(B) = 1 + Len(U) /\ B[1] = r
      /\ \A j \in 1..Len(U) : B[1 + j] = U[j]
  <2> DEFINE C == <<r>> \o U
  <2>1. /\ C \in Seq(Line) /\ Len(C) = 1 + Len(U) /\ C[1] = r
        /\ \A j \in 1..Len(U) : C[1 + j] = U[j]
    BY <1>1
  <2> HIDE DEF C
  <2>2. B = C
    BY <1>0 DEF C
  <2> QED
    BY <2>1, <2>2
<1>3. \A j \in 1..Len(B) : j # 1 => j - 1 \in 1..Len(U) /\ B[j] = U[j - 1]
  <2>1. ASSUME NEW j \in 1..Len(B), j # 1 PROVE j - 1 \in 1..Len(U) /\ B[j] = U[j - 1]
    <3>1. j - 1 \in 1..Len(U) /\ 1 + (j - 1) = j
      BY <1>1, <1>2, <2>1
    <3> QED
      BY <1>2, <3>1
  <2> QED
    BY <2>1
<1>4. <<r>> \in Seq(Line) /\ Len(<<r>>) = 1 /\ <<r>>[1] = r
  BY <1>1
<1>5. r \in Heads /\ \A k : r \notin Kids(k)
  <2>1. r \in Line /\ Len(r.path) <= 1 /\ ~(Len(r.path) > 1)
    BY <1>1
  <2> QED
    BY <2>1 DEF Heads, Kids
<1>6. \A j \in 1..Len(U) : U[j] \notin Heads /\ \A k : U[j] \in Kids(k) <=> k = key
  BY <1>1 DEF Heads, Kids
<1>7. HoldsIn(U, Heads) = 0 /\ HoldsIn(<<r>>, Heads) = r.holds /\ r.holds \in Int
  <2>1. HoldsIn(U, Heads) = 0
    BY <1>1, <1>6, HoldsInNone
  <2>2. HoldsIn(<<r>>, Heads) = r.holds
    BY <1>1, <1>5, HoldsInOne
  <2> QED
    BY <1>1, <2>1, <2>2 DEF Line
<1>8. ASSUME NEW k PROVE HoldsIn(<<r>>, Kids(k)) = 0
  <2>1. \A j \in 1..Len(<<r>>) : <<r>>[j] \notin Kids(k)
    BY <1>4, <1>5
  <2> QED
    BY <1>4, <2>1, HoldsInNone
<1>9. ASSUME NEW k PROVE HoldsIn(U, Kids(k)) = IF k = key THEN HoldsIn(U, Line) ELSE 0
  <2>1. CASE k = key
    <3>1. \A j \in 1..Len(U) : U[j] \in Kids(k) <=> U[j] \in Line
      BY <1>1, <1>6, <2>1
    <3> QED
      BY <1>1, <2>1, <3>1, SameIndices
  <2>2. CASE k # key
    BY <1>1, <1>6, <2>2, HoldsInNone
  <2> QED
    BY <2>1, <2>2
<1>10. HoldsIn(B, Heads) = r.holds
  <2>1. HoldsIn(B, Heads) = HoldsIn(<<r>>, Heads) + HoldsIn(U, Heads)
    BY <1>0, <1>1, <1>4, HoldsInBoth
  <2> QED
    BY <1>7, <2>1
<1>11. ASSUME NEW k PROVE HoldsIn(B, Kids(k)) = IF k = key THEN HoldsIn(U, Line) ELSE 0
  <2>1. HoldsIn(B, Kids(k)) = HoldsIn(<<r>>, Kids(k)) + HoldsIn(U, Kids(k))
    BY <1>0, <1>1, <1>4, HoldsInBoth
  <2>2. HoldsIn(U, Line) \in Int
    BY <1>1, HoldsInType
  <2> QED
    BY <1>8, <1>9, <2>1, <2>2
<1>12. \A j \in 1..Len(B) : B[j].path[1] = key /\ (Len(B[j].path) <= 1 => B[j] = r)
  <2>1. ASSUME NEW j \in 1..Len(B), j = 1 PROVE B[j].path[1] = key /\ B[j] = r
    BY <1>2, <2>1
  <2>2. ASSUME NEW j \in 1..Len(B), j # 1
        PROVE  B[j].path[1] = key /\ Len(B[j].path) > 1 /\ Len(B[j].path) \in Nat
    <3>1. j - 1 \in 1..Len(U) /\ B[j] = U[j - 1]
      BY <1>3, <2>2
    <3> DEFINE l == U[j - 1]
    <3>2. l \in Line /\ Len(l.path) > 1 /\ l.path[1] = key
      BY <1>1, <3>1
    <3> HIDE DEF l
    <3>3. Len(l.path) \in Nat
      BY <3>2 DEF Line
    <3> QED
      BY <3>1, <3>2, <3>3 DEF l
  <2> QED
    BY <2>1, <2>2
<1>13. Nested(B)
  <2>1. ASSUME NEW j \in 1..Len(B), Len(B[j].path) > 1 PROVE j > 1 /\ j - 1 \in 1..Len(B)
    <3>1. j # 1
      <4>1. ~(Len(r.path) > 1) /\ B[1] = r
        BY <1>1, <1>2
      <4> QED
        BY <2>1, <4>1
    <3>2. Len(B) \in Nat
      BY <1>1, <1>2
    <3> QED
      BY <3>1, <3>2
  <2> QED
    BY <1>12, <2>1 DEF Nested
<1> QED
  BY <1>2, <1>10, <1>11, <1>12, <1>13 DEF IsBlock, B, r, U

\* L is the first n groups of a tree with the lines under them.
Gathered(L, roots, under, n) ==
  /\ L \in Seq(Line) /\ Nested(L)
  /\ HoldsIn(L, Heads) = Over([i \in 1..Len(roots) |-> roots[i].holds], 1..n)
  /\ \A i \in 1..Len(roots) :
       HoldsIn(L, Kids(roots[i].path[1])) = IF i <= n THEN HoldsIn(under[i], Line) ELSE 0
  /\ \A j \in 1..Len(L) : Len(L[j].path) <= 1 => \E i \in 1..n : L[j] = roots[i]

LEMMA GatheredNone ==
  ASSUME NEW roots, NEW under, IsTree(roots, under)
  PROVE  Gathered(<<>>, roots, under, 0)
<1>1. <<>> \in Seq(Line) /\ Len(<<>>) = 0 /\ 1..Len(<<>>) = {} /\ 1..0 = {}
  OBVIOUS
<1>2. \A Q : HoldsIn(<<>>, Q) = 0
  BY <1>1, HoldsInNone
<1>3. Over([i \in 1..Len(roots) |-> roots[i].holds], 1..0) = 0
  BY <1>1, OverNone
<1>4. Len(roots) \in Nat
  BY DEF IsTree
<1> QED
  BY <1>1, <1>2, <1>3, <1>4 DEF Gathered, Nested

LEMMA GatheredNext ==
  ASSUME NEW roots, NEW under, IsTree(roots, under), NEW n \in 1..Len(roots),
         NEW L, Gathered(L, roots, under, n - 1)
  PROVE  Gathered(L \o Block(roots, under, n), roots, under, n)
<1> DEFINE N == Len(roots)
           B == Block(roots, under, n)
           M == L \o B
           h == [i \in 1..N |-> roots[i].holds]
           key(i) == roots[i].path[1]
<1>1. /\ B \in Seq(Line) /\ Nested(B)
      /\ \A j \in 1..Len(B) : Len(B[j].path) <= 1 => B[j] = roots[n]
      /\ HoldsIn(B, Heads) = roots[n].holds
      /\ \A k : HoldsIn(B, Kids(k)) = IF k = key(n) THEN HoldsIn(under[n], Line) ELSE 0
  <2>1. IsBlock(B, roots[n], under[n])
    BY BlockHolds
  <2> HIDE DEF B
  <2> QED
    BY <2>1 DEF IsBlock
<1>2. /\ N \in Nat
      /\ \A i \in 1..N : roots[i].holds \in Int /\ under[i] \in Seq(Line)
      /\ \A i, j \in 1..N : key(i) = key(j) => i = j
  <2>1. N \in Nat /\ \A i \in 1..N : roots[i] \in Line /\ under[i] \in Seq(Line)
    BY DEF IsTree
  <2>2. \A i, j \in 1..N : key(i) = key(j) => i = j
    BY DEF IsTree
  <2> QED
    BY <2>1, <2>2 DEF Line
<1> HIDE DEF B
<1>3. /\ L \in Seq(Line) /\ M \in Seq(Line) /\ Len(M) = Len(L) + Len(B)
      /\ Len(L) \in Nat /\ Len(B) \in Nat
      /\ \A j \in 1..Len(L) : M[j] = L[j]
      /\ \A j \in 1..Len(B) : M[Len(L) + j] = B[j]
  <2>1. L \in Seq(Line)
    BY DEF Gathered
  <2> QED
    BY <1>1, <2>1
<1>4. ASSUME NEW Q PROVE HoldsIn(M, Q) = HoldsIn(L, Q) + HoldsIn(B, Q)
  BY <1>1, <1>3, HoldsInBoth
<1> HIDE DEF M
<1>5. ASSUME NEW j \in 1..Len(M), j \notin 1..Len(L)
      PROVE  j - Len(L) \in 1..Len(B) /\ M[j] = B[j - Len(L)]
  <2>1. j - Len(L) \in 1..Len(B) /\ Len(L) + (j - Len(L)) = j
    BY <1>3, <1>5
  <2> QED
    BY <1>3, <2>1
<1>6. Nested(M)
  <2> SUFFICES ASSUME NEW j \in 1..Len(M), Len(M[j].path) > 1
               PROVE  j > 1 /\ M[j - 1].path[1] = M[j].path[1]
    BY DEF Nested
  <2>1. CASE j \in 1..Len(L)
    <3>1. j > 1 /\ L[j - 1].path[1] = L[j].path[1] /\ M[j] = L[j]
      BY <1>3, <2>1 DEF Gathered, Nested
    <3>2. j - 1 \in 1..Len(L)
      BY <1>3, <2>1, <3>1
    <3> QED
      BY <1>3, <3>1, <3>2
  <2>2. CASE j \notin 1..Len(L)
    <3> DEFINE i == j - Len(L)
    <3>1. i \in 1..Len(B) /\ M[j] = B[i]
      BY <1>5, <2>2
    <3>2. i > 1 /\ B[i - 1].path[1] = B[i].path[1]
      BY <1>1, <3>1 DEF Nested
    <3>3. i - 1 \in 1..Len(B) /\ Len(L) + (i - 1) = j - 1 /\ j > 1
      BY <1>3, <3>1, <3>2
    <3>4. M[j - 1] = B[i - 1]
      BY <1>3, <3>3
    <3> HIDE DEF i
    <3> QED
      BY <3>1, <3>2, <3>3, <3>4
  <2> QED
    BY <2>1, <2>2
<1>7. HoldsIn(M, Heads) = Over(h, 1..n)
  <2>1. HoldsIn(L, Heads) = Over(h, 1..(n - 1))
    BY DEF Gathered
  <2>2. Over(h, 1..n) = h[n] + Over(h, 1..(n - 1))
    <3>1. n \in 1..n /\ \A i \in 1..n : h[i] \in Int
      BY <1>2
    <3>2. IsFiniteSet(1..n)
      BY <1>2, FS_Interval
    <3>3. (1..n) \ {n} = 1..(n - 1)
      BY <1>2
    <3> HIDE DEF h
    <3>4. Over(h, 1..n) = h[n] + Over(h, (1..n) \ {n})
      BY <3>1, <3>2, OverLess
    <3> QED
      BY <3>3, <3>4
  <2>3. h[n] = roots[n].holds /\ roots[n].holds \in Int
    BY <1>2
  <2>4. Over(h, 1..(n - 1)) \in Int
    BY <1>3, <2>1, HoldsInType
  <2> HIDE DEF h
  <2> QED
    <3>1. HoldsIn(M, Heads) = HoldsIn(L, Heads) + HoldsIn(B, Heads)
      BY <1>4
    <3>2. HoldsIn(B, Heads) = roots[n].holds
      BY <1>1
    <3> QED
      BY <2>1, <2>2, <2>3, <2>4, <3>1, <3>2
<1>8. ASSUME NEW i \in 1..N
      PROVE  HoldsIn(M, Kids(key(i))) = IF i <= n THEN HoldsIn(under[i], Line) ELSE 0
  <2>1. HoldsIn(M, Kids(key(i))) = HoldsIn(L, Kids(key(i))) + HoldsIn(B, Kids(key(i)))
    BY <1>4
  <2>2. HoldsIn(L, Kids(key(i))) = IF i <= n - 1 THEN HoldsIn(under[i], Line) ELSE 0
    BY DEF Gathered
  <2>3. HoldsIn(B, Kids(key(i))) = IF i = n THEN HoldsIn(under[i], Line) ELSE 0
    BY <1>1, <1>2
  <2>4. HoldsIn(under[i], Line) \in Int
    BY <1>2, HoldsInType
  <2>5. i <= n <=> (i <= n - 1 \/ i = n)
    BY <1>2
  <2>6. ~(i <= n - 1 /\ i = n)
    BY <1>2
  <2> QED
    BY <2>1, <2>2, <2>3, <2>4, <2>5, <2>6
<1>9. ASSUME NEW j \in 1..Len(M), Len(M[j].path) <= 1
      PROVE  \E i \in 1..n : M[j] = roots[i]
  <2>1. CASE j \in 1..Len(L)
    <3>1. M[j] = L[j]
      BY <1>3, <2>1
    <3>2. PICK i \in 1..(n - 1) : L[j] = roots[i]
      BY <1>9, <2>1, <3>1 DEF Gathered
    <3>3. i \in 1..n
      BY <1>2
    <3> QED
      BY <3>1, <3>2, <3>3
  <2>2. CASE j \notin 1..Len(L)
    <3>1. M[j] = roots[n]
      BY <1>1, <1>5, <1>9, <2>2
    <3> QED
      BY <1>2, <3>1
  <2> QED
    BY <2>1, <2>2
<1> QED
  BY <1>3, <1>6, <1>7, <1>8, <1>9 DEF Gathered, M, B

\* A tree, flattened.
LEMMA Flattened ==
  ASSUME NEW roots, NEW under, IsTree(roots, under)
  PROVE  Gathered(FlattenSeq([i \in 1..Len(roots) |-> Block(roots, under, i)]),
                  roots, under, Len(roots))
<1> DEFINE N == Len(roots)
           blocks == [i \in 1..N |-> Block(roots, under, i)]
<1>1. N \in Nat /\ blocks \in Seq(Seq(Line)) /\ Len(blocks) = N
  <2>1. N \in Nat /\ \A i \in 1..N : blocks[i] \in Seq(Line)
    <3>1. N \in Nat
      BY DEF IsTree
    <3>2. ASSUME NEW i \in 1..N PROVE Block(roots, under, i) \in Seq(Line)
      BY BlockHolds DEF IsBlock
    <3> QED
      BY <3>1, <3>2
  <2> HIDE DEF N
  <2> QED
    BY <2>1
<1>2. CASE N = 0
  <2>1. blocks = <<>>
    BY <1>1, <1>2
  <2>2. FlattenSeq(<<>>) = <<>>
    BY DEF FlattenSeq
  <2> QED
    BY <1>2, <2>1, <2>2, GatheredNone
<1>3. CASE N # 0
  <2>1. PICK F \in [1..N -> Seq(Line)] : Joined(F, blocks) /\ FlattenSeq(blocks) = F[N]
    <3> HIDE DEF blocks, N
    <3>1. blocks # <<>>
      BY <1>1, <1>3
    <3> QED
      BY <1>1, <3>1, Joins
  <2> DEFINE Bad == {n \in 1..N : ~Gathered(F[n], roots, under, n)}
  <2>2. SUFFICES ASSUME Bad # {} PROVE FALSE
    <3>1. N \in 1..N /\ N \notin Bad
      BY <1>1, <1>3, <2>2
    <3> QED
      BY <2>1, <3>1
  <2>3. PICK n \in Bad : \A m \in Bad : n <= m
    <3>1. Bad \in SUBSET Nat
      BY <1>1
    <3> HIDE DEF Bad
    <3> QED
      BY <2>2, <3>1, LeastNumber
  <2>4. n \in 1..N /\ ~Gathered(F[n], roots, under, n)
    OBVIOUS
  <2>5. F[n] = IF n = 1 THEN blocks[n] ELSE F[n - 1] \o blocks[n]
    BY <1>1, <2>1, <2>4 DEF Joined
  <2>6. blocks[n] = Block(roots, under, n) /\ blocks[n] \in Seq(Line)
    BY <1>1, <2>4
  <2> HIDE DEF blocks
  <2>7. CASE n = 1
    <3>1. Gathered(<<>>, roots, under, n - 1)
      BY <2>7, GatheredNone
    <3>2. Gathered(<<>> \o blocks[n], roots, under, n)
      BY <2>4, <2>6, <3>1, GatheredNext
    <3>3. <<>> \o blocks[n] = blocks[n]
      BY <2>6
    <3> QED
      BY <2>4, <2>5, <2>7, <3>2, <3>3
  <2>8. CASE n # 1
    <3>1. n - 1 \in 1..N /\ ~(n <= n - 1)
      BY <1>1, <2>4, <2>8
    <3>2. Gathered(F[n - 1], roots, under, n - 1)
      BY <2>3, <3>1
    <3>3. Gathered(F[n - 1] \o blocks[n], roots, under, n)
      BY <2>4, <2>6, <3>2, GatheredNext
    <3> QED
      BY <2>4, <2>5, <2>8, <3>3
  <2> QED
    BY <2>7, <2>8
<1> QED
  BY <1>2, <1>3

\* Lines, one step below path.
LinesOf(L, path, n, key, held) ==
  /\ n \in Nat /\ key \in [1..n -> Int] /\ held \in [1..n -> Int]
  /\ L = [i \in 1..n |-> [path |-> Append(path, key[i]), holds |-> held[i]]]

Listed(L, path, n, key, held) ==
  /\ L \in Seq(Line) /\ Len(L) = n
  /\ \A i \in 1..n : L[i].path = Append(path, key[i]) /\ L[i].holds = held[i]
  /\ HoldsIn(L, Line) = Over(held, 1..n)

LEMMA LinesBelow ==
  ASSUME NEW path \in Seq(Int), NEW n, NEW key, NEW held, NEW L, LinesOf(L, path, n, key, held)
  PROVE  Listed(L, path, n, key, held)
<1>0. /\ n \in Nat /\ key \in [1..n -> Int] /\ held \in [1..n -> Int]
      /\ L = [i \in 1..n |-> [path |-> Append(path, key[i]), holds |-> held[i]]]
  BY DEF LinesOf
<1>1. ASSUME NEW i \in 1..n
      PROVE  L[i] = [path |-> Append(path, key[i]), holds |-> held[i]]
  BY <1>0
<1>2. ASSUME NEW i \in 1..n
      PROVE  /\ L[i] \in Line
             /\ L[i].path = Append(path, key[i]) /\ L[i].holds = held[i] /\ held[i] \in Int
  <2> DEFINE p == Append(path, key[i])
             h == held[i]
  <2>1. p \in Seq(Int) /\ h \in Int
    BY <1>0
  <2>2. L[i] = [path |-> p, holds |-> h]
    BY <1>1
  <2> HIDE DEF p, h
  <2>3. L[i] \in Line /\ L[i].path = p /\ L[i].holds = h
    BY <2>1, <2>2 DEF Line
  <2> QED
    BY <2>1, <2>3 DEF p, h
<1> DEFINE l(i) == [path |-> Append(path, key[i]), holds |-> held[i]]
<1>3. L = [i \in 1..n |-> l(i)]
  BY <1>0
<1> HIDE DEF l
<1>4. DOMAIN L = 1..n /\ L \in [1..n -> Line]
  BY <1>2, <1>3
<1>5. L \in Seq(Line) /\ Len(L) = n
  BY ONLY <1>0, <1>4
<1>6. HoldsIn(L, Line) = Over(held, 1..n)
  <2> DEFINE f == [i \in 1..n |-> L[i].holds]
  <2>1. {j \in DOMAIN L : L[j] \in Line} = 1..n
    BY ONLY <1>2, <1>4
  <2>2. HoldsIn(L, Line) = Over(f, 1..n)
    BY ONLY <2>1 DEF HoldsIn
  <2>3. \A i \in 1..n : f[i] = held[i]
    BY ONLY <1>2
  <2> HIDE DEF f
  <2>4. Over(f, 1..n) = Over(held, 1..n)
    BY ONLY <2>3, OverAgrees
  <2> QED
    BY <2>2, <2>4
<1> QED
  BY <1>2, <1>5, <1>6 DEF Listed

\* What is put in order.
IsOrder(s, rows) ==
  LET n == Cardinality(rows) IN
  /\ s \in [1..n -> rows]
  /\ \A i, j \in 1..n : s[i] = s[j] => i = j
  /\ \A r \in rows : \E i \in 1..n : s[i] = r

LEMMA Ordered ==
  ASSUME NEW R, IsFiniteSet(R), NEW s \in [1..Cardinality(R) -> R],
         \A i, j \in 1..Cardinality(R) : i < j => s[i] # s[j]
  PROVE  IsOrder(s, R)
<1> DEFINE n == Cardinality(R)
<1>1. n \in Nat
  BY FS_CardinalityType
<1> HIDE DEF n
<1>2. \A i, j \in 1..n : s[i] = s[j] => i = j
  BY <1>1 DEF n
<1>3. s \in Injection(1..n, R)
  BY <1>2 DEF Injection, IsInjective, n
<1>4. IsFiniteSet(1..n) /\ Cardinality(1..n) = n
  BY <1>1, FS_Interval
<1>5. s \in Surjection(1..n, R)
  BY <1>3, <1>4, FS_Injection DEF n
<1>6. \A r \in R : \E i \in 1..n : s[i] = r
  BY <1>5 DEF Surjection
<1> QED
  BY <1>2, <1>6 DEF IsOrder, n

KeyOrder(R) == CHOOSE x \in Sorted(R, "key", FALSE) : TRUE

\* The rows of a level can be put in the order of their keys.
LEMMA OrderOfKeys ==
  ASSUME NEW R, IsFiniteSet(R), \A r \in R : r.key \in Int
  PROVE  IsOrder(KeyOrder(R), R)
<1> DEFINE s == KeyOrder(R)
           n == Cardinality(R)
           K == [r \in R |-> r.key]
<1>1. \A r \in R : SortKey(r, "key") = K[r]
  BY DEF SortKey
<1>2. K \in [R -> Int]
  OBVIOUS
<1> HIDE DEF K
<1>3. PICK x \in [1..n -> R] : \A i, j \in 1..n : i < j => x[i] # x[j] /\ K[x[i]] <= K[x[j]]
  BY <1>2, InOrder
<1>4. \A i, j \in DOMAIN x : i < j => x[i] # x[j] /\ SortKey(x[i], "key") <= SortKey(x[j], "key")
  BY <1>1, <1>3
<1>5. x \in Sorted(R, "key", FALSE)
  BY <1>4 DEF Sorted
<1>6. s \in Sorted(R, "key", FALSE)
  BY <1>5 DEF KeyOrder
<1> HIDE DEF s
<1>7. s \in [1..n -> R] /\ \A i, j \in 1..n : i < j => s[i] # s[j]
  BY <1>6 DEF Sorted
<1>8. IsOrder(s, R)
  BY <1>7, Ordered
<1> QED
  BY <1>8 DEF s

\* Positions can be put in the order of their ids.
LEMMA OrderOfIds ==
  ASSUME NEW P \in SUBSET Int, IsFiniteSet(P)
  PROVE  (CHOOSE x \in [1..Cardinality(P) -> P] : \A i, j \in DOMAIN x : i < j => x[i] < x[j])
           \in [1..Cardinality(P) -> P]
<1> DEFINE n == Cardinality(P)
           K == [p \in P |-> p]
<1>1. K \in [P -> Int] /\ \A p \in P : K[p] = p /\ p \in Int
  OBVIOUS
<1> HIDE DEF K
<1>2. PICK x \in [1..n -> P] : \A i, j \in 1..n : i < j => x[i] # x[j] /\ K[x[i]] <= K[x[j]]
  BY <1>1, InOrder
<1>3. DOMAIN x = 1..n /\ \A i \in 1..n : x[i] \in P /\ K[x[i]] = x[i] /\ x[i] \in Int
  BY <1>1
<1>4. \A i, j \in DOMAIN x : i < j => x[i] < x[j]
  BY <1>2, <1>3
<1> HIDE DEF n
<1> QED
  BY <1>4 DEF n

\* The lines of positions.
IdLines(s, path) == [i \in DOMAIN s |-> [path |-> Append(path, s[i]), holds |-> 1]]

HoldsBelow(L, path, held) ==
  /\ L \in Seq(Line)
  /\ \A i \in 1..Len(L) : \E k \in Int : L[i].path = Append(path, k)
  /\ HoldsIn(L, Line) = held

LEMMA LinesOfPositions ==
  ASSUME NEW P, P \in SUBSET Int, IsFiniteSet(P), NEW path \in Seq(Int),
         NEW s \in [1..Cardinality(P) -> P]
  PROVE  HoldsBelow(IdLines(s, path), path, Cardinality(P))
<1> DEFINE L == IdLines(s, path)
           n == Cardinality(P)
           ones == [i \in 1..n |-> 1]
<1>1. n \in Nat /\ IsFiniteSet(1..n) /\ Cardinality(1..n) = n
  <2>1. n \in Nat
    BY FS_CardinalityType
  <2> QED
    BY <2>1, FS_Interval
<1>2. s \in [1..n -> Int] /\ DOMAIN s = 1..n
  OBVIOUS
<1>3. ones \in [1..n -> Int] /\ \A i \in 1..n : ones[i] = 1
  OBVIOUS
<1>4. L = [i \in 1..n |-> [path |-> Append(path, s[i]), holds |-> ones[i]]]
  BY <1>2, <1>3 DEF IdLines
<1> HIDE DEF n, ones, L
<1>5. /\ L \in Seq(Line) /\ Len(L) = n
      /\ \A i \in 1..n : L[i].path = Append(path, s[i]) /\ L[i].holds = ones[i]
      /\ HoldsIn(L, Line) = Over(ones, 1..n)
  <2>1. LinesOf(L, path, n, s, ones)
    BY <1>1, <1>2, <1>3, <1>4 DEF LinesOf
  <2>2. Listed(L, path, n, s, ones)
    BY <2>1, LinesBelow
  <2> QED
    BY <2>2 DEF Listed
<1>6. Over(ones, 1..n) = n
  BY <1>1, <1>3, OverOnes
<1>7. \A i \in 1..Len(L) : \E k \in Int : L[i].path = Append(path, k)
  BY <1>2, <1>5
<1> QED
  BY <1>5, <1>6, <1>7 DEF HoldsBelow, L, n

\* The lines of the rows of a level, each once.
RowLines(s, path) == [i \in DOMAIN s |-> [path |-> Append(path, s[i].key), holds |-> s[i].positions]]

LEMMA LevelPositions ==
  ASSUME NEW b, IsBook(b), NEW v, NEW path, NEW r \in Level(b, v, path)
  PROVE  /\ r.positions = Cardinality(Group(b, v, path, r.key)) /\ r.positions \in Nat
         /\ r = RowOf(b, v, path, r.key)
<1> DEFINE P == Group(b, v, path, r.key)
           details == DetailsOf(v, path)
           key == r.key
<1>1. r = RowOf(b, v, path, key)
  BY LevelRow
<1>2. r = Row(b, P, key, v, details)
  BY <1>1 DEF RowOf
<1> HIDE DEF P, details, key
<1>3. r.positions = Cardinality(P)
  BY <1>2 DEF Row
<1>4. r.positions \in Nat
  BY <1>1, RowIsNumeric
<1> QED
  BY <1>1, <1>3, <1>4 DEF P, key

GroupLines(b, v, path, L) ==
  /\ \A i \in 1..Len(L) : \E k \in Int : L[i].path = Append(path, k)
                                         /\ L[i].holds = Cardinality(Group(b, v, path, k))
  /\ \A i, j \in 1..Len(L) : L[i].path = L[j].path => i = j
  /\ Over([i \in 1..Len(L) |-> L[i].holds], 1..Len(L)) = Sum([r \in Level(b, v, path) |-> r.positions])
  /\ HoldsBelow(L, path, Cardinality(Covered(b, v, path)))

LEMMA LinesOfGroups ==
  ASSUME NEW b, IsBook(b), NEW v, NEW path \in Seq(Int), GroupBy(v, path) \in Dims,
         NEW s, IsOrder(s, Level(b, v, path))
  PROVE  GroupLines(b, v, path, RowLines(s, path))
<1> DEFINE L == RowLines(s, path)
           R == Level(b, v, path)
           n == Cardinality(R)
           key == [i \in 1..n |-> s[i].key]
           held == [i \in 1..n |-> s[i].positions]
           g == [r \in R |-> r.positions]
<1>1. IsFiniteSet(R) /\ n \in Nat /\ IsFiniteSet(1..n)
  <2>1. IsFiniteSet(R)
    BY LevelGroups
  <2>2. n \in Nat
    BY <2>1, FS_CardinalityType
  <2> QED
    BY <2>1, <2>2, FS_Interval
<1>2. /\ s \in [1..n -> R]
      /\ \A i, j \in 1..n : s[i] = s[j] => i = j
      /\ \A r \in R : \E i \in 1..n : s[i] = r
  BY DEF IsOrder
<1>3. ASSUME NEW r \in R
      PROVE  /\ r.key \in Int /\ r.positions \in Int
             /\ r.positions = Cardinality(Group(b, v, path, r.key))
             /\ r = RowOf(b, v, path, r.key)
  BY RowKeys, LevelPositions
<1> HIDE DEF R, n
<1>4. DOMAIN s = 1..n /\ \A i \in 1..n : s[i] \in R
  BY <1>2
<1>5. /\ key \in [1..n -> Int] /\ held \in [1..n -> Int]
      /\ \A i \in 1..n : key[i] = s[i].key /\ held[i] = s[i].positions
  BY <1>3, <1>4
<1>6. L = [i \in 1..n |-> [path |-> Append(path, key[i]), holds |-> held[i]]]
  BY <1>4, <1>5 DEF RowLines
<1> HIDE DEF key, held, L
<1>7. /\ L \in Seq(Line) /\ Len(L) = n
      /\ \A i \in 1..n : L[i].path = Append(path, key[i]) /\ L[i].holds = held[i]
      /\ HoldsIn(L, Line) = Over(held, 1..n)
  <2>1. LinesOf(L, path, n, key, held)
    BY <1>1, <1>5, <1>6 DEF LinesOf
  <2>2. Listed(L, path, n, key, held)
    BY <2>1, LinesBelow
  <2> QED
    BY <2>2 DEF Listed
<1>8. ASSUME NEW i \in 1..n
      PROVE  key[i] \in Int /\ L[i].path = Append(path, key[i])
             /\ L[i].holds = Cardinality(Group(b, v, path, key[i]))
  BY <1>3, <1>4, <1>5, <1>7
<1>9. ASSUME NEW i \in 1..n, NEW j \in 1..n, L[i].path = L[j].path PROVE i = j
  <2>1. Append(path, key[i]) = Append(path, key[j])
    BY <1>7, <1>9
  <2>2. key[i] = key[j]
    <3> DEFINE x == key[i]
               y == key[j]
    <3>1. x \in Int /\ y \in Int /\ Append(path, x) = Append(path, y)
      BY <1>5, <2>1
    <3> HIDE DEF x, y
    <3>2. Append(path, x)[Len(path) + 1] = x /\ Append(path, y)[Len(path) + 1] = y
      BY <3>1
    <3>3. x = y
      BY <3>1, <3>2
    <3> QED
      BY <3>3 DEF x, y
  <2>3. s[i] = s[j]
    <3>1. s[i].key = s[j].key
      BY <1>5, <2>2
    <3>2. s[i] = RowOf(b, v, path, s[i].key) /\ s[j] = RowOf(b, v, path, s[j].key)
      BY <1>3, <1>4
    <3> QED
      BY <3>1, <3>2
  <2> QED
    BY <1>2, <2>3
<1>10. Over([i \in 1..Len(L) |-> L[i].holds], 1..Len(L)) = Over(held, 1..n)
  <2> DEFINE f == [i \in 1..n |-> L[i].holds]
  <2>1. \A i \in 1..n : f[i] = held[i]
    BY <1>7
  <2> HIDE DEF f
  <2>2. Over(f, 1..n) = Over(held, 1..n)
    BY <2>1, OverAgrees
  <2> QED
    BY <1>7, <2>2 DEF f
<1>11. Over(g, R) = Over(held, 1..n) /\ Sum(g) = Over(g, R)
  <2>1. \A i \in 1..n : held[i] \in Int /\ g[s[i]] = held[i]
    BY <1>4, <1>5
  <2>2. g = [r \in R |-> g[r]]
    OBVIOUS
  <2> DEFINE I == 1..n
  <2>3. /\ IsFiniteSet(I) /\ s \in [I -> R] /\ \A x, y \in I : s[x] = s[y] => x = y
        /\ \A t \in R : \E x \in I : s[x] = t
        /\ \A x \in I : held[x] \in Int /\ g[s[x]] = held[x]
    BY <1>1, <1>2, <2>1
  <2> HIDE DEF g, I
  <2>4. Over(g, R) = Over(held, I)
    BY <1>1, <2>3, OverReindexed
  <2> QED
    BY <2>2, <2>4, SumOverAll DEF I
<1>12. Sum(g) = Cardinality(Covered(b, v, path))
  BY LevelCounts DEF R
<1>13. \A i \in 1..Len(L) : \E k \in Int : L[i].path = Append(path, k)
                                         /\ L[i].holds = Cardinality(Group(b, v, path, k))
  BY <1>7, <1>8
<1>14. \A i, j \in 1..Len(L) : L[i].path = L[j].path => i = j
  BY <1>7, <1>9
<1>15. HoldsBelow(L, path, Cardinality(Covered(b, v, path)))
  BY <1>7, <1>8, <1>11, <1>12 DEF HoldsBelow
<1>16. Over([i \in 1..Len(L) |-> L[i].holds], 1..Len(L)) = Sum([r \in Level(b, v, path) |-> r.positions])
  BY <1>10, <1>11 DEF R
<1>17. GroupLines(b, v, path, L)
  BY <1>13, <1>14, <1>15, <1>16 DEF GroupLines
<1> QED
  BY <1>17 DEF L

LEMMA LinesAre ==
  ASSUME NEW v, NEW path
  PROVE  LET R == IF path = <<>> THEN RootLevel(v) ELSE Level(book, v, path)
             Q == Leaf(book, v, path)
         IN  /\ Len(path) < Len(v.order) =>
                  Lines(v, path) = RowLines(KeyOrder(R), path)
             /\ ~(Len(path) < Len(v.order)) =>
                  Lines(v, path) = IdLines(CHOOSE x \in [1..Cardinality(Q) -> Q] :
                                             \A i, j \in DOMAIN x : i < j => x[i] < x[j], path)
BY DEF Lines, RowLines, IdLines, KeyOrder

\* The lines of the root level: a group each.
RootLines(v, L) ==
  /\ L \in Seq(Line)
  /\ \A i \in 1..Len(L) : \E k \in Int : L[i].path = <<k>>
                                         /\ L[i].holds = Cardinality(Group(book, v, <<>>, k))
  /\ \A i, j \in 1..Len(L) : L[i].path = L[j].path => i = j
  /\ Over([i \in 1..Len(L) |-> L[i].holds], 1..Len(L))
       = Sum([r \in Level(book, v, <<>>) |-> r.positions])

LEMMA LinesOfRoot ==
  ASSUME book \in Books, rollups = Materialised(book), NEW v \in Views
  PROVE  RootLines(v, Lines(v, <<>>))
<1> DEFINE R == RootLevel(v)
           s == KeyOrder(R)
           L == RowLines(s, <<>>)
<1>1. /\ IsBook(book) /\ R = Level(book, v, <<>>) /\ Len(v.order) \in {1, 2}
      /\ GroupBy(v, <<>>) \in Dims /\ <<>> \in Seq(Int)
  <2>1. v.order[1] \in Dims /\ Len(v.order) \in {1, 2}
    BY ViewIs
  <2>2. GroupBy(v, <<>>) \in Dims
    BY <2>1 DEF GroupBy
  <2> QED
    BY <2>1, <2>2, BookIs, RootIsLevel
<1>2. Lines(v, <<>>) = L
  <2> DEFINE path == <<>>
  <2>1. path = <<>> /\ Len(path) < Len(v.order)
    <3>1. Len(<<>>) = 0
      OBVIOUS
    <3>2. Len(v.order) \in {1, 2}
      BY <1>1
    <3> QED
      BY ONLY <3>1, <3>2
  <2> HIDE DEF path
  <2>2. Lines(v, path) = RowLines(s, path)
    BY <2>1, LinesAre
  <2> QED
    BY <2>2 DEF path
<1> HIDE DEF R
<1>3. IsFiniteSet(R) /\ \A r \in R : r.key \in Int
  BY <1>1, LevelGroups, RowKeys
<1>4. IsOrder(s, R)
  BY <1>3, OrderOfKeys
<1> HIDE DEF s
<1>5. GroupLines(book, v, <<>>, L)
  BY <1>1, <1>4, LinesOfGroups
<1>6. \A k \in Int : Append(<<>>, k) = <<k>>
  OBVIOUS
<1> HIDE DEF L
<1>7. RootLines(v, L)
  BY <1>5, <1>6 DEF RootLines, GroupLines, HoldsBelow
<1> QED
  BY <1>2, <1>7

\* The lines under the group k: those of its groups, or its positions.
KeyLines(v, k, L) ==
  /\ L \in Seq(Line)
  /\ \A i \in 1..Len(L) : L[i] \in Kids(k)
  /\ Post(v) = {} /\ k # Null => HoldsIn(L, Line) = Cardinality(Group(book, v, <<>>, k))

LEMMA LinesOfKey ==
  ASSUME book \in Books, NEW v \in Views, NEW k \in Int
  PROVE  KeyLines(v, k, Lines(v, <<k>>))
<1> DEFINE path == <<k>>
           P == Selected(book, v, path)
           L == Lines(v, path)
<1>1. /\ IsBook(book) /\ Len(v.order) \in {1, 2} /\ v.order \in Seq(Dims)
      /\ path \in Seq(Int) /\ Len(path) = 1 /\ path[1] = k /\ DOMAIN path = {1}
  BY BookIs, ViewIs
<1>2. ASSUME k # Null PROVE P = Group(book, v, <<>>, k)
  <2>1. P = {p \in DOMAIN book : book[p].at[v.order[1]] = k
                                 /\ \A f \in Pre(v) : Matches(f, PositionCell(book, p, f.column))}
    BY <1>1, <1>2 DEF Selected
  <2>2. Selected(book, v, <<>>) =
          {p \in DOMAIN book : \A f \in Pre(v) : Matches(f, PositionCell(book, p, f.column))}
    BY DEF Selected
  <2>3. Group(book, v, <<>>, k) = {p \in Selected(book, v, <<>>) : book[p].at[v.order[1]] = k}
    BY DEF Group, GroupBy
  <2> HIDE DEF P
  <2> QED
    BY <2>1, <2>2, <2>3
<1>3. P \in SUBSET Int /\ IsFiniteSet(P)
  <2>1. P \subseteq DOMAIN book /\ IsFiniteSet(P)
    BY <1>1, SelectedIsFinite
  <2>2. \A p \in DOMAIN book : p \in Int
    BY PivotAssumption
  <2> QED
    BY <2>1, <2>2
<1>4. ASSUME L \in Seq(Line), \A i \in 1..Len(L) : \E j \in Int : L[i].path = Append(path, j)
      PROVE  \A i \in 1..Len(L) : L[i] \in Kids(k)
  <2> HIDE DEF L
  <2> SUFFICES ASSUME NEW i \in 1..Len(L) PROVE L[i] \in Kids(k)
    OBVIOUS
  <2>1. PICK j \in Int : L[i].path = Append(path, j)
    BY <1>4
  <2>2. Len(Append(path, j)) = 2 /\ Append(path, j)[1] = k
    BY <1>1
  <2>3. L[i] \in Line
    BY <1>4
  <2> HIDE DEF path
  <2> QED
    BY <2>1, <2>2, <2>3 DEF Kids
<1>5. CASE Len(v.order) = 1
  <2> DEFINE Q == Leaf(book, v, path)
             s == CHOOSE x \in [1..Cardinality(Q) -> Q] : \A i, j \in DOMAIN x : i < j => x[i] < x[j]
  <2>1. Q \in SUBSET Int /\ IsFiniteSet(Q) /\ (Post(v) = {} => Q = P)
    <3>1. Q = {Error} \/ Q \in SUBSET P
      BY DEF Leaf
    <3>2. {Error} \in SUBSET Int /\ IsFiniteSet({Error})
      <4>1. IsFiniteSet({Error})
        BY FS_Singleton
      <4> QED
        BY <4>1 DEF Error
    <3>3. Post(v) = {} => Q = P
      BY DEF Leaf
    <3> HIDE DEF Q, P
    <3>4. CASE Q = {Error}
      BY <3>2, <3>3, <3>4
    <3>5. CASE Q \in SUBSET P
      BY <1>3, <3>3, <3>5, FS_Subset
    <3> QED
      BY <3>1, <3>4, <3>5
  <2>2. L = IdLines(s, path)
    <3>1. ~(Len(path) < Len(v.order))
      BY <1>1, <1>5
    <3> HIDE DEF path
    <3> QED
      BY <3>1, LinesAre
  <2> HIDE DEF Q, L, P, path
  <2>3. s \in [1..Cardinality(Q) -> Q]
    BY <2>1, OrderOfIds
  <2> HIDE DEF s
  <2>4. /\ L \in Seq(Line)
        /\ \A i \in 1..Len(L) : \E j \in Int : L[i].path = Append(path, j)
        /\ HoldsIn(L, Line) = Cardinality(Q)
    <3>1. HoldsBelow(IdLines(s, path), path, Cardinality(Q))
      BY <1>1, <2>1, <2>3, LinesOfPositions
    <3> QED
      BY <2>2, <3>1 DEF HoldsBelow
  <2>5. \A i \in 1..Len(L) : L[i] \in Kids(k)
    BY <1>4, <2>4
  <2>6. Post(v) = {} /\ k # Null => HoldsIn(L, Line) = Cardinality(Group(book, v, <<>>, k))
    BY <1>2, <2>1, <2>4
  <2>7. KeyLines(v, k, L)
    BY <2>4, <2>5, <2>6 DEF KeyLines
  <2> QED
    BY <2>7 DEF L, path
<1>6. CASE Len(v.order) = 2
  <2> DEFINE R == Level(book, v, path)
             s == KeyOrder(R)
  <2>1. GroupBy(v, path) \in Dims
    <3>1. v.order[2] \in Dims
      BY <1>1, <1>6
    <3> QED
      BY <1>1, <3>1 DEF GroupBy
  <2>2. IsFiniteSet(R) /\ \A r \in R : r.key \in Int
    BY <1>1, <2>1, LevelGroups, RowKeys
  <2>3. path # <<>>
    BY <1>1
  <2>4. L = RowLines(s, path)
    <3>1. Len(path) < Len(v.order)
      BY <1>1, <1>6
    <3> HIDE DEF path
    <3> QED
      BY <2>3, <3>1, LinesAre
  <2> HIDE DEF L, P, path
  <2>5. IsOrder(s, R)
    <3> HIDE DEF R
    <3> QED
      BY <2>2, OrderOfKeys
  <2> HIDE DEF s
  <2>6. /\ L \in Seq(Line)
        /\ \A i \in 1..Len(L) : \E j \in Int : L[i].path = Append(path, j)
        /\ HoldsIn(L, Line) = Cardinality(Covered(book, v, path))
    <3>1. GroupLines(book, v, path, RowLines(s, path))
      BY <1>1, <2>1, <2>5, LinesOfGroups
    <3> QED
      BY <2>4, <3>1 DEF GroupLines, HoldsBelow
  <2>7. Post(v) = {} => Covered(book, v, path) = P
    BY AllCovered DEF P
  <2>8. \A i \in 1..Len(L) : L[i] \in Kids(k)
    BY <1>4, <2>6
  <2>9. Post(v) = {} /\ k # Null => HoldsIn(L, Line) = Cardinality(Group(book, v, <<>>, k))
    BY <1>2, <2>6, <2>7
  <2>10. KeyLines(v, k, L)
    BY <2>6, <2>8, <2>9 DEF KeyLines
  <2> QED
    BY <2>10 DEF L, path
<1> QED
  BY <1>1, <1>5, <1>6

\* The lines of a report that is not cut short.
Whole(v, depth, all) ==
  /\ all \in Seq(Line) /\ Nested(all)
  /\ HoldsIn(all, Heads) = Sum([r \in Level(book, v, <<>>) |-> r.positions])
  /\ depth = 2 /\ Post(v) = {} =>
       \A j \in 1..Len(all) :
         Len(all[j].path) <= 1 /\ all[j].path[1] # Null =>
           HoldsIn(all, Kids(all[j].path[1])) = all[j].holds

\* The lines under each line of the root level.
UnderRoots(v, depth, roots) ==
  [i \in 1..Len(roots) |->
     IF depth > 1 /\ roots[i].path[1] # Null THEN Lines(v, roots[i].path) ELSE <<>>]

All(roots, under) == FlattenSeq([i \in 1..Len(roots) |-> Block(roots, under, i)])

LEMMA ReportIs ==
  ASSUME book \in Books, rollups = Materialised(book), NEW v \in Views, NEW depth \in 1..2
  PROVE  LET roots == Lines(v, <<>>)
             under == UnderRoots(v, depth, roots)
         IN  Whole(v, depth, All(roots, under))
<1> DEFINE roots == Lines(v, <<>>)
           under == UnderRoots(v, depth, roots)
           N == Len(roots)
           all == All(roots, under)
<1>1. RootLines(v, roots)
  BY LinesOfRoot
<1> HIDE DEF roots
<1>2. roots \in Seq(Line) /\ N \in Nat /\ \A i \in 1..N : roots[i] \in Line
  BY <1>1 DEF RootLines
<1>3. ASSUME NEW i \in 1..N
      PROVE  /\ roots[i].path = <<roots[i].path[1]>> /\ roots[i].path[1] \in Int
             /\ Len(roots[i].path) = 1
             /\ roots[i].holds = Cardinality(Group(book, v, <<>>, roots[i].path[1]))
  <2>1. PICK k \in Int : roots[i].path = <<k>> /\ roots[i].holds = Cardinality(Group(book, v, <<>>, k))
    BY <1>1 DEF RootLines
  <2>2. <<k>>[1] = k /\ Len(<<k>>) = 1
    OBVIOUS
  <2> QED
    BY <2>1, <2>2
<1>4. ASSUME NEW i \in 1..N
      PROVE  /\ under[i] \in Seq(Line)
             /\ \A j \in 1..Len(under[i]) : under[i][j] \in Kids(roots[i].path[1])
             /\ depth = 2 /\ Post(v) = {} /\ roots[i].path[1] # Null =>
                  HoldsIn(under[i], Line) = roots[i].holds
  <2> DEFINE k == roots[i].path[1]
  <2>1. k \in Int /\ roots[i].path = <<k>> /\ roots[i].holds = Cardinality(Group(book, v, <<>>, k))
    BY <1>3
  <2>2. under[i] = IF depth > 1 /\ k # Null THEN Lines(v, <<k>>) ELSE <<>>
    BY <2>1 DEF UnderRoots
  <2> HIDE DEF k, under
  <2>3. CASE depth > 1 /\ k # Null
    <3>1. KeyLines(v, k, under[i])
      BY <2>1, <2>2, <2>3, LinesOfKey
    <3> QED
      BY <2>1, <3>1 DEF KeyLines, k
  <2>4. CASE ~(depth > 1 /\ k # Null)
    <3>1. under[i] = <<>> /\ <<>> \in Seq(Line) /\ 1..Len(<<>>) = {}
      BY <2>2, <2>4
    <3>2. ~(depth = 2 /\ k # Null)
      BY <2>4
    <3> QED
      BY <3>1, <3>2 DEF k
  <2> QED
    BY <2>3, <2>4
<1>5. IsTree(roots, under)
  <2>1. under \in [1..N -> Seq(Line)]
    <3>1. under = [i \in 1..N |-> under[i]]
      BY DEF UnderRoots
    <3> HIDE DEF under
    <3> QED
      BY <1>4, <3>1
  <2> HIDE DEF under
  <2>2. ASSUME NEW i \in 1..N, NEW j \in 1..N, roots[i].path[1] = roots[j].path[1] PROVE i = j
    <3>1. roots[i].path = roots[j].path
      BY <1>3, <2>2
    <3> QED
      BY <1>1, <3>1 DEF RootLines
  <2> QED
    BY <1>2, <1>3, <1>4, <2>1, <2>2 DEF IsTree
<1> HIDE DEF under
<1>6. Gathered(all, roots, under, N)
  BY <1>5, Flattened DEF All
<1> HIDE DEF all
<1>7. /\ all \in Seq(Line) /\ Nested(all)
      /\ HoldsIn(all, Heads) = Over([i \in 1..N |-> roots[i].holds], 1..N)
  BY <1>6 DEF Gathered
<1>8. HoldsIn(all, Heads) = Sum([r \in Level(book, v, <<>>) |-> r.positions])
  BY <1>1, <1>7 DEF RootLines
<1>9. ASSUME depth = 2, Post(v) = {}, NEW j \in 1..Len(all),
             Len(all[j].path) <= 1, all[j].path[1] # Null
      PROVE  HoldsIn(all, Kids(all[j].path[1])) = all[j].holds
  <2>1. PICK i \in 1..N : all[j] = roots[i]
    BY <1>6, <1>9 DEF Gathered
  <2>2. HoldsIn(all, Kids(roots[i].path[1])) = HoldsIn(under[i], Line)
    <3>1. i <= N
      BY <1>2
    <3> QED
      BY <1>6, <3>1 DEF Gathered
  <2> QED
    BY <1>4, <1>9, <2>1, <2>2
<1>10. Whole(v, depth, all)
  BY <1>7, <1>8, <1>9 DEF Whole
<1> QED
  BY <1>10 DEF all, under, roots

\* A report is the first of the lines.
LEMMA FlattenIs ==
  ASSUME NEW v, NEW depth
  PROVE  LET roots == Lines(v, <<>>)
             all == All(roots, UnderRoots(v, depth, roots))
         IN  DOMAIN roots = 1..Len(roots) => Flatten(v, depth) = SubSeq(all, 1, Min({Len(all), MaxRows}))
<1> DEFINE roots == Lines(v, <<>>)
           under == UnderRoots(v, depth, roots)
           blocks == [i \in 1..Len(roots) |-> Block(roots, under, i)]
           U(line) == IF depth > 1 /\ line.path[1] # Null THEN Lines(v, line.path) ELSE <<>>
<1> SUFFICES ASSUME DOMAIN roots = 1..Len(roots)
             PROVE  Flatten(v, depth) = SubSeq(FlattenSeq(blocks), 1, Min({Len(FlattenSeq(blocks)), MaxRows}))
  BY DEF All
<1>1. blocks = [i \in DOMAIN roots |-> <<roots[i]>> \o U(roots[i])]
  <2>1. \A i \in 1..Len(roots) : under[i] = U(roots[i])
    BY DEF UnderRoots
  <2> HIDE DEF U, under, roots
  <2> QED
    BY <2>1 DEF Block
<1> DEFINE blocks2 == [i \in DOMAIN roots |-> <<roots[i]>> \o U(roots[i])]
           all == FlattenSeq(blocks2)
<1>2. Flatten(v, depth) = SubSeq(all, 1, Min({Len(all), MaxRows}))
  BY DEF Flatten
<1> HIDE DEF blocks, blocks2
<1> QED
  BY <1>1, <1>2 DEF blocks2

\* What ReportAddsUp says of the lines of a report.
AddsUp(lines, v, depth, note, positions) ==
  /\ Nested(lines)
  /\ ~note => /\ HoldsIn(lines, Heads) = positions
              /\ depth = 2 /\ Post(v) = {} =>
                   \A i \in 1..Len(lines) :
                     Len(lines[i].path) <= 1 /\ lines[i].path[1] # Null =>
                       HoldsIn(lines, Kids(lines[i].path[1])) = lines[i].holds

\* The first lines of a whole report are the whole report, or there is a note.
LEMMA FirstLines ==
  ASSUME NEW v, NEW depth, NEW all, Whole(v, depth, all),
         NEW lines, lines = SubSeq(all, 1, Min({Len(all), MaxRows}))
  PROVE  /\ lines \in Seq(Line)
         /\ AddsUp(lines, v, depth, Noted(lines), Sum([r \in Level(book, v, <<>>) |-> r.positions]))
<1> DEFINE n == Len(all)
           m == Min({n, MaxRows})
<1>1. all \in Seq(Line) /\ n \in Nat /\ MaxRows \in Int /\ Nested(all)
  BY PivotAssumption DEF Whole
<1>2. m = IF n <= MaxRows THEN n ELSE MaxRows
  <2> DEFINE T == {n, MaxRows}
             x == IF n <= MaxRows THEN n ELSE MaxRows
  <2>1. x \in T /\ \A y \in T : x <= y /\ y \in Int
    BY <1>1
  <2> HIDE DEF T, x
  <2>2. \A z \in T : (\A y \in T : z <= y) => z = x
    BY <2>1
  <2>3. Min(T) = x
    BY <2>1, <2>2 DEF Min
  <2> QED
    BY <2>3 DEF T, x
<1> HIDE DEF m
<1>3. m \in Int /\ m <= n /\ lines = SubSeq(all, 1, m)
  BY <1>1, <1>2 DEF m
<1>4. /\ lines \in Seq(Line) /\ Len(lines) = (IF 1 <= m THEN m ELSE 0)
      /\ \A i \in 1..Len(lines) : i \in 1..n /\ lines[i] = all[i]
  <2>1. \A i \in 1..m : i \in 1..n /\ all[i] \in Line
    BY <1>1, <1>3
  <2>2. /\ SubSeq(all, 1, m) \in Seq(Line)
        /\ Len(SubSeq(all, 1, m)) = IF 1 <= m THEN m - 1 + 1 ELSE 0
        /\ \A i \in 1..(m - 1 + 1) : SubSeq(all, 1, m)[i] = all[1 + i - 1]
    BY <1>3, <2>1, SubSeqProperties
  <2>3. m - 1 + 1 = m /\ \A i \in 1..m : 1 + i - 1 = i
    BY <1>3
  <2>4. lines \in Seq(Line) /\ Len(lines) = (IF 1 <= m THEN m ELSE 0)
    BY <1>3, <2>2, <2>3
  <2>5. \A i \in 1..m : lines[i] = all[i]
    BY <1>3, <2>2, <2>3
  <2> HIDE DEF n
  <2>6. \A i \in 1..Len(lines) : i \in 1..m
    BY <1>3, <2>4
  <2> QED
    BY <2>1, <2>4, <2>5, <2>6
<1>5. Len(lines) \in Nat
  <2>1. lines \in Seq(Line)
    BY <1>4
  <2> QED
    BY ONLY <2>1
<1>6. Nested(lines)
  <2> SUFFICES ASSUME NEW j \in 1..Len(lines), Len(lines[j].path) > 1
               PROVE  j > 1 /\ lines[j - 1].path[1] = lines[j].path[1]
    BY DEF Nested
  <2>1. j \in 1..n /\ lines[j] = all[j]
    BY <1>4
  <2>2. j > 1 /\ all[j - 1].path[1] = all[j].path[1]
    BY <1>1, <2>1 DEF Nested
  <2>3. j - 1 \in 1..Len(lines)
    BY ONLY <1>5, <2>2, j \in 1..Len(lines)
  <2>4. lines[j - 1] = all[j - 1]
    BY <1>4, <2>3
  <2> QED
    BY <2>1, <2>2, <2>4
<1>7. ASSUME ~Noted(lines) PROVE lines = all
  <2>1. Len(lines) < MaxRows
    <3>1. ~(Len(lines) >= MaxRows) /\ MaxRows \in Int
      BY <1>1, <1>7 DEF Noted
    <3> QED
      BY ONLY <1>5, <3>1
  <2>2. m = n
    BY <1>1, <1>2, <1>3, <1>4, <2>1
  <2>3. lines = SubSeq(all, 1, n)
    BY <1>3, <2>2
  <2> QED
    BY <1>1, <2>3, SubSeqFull
<1>8. AddsUp(lines, v, depth, Noted(lines), Sum([r \in Level(book, v, <<>>) |-> r.positions]))
  BY <1>6, <1>7 DEF AddsUp, Whole
<1> QED
  BY <1>4, <1>8

\* The two ways to say it.
LEMMA AddsUpIs ==
  ASSUME report.lines \in Seq(Line),
         AddsUp(report.lines, view, report.depth, report.note, totals.positions)
  PROVE  ReportAddsUp
<1> DEFINE lines == report.lines
           Under1 == {i \in DOMAIN lines : Len(lines[i].path) > 1}
           Below(k) == {i \in Under1 : lines[i].path[1] = k}
           Holds(I) == Sum([i \in I |-> lines[i].holds])
<1> HIDE DEF lines
<1>1. /\ lines \in Seq(Line) /\ DOMAIN lines = 1..Len(lines)
      /\ \A i \in 1..Len(lines) : lines[i] \in Line /\ Len(lines[i].path) \in Nat
  <2>1. lines \in Seq(Line)
    BY DEF lines
  <2>2. DOMAIN lines = 1..Len(lines) /\ \A i \in 1..Len(lines) : lines[i] \in Line
    BY <2>1
  <2> QED
    BY <2>1, <2>2 DEF Line
<1>2. AddsUp(lines, view, report.depth, report.note, totals.positions)
  BY DEF lines
<1>3. DOMAIN lines \ Under1 = {j \in DOMAIN lines : lines[j] \in Heads}
  BY <1>1 DEF Heads
<1>4. ASSUME NEW k PROVE Below(k) = {j \in DOMAIN lines : lines[j] \in Kids(k)}
  BY <1>1 DEF Kids
<1>5. ASSUME NEW Q, NEW I, I = {j \in DOMAIN lines : lines[j] \in Q}
      PROVE  Holds(I) = HoldsIn(lines, Q)
  <2> DEFINE f == [i \in I |-> lines[i].holds]
  <2>1. HoldsIn(lines, Q) = Over(f, I)
    BY <1>5 DEF HoldsIn
  <2>2. f = [i \in I |-> f[i]]
    OBVIOUS
  <2> HIDE DEF f
  <2>3. Sum(f) = Over(f, I)
    BY <2>2, SumOverAll
  <2> QED
    BY <2>1, <2>3 DEF f
<1>6. Holds(DOMAIN lines \ Under1) = HoldsIn(lines, Heads)
  BY <1>3, <1>5
<1>7. ASSUME NEW k PROVE Holds(Below(k)) = HoldsIn(lines, Kids(k))
  BY <1>4, <1>5
<1>8. \A i \in Under1 : i > 1 /\ lines[i - 1].path[1] = lines[i].path[1]
  BY <1>1, <1>2 DEF AddsUp, Nested
<1>9. ASSUME ~report.note PROVE Holds(DOMAIN lines \ Under1) = totals.positions
  BY <1>2, <1>6, <1>9 DEF AddsUp
<1>10. ASSUME ~report.note, report.depth = 2, Post(view) = {},
              NEW i \in DOMAIN lines \ Under1, lines[i].path[1] # Null
       PROVE  Holds(Below(lines[i].path[1])) = lines[i].holds
  <2>1. i \in 1..Len(lines) /\ Len(lines[i].path) <= 1
    BY <1>1
  <2>2. HoldsIn(lines, Kids(lines[i].path[1])) = lines[i].holds
    BY <1>2, <1>10, <2>1 DEF AddsUp
  <2> HIDE DEF Below, Holds
  <2> QED
    BY <1>7, <2>2
<1> QED
  BY <1>8, <1>9, <1>10 DEF ReportAddsUp, lines

\* What is mailed adds up. A report needs its view, so that a view that is
\* shown has none.
RInv ==
  /\ IInv
  /\ report # NoReport =>
       /\ view # NoView /\ report.lines \in Seq(Line)
       /\ AddsUp(report.lines, view, report.depth, report.note, totals.positions)

LEMMA MailAddsUp ==
  ASSUME IInv, NEW v \in Views, NEW depth \in 1..2, Mail(v, depth)
  PROVE  /\ view' # NoView /\ report'.lines \in Seq(Line)
         /\ AddsUp(report'.lines, view', report'.depth, report'.note, totals'.positions)
<1> DEFINE roots == Lines(v, <<>>)
           all == All(roots, UnderRoots(v, depth, roots))
           lines == Flatten(v, depth)
           held == Sum([r \in Level(book, v, <<>>) |-> r.positions])
<1>1. /\ view' = v /\ book' = book /\ report' = [depth |-> depth, lines |-> lines, note |-> Noted(lines)]
      /\ book \in Books /\ rollups = Materialised(book)
  BY DEF Mail, IInv
<1>2. totals'.positions = held
  <2>1. IInv'
    BY ShownIInv DEF Mail
  <2>2. v # NoView
    BY ViewIs
  <2>3. totals' = TotalsOf(root') /\ root' = Level(book, v, <<>>)
    BY <1>1, <2>1, <2>2 DEF IInv
  <2> DEFINE R == Level(book, v, <<>>)
  <2> HIDE DEF R
  <2>4. totals' = TotalsOf(R)
    BY <2>3 DEF R
  <2>5. totals'.positions = Sum([r \in R |-> r.positions])
    BY ONLY <2>4 DEF TotalsOf
  <2> QED
    BY <2>5 DEF R
<1>3. Whole(v, depth, all)
  BY <1>1, ReportIs
<1>4. lines = SubSeq(all, 1, Min({Len(all), MaxRows}))
  <2>1. roots \in Seq(Line)
    BY <1>1, LinesOfRoot DEF RootLines
  <2>2. DOMAIN roots = 1..Len(roots)
    <3> HIDE DEF roots
    <3> QED
      BY <2>1
  <2> QED
    BY <2>2, FlattenIs
<1> HIDE DEF lines, all, held
<1>5. lines \in Seq(Line) /\ AddsUp(lines, v, depth, Noted(lines), held)
  BY <1>3, <1>4, FirstLines DEF held
<1>6. /\ report'.lines = lines /\ report'.depth = depth /\ report'.note = Noted(lines)
  <2> DEFINE note == Noted(lines)
  <2>1. report' = [depth |-> depth, lines |-> lines, note |-> note]
    BY <1>1
  <2> HIDE DEF note
  <2> QED
    BY <2>1 DEF note
<1>7. view' # NoView
  BY <1>1, ViewIs
<1> QED
  BY <1>1, <1>2, <1>5, <1>6, <1>7

LEMMA StepRInv == RInv /\ [Next]_vars => RInv'
<1> SUFFICES ASSUME RInv, [Next]_vars PROVE RInv'
  OBVIOUS
<1>1. IInv /\ IInv' /\ NoReport' = NoReport /\ NoView' = NoView
  BY StepIInv DEF RInv, NoReport, NoView
<1>2. ASSUME report' = NoReport PROVE RInv'
  BY <1>1, <1>2 DEF RInv
<1>3. ASSUME UNCHANGED <<view, totals, report>> PROVE RInv'
  <2>1. CASE report = NoReport
    BY <1>2, <1>3, <2>1
  <2>2. CASE report # NoReport
    <3>1. /\ view # NoView /\ report.lines \in Seq(Line)
          /\ AddsUp(report.lines, view, report.depth, report.note, totals.positions)
      BY <2>2 DEF RInv
    <3>2. /\ view' # NoView /\ report'.lines \in Seq(Line)
          /\ AddsUp(report'.lines, view', report'.depth, report'.note, totals'.positions)
      BY <1>3, <3>1
    <3> QED
      BY <1>1, <3>2 DEF RInv, AddsUp
  <2> QED
    BY <2>1, <2>2
<1>4. ASSUME NEW v \in Views, Show(v) PROVE RInv'
  <2>1. view = NoView /\ report' = report
    BY <1>4 DEF Show
  <2>2. report = NoReport
    BY <2>1 DEF RInv
  <2> QED
    BY <1>2, <2>1, <2>2
<1>5. ASSUME NEW v \in Views, NEW depth \in 1..2, Mail(v, depth) PROVE RInv'
  <2>1. /\ view' # NoView /\ report'.lines \in Seq(Line)
        /\ AddsUp(report'.lines, view', report'.depth, report'.note, totals'.positions)
    BY <1>1, <1>5, MailAddsUp
  <2> QED
    BY <1>1, <2>1 DEF RInv, AddsUp
<1>6. ASSUME NEW keys \in Routes, Expand(keys) PROVE RInv'
  BY <1>3, <1>6 DEF Expand
<1>7. ASSUME NEW c \in {"key", "worst"}, NEW desc \in BOOLEAN, FetchPage(c, desc) PROVE RInv'
  BY <1>3, <1>7 DEF FetchPage
<1>8. CASE UNCHANGED vars
  BY <1>3, <1>8 DEF vars
<1> QED
  BY <1>4, <1>5, <1>6, <1>7, <1>8 DEF Next

\* A report without the note is the whole view, level by level.
THEOREM ReportAddsUpAlways == Spec => []ReportAddsUp
<1>1. Init => RInv
  BY InitIInv DEF Init, RInv
<1>2. RInv => ReportAddsUp
  <2>1. ASSUME report = NoReport PROVE ReportAddsUp
    <3>1. report.lines = <<>> /\ DOMAIN <<>> = {}
      BY <2>1 DEF NoReport
    <3> QED
      BY <2>1, <3>1 DEF ReportAddsUp
  <2> QED
    BY <2>1, AddsUpIs DEF RInv
<1> QED
  BY <1>1, <1>2, StepRInv, PTL DEF Spec

==============================================================================
