------------------------- MODULE ShockColumnsProofs -------------------------
(***************************************************************************)
(* What ShockColumns guarantees for any names and slugs, any contents of   *)
(* configs and any number of edits and builds.                             *)
(***************************************************************************)
EXTENDS ShockColumns, SequenceTheorems, WellFoundedInduction, TLAPS

-----------------------------------------------------------------------------
(* Scenario grids                                                          *)

LEMMA Smallest ==
  ASSUME NEW T \in SUBSET Nat, T # {}
  PROVE  \E m \in T : \A n \in T : m <= n
<1>1. PICK m \in T : \A n \in T : ~(<<n, m>> \in OpToRel(<, Nat))
  BY NatLessThanWellFounded, WFMin
<1>2. ASSUME NEW n \in T PROVE ~(n < m)
  BY <1>1 DEF OpToRel
<1> QED
  BY <1>2

\* index_of finds a coordinate if it is anywhere in the grid, and finds it where
\* it says.
LEMMA IndexOfFinds ==
  ASSUME NEW n \in Nat, NEW grid, grid = [k \in 1..n |-> grid[k]], Len(grid) = n,
         NEW c
  PROVE  LET k == IndexOf(grid, c)
         IN  IF k = Missing THEN \A i \in DOMAIN grid : grid[i] # c
                            ELSE k \in DOMAIN grid /\ grid[k] = c
<1> DEFINE I == {i \in 1..n : grid[i] = c}
<1>1. IndexOf(grid, c) = IF I # {} THEN Min(I) ELSE 0
  BY DEF IndexOf, SelectInSeq
<1>2. DOMAIN grid = 1..n
  OBVIOUS
<1>3. CASE I = {}
  BY <1>1, <1>2, <1>3 DEF Missing
<1>4. CASE I # {}
  <2>1. \E m \in I : \A i \in I : m <= i
    <3>1. I \in SUBSET Nat
      OBVIOUS
    <3> HIDE DEF I
    <3> QED
      BY <1>4, <3>1, Smallest
  <2>2. Min(I) \in I
    BY <2>1 DEF Min
  <2> QED
    BY <1>1, <1>2, <1>4, <2>2 DEF Missing
<1> QED
  BY <1>3, <1>4

\* The points of an axis below zero, and those up to it.
Below(a) == IF a.symmetric THEN a.count ELSE 0
UpTo(a)  == Below(a) + IF a.zero THEN 1 ELSE 0

\* The points before they are sorted.
Unsorted(a) ==
  LET up   == [i \in 1..a.count |-> a.step * i]
      down == [i \in 1..a.count |-> 0 - up[a.count + 1 - i]]
  IN  (IF a.symmetric THEN down ELSE <<>>) \o (IF a.zero THEN <<0>> ELSE <<>>) \o up

LEMMA PointsOf ==
  ASSUME NEW a
  PROVE  Points(a) = IF a.zero /\ a.step < 0 THEN Reverse(Unsorted(a)) ELSE Unsorted(a)
BY DEF Points, Unsorted

LEMMA UnsortedAre ==
  ASSUME NEW a \in Axes
  PROVE  /\ Unsorted(a) \in Seq(Int)
         /\ Below(a) \in Nat /\ UpTo(a) \in Nat
         /\ Len(Unsorted(a)) = UpTo(a) + a.count
         /\ \A i \in 1..Len(Unsorted(a)) :
              Unsorted(a)[i] = IF i <= Below(a) THEN 0 - a.step * (a.count + 1 - i)
                             ELSE IF i <= UpTo(a) THEN 0
                             ELSE a.step * (i - UpTo(a))
<1> DEFINE up   == [i \in 1..a.count |-> a.step * i]
           down == [i \in 1..a.count |-> 0 - up[a.count + 1 - i]]
           d    == IF a.symmetric THEN down ELSE <<>>
           z    == IF a.zero THEN <<0>> ELSE <<>>
<1>1. /\ a.count \in Nat /\ a.step \in Int
      /\ a.symmetric \in BOOLEAN /\ a.zero \in BOOLEAN
  BY DEF Axes
<1>2. \A i \in 1..a.count : a.step * i \in Int /\ 0 - a.step * (a.count + 1 - i) \in Int
  BY <1>1
<1>3. \A i \in 1..a.count : down[i] = 0 - a.step * (a.count + 1 - i)
  BY <1>1
<1>4. up \in Seq(Int) /\ Len(up) = a.count /\ (\A i \in 1..a.count : up[i] \in Int)
  BY <1>1, <1>2
<1>5. down \in Seq(Int) /\ Len(down) = a.count
  <2>1. down \in [1..a.count -> Int]
    <3> HIDE DEF up
    <3> QED
      BY <1>1, <1>4
  <2> HIDE DEF down
  <2> QED
    BY <1>1, <2>1
<1> HIDE DEF up, down
<1>6. d \in Seq(Int) /\ Len(d) = Below(a) /\ Below(a) \in Nat
  BY <1>1, <1>5 DEF Below
<1>7. z \in Seq(Int) /\ Len(z) = UpTo(a) - Below(a) /\ UpTo(a) \in Nat
  BY <1>1, <1>6 DEF UpTo
<1>8. \A i \in 1..Below(a) : d[i] = 0 - a.step * (a.count + 1 - i)
  BY <1>1, <1>3 DEF Below
<1>9. \A i \in 1..(UpTo(a) - Below(a)) : z[i] = 0
  BY <1>1, <1>6 DEF UpTo
<1>10. \A i \in 1..a.count : up[i] = a.step * i
  BY DEF up
<1>11. Unsorted(a) = (d \o z) \o up
  BY DEF Unsorted, up, down
<1> HIDE DEF d, z
<1>12. /\ d \o z \in Seq(Int) /\ Len(d \o z) = UpTo(a)
       /\ \A i \in 1..UpTo(a) : (d \o z)[i] = IF i <= Below(a) THEN d[i] ELSE z[i - Below(a)]
  <2>1. /\ d \o z \in Seq(Int) /\ Len(d \o z) = Len(d) + Len(z)
        /\ \A i \in 1..(Len(d) + Len(z)) :
             (d \o z)[i] = IF i <= Len(d) THEN d[i] ELSE z[i - Len(d)]
    BY <1>6, <1>7, ConcatProperties
  <2>2. Len(d) + Len(z) = UpTo(a)
    BY <1>6, <1>7
  <2> QED
    BY <1>6, <2>1, <2>2
<1>13. /\ Unsorted(a) \in Seq(Int) /\ Len(Unsorted(a)) = UpTo(a) + a.count
       /\ \A i \in 1..(UpTo(a) + a.count) :
            Unsorted(a)[i] = IF i <= UpTo(a) THEN (d \o z)[i] ELSE up[i - UpTo(a)]
  <2> DEFINE e == d \o z
  <2> HIDE DEF e
  <2>1. e \in Seq(Int) /\ Len(e) = UpTo(a) /\ Unsorted(a) = e \o up
    BY <1>11, <1>12 DEF e
  <2>2. /\ Unsorted(a) \in Seq(Int) /\ Len(Unsorted(a)) = Len(e) + Len(up)
        /\ \A i \in 1..(Len(e) + Len(up)) :
             Unsorted(a)[i] = IF i <= Len(e) THEN e[i] ELSE up[i - Len(e)]
    <3>1. /\ e \o up \in Seq(Int)
          /\ Len(e \o up) = Len(e) + Len(up)
          /\ \A i \in 1..(Len(e) + Len(up)) :
               (e \o up)[i] = IF i <= Len(e) THEN e[i] ELSE up[i - Len(e)]
      BY <1>4, <2>1, ConcatProperties
    <3> QED
      BY <2>1, <3>1
  <2> QED
    BY <1>4, <2>1, <2>2 DEF e
<1>14. ASSUME NEW i \in 1..Len(Unsorted(a))
       PROVE  Unsorted(a)[i] = IF i <= Below(a) THEN 0 - a.step * (a.count + 1 - i)
                             ELSE IF i <= UpTo(a) THEN 0
                             ELSE a.step * (i - UpTo(a))
  <2>1. CASE i <= Below(a)
    BY <2>1, <1>1, <1>6, <1>7, <1>8, <1>12, <1>13 DEF UpTo
  <2>2. CASE ~(i <= Below(a)) /\ i <= UpTo(a)
    <3>1. i - Below(a) \in 1..(UpTo(a) - Below(a))
      BY <2>2, <1>6, <1>7, <1>13
    <3>2. i \in 1..UpTo(a) /\ i \in 1..(UpTo(a) + a.count)
      BY <2>2, <1>1, <1>7, <1>13
    <3>4. Unsorted(a)[i] = (d \o z)[i]
      BY <2>2, <3>2, <1>13
    <3>5. (d \o z)[i] = z[i - Below(a)]
      BY <2>2, <3>2, <1>12
    <3>3. z[i - Below(a)] = 0
      BY <3>1, <1>9
    <3> QED
      BY <2>2, <3>3, <3>4, <3>5
  <2>3. CASE ~(i <= Below(a)) /\ ~(i <= UpTo(a))
    <3>1. i - UpTo(a) \in 1..a.count
      BY <2>3, <1>1, <1>7, <1>13
    <3> QED
      BY <2>3, <3>1, <1>10, <1>13
  <2> QED
    BY <2>1, <2>2, <2>3
<1> QED
  BY <1>6, <1>7, <1>13, <1>14

LEMMA PointsAreSeq ==
  ASSUME NEW a \in Axes
  PROVE  Points(a) \in Seq(Int)
<1> DEFINE u == Unsorted(a)
<1>1. u \in Seq(Int)
  BY UnsortedAre
<1>2. Points(a) = IF a.zero /\ a.step < 0 THEN Reverse(u) ELSE u
  BY PointsOf
<1> HIDE DEF u
<1>3. Reverse(u) \in Seq(Int)
  BY <1>1 DEF Reverse
<1> QED
  BY <1>1, <1>2, <1>3

\* With a positive step they need no sorting.
LEMMA PointsAre ==
  ASSUME NEW a \in Axes, a.step > 0
  PROVE  /\ Points(a) \in Seq(Int)
         /\ Below(a) \in Nat /\ UpTo(a) \in Nat
         /\ Len(Points(a)) = UpTo(a) + a.count
         /\ \A i \in 1..Len(Points(a)) :
              Points(a)[i] = IF i <= Below(a) THEN 0 - a.step * (a.count + 1 - i)
                             ELSE IF i <= UpTo(a) THEN 0
                             ELSE a.step * (i - UpTo(a))
<1>1. Points(a) = Unsorted(a)
  <2>1. a.step \in Int
    BY DEF Axes
  <2> QED
    BY <2>1, PointsOf
<1> QED
  BY <1>1, UnsortedAre

-----------------------------------------------------------------------------
(* What a grid is made of                                                  *)

LEMMA DivMod ==
  ASSUME NEW k \in Nat, NEW m \in Nat, m > 0
  PROVE  /\ k \div m \in Nat /\ k % m \in 0..(m - 1)
         /\ k = (m * (k \div m)) + (k % m)
OBVIOUS

LEMMA Times ==
  ASSUME NEW s \in Int, NEW x \in Int, NEW y \in Int, s > 0, x < y
  PROVE  s * x < s * y
OBVIOUS

\* Quotient and remainder are what k is made of, and only they.
LEMMA DivModOf ==
  ASSUME NEW m \in Nat, NEW q \in Nat, NEW r \in 0..(m - 1)
  PROVE  /\ (m * q + r) \div m = q
         /\ (m * q + r) % m = r
OBVIOUS

LEMMA TimesAtMost ==
  ASSUME NEW s \in Nat, NEW x \in Int, NEW y \in Int, x <= y
  PROVE  s * x <= s * y
OBVIOUS

\* The places of the price and the vol of scenario k, with b vols.
PriceAt(k, b) == ((k - 1) \div b) + 1
VolAt(k, b)   == ((k - 1) % b) + 1

LEMMA PlacesOf ==
  ASSUME NEW a \in Nat, NEW b \in Nat, NEW k \in 1..(a * b)
  PROVE  /\ PriceAt(k, b) \in 1..a /\ VolAt(k, b) \in 1..b
         /\ k = (b * (PriceAt(k, b) - 1)) + VolAt(k, b)
<1> DEFINE q == (k - 1) \div b
           r == (k - 1) % b
<1>1. k - 1 \in Nat /\ b > 0 /\ k <= a * b /\ a * b \in Int /\ k \in Int
  OBVIOUS
<1>2. q \in Nat /\ r \in 0..(b - 1) /\ k - 1 = (b * q) + r
  BY <1>1, DivMod
<1>3. PriceAt(k, b) = q + 1 /\ VolAt(k, b) = r + 1
  BY DEF PriceAt, VolAt
<1> HIDE DEF q, r
<1>4. q < a
  <2>1. SUFFICES ASSUME a <= q PROVE FALSE
    BY <1>2
  <2>2. b * a <= b * q
    BY <1>2, <2>1, TimesAtMost
  <2> QED
    BY <1>1, <1>2, <2>2
<1>5. PriceAt(k, b) - 1 = q
  BY <1>2, <1>3
<1> QED
  BY <1>1, <1>2, <1>3, <1>4, <1>5

LEMMA PlaceWith ==
  ASSUME NEW a \in Nat, NEW b \in Nat, NEW x \in 1..a, NEW y \in 1..b
  PROVE  \E k \in 1..(a * b) : PriceAt(k, b) = x /\ VolAt(k, b) = y
<1> DEFINE k == (b * (x - 1)) + y
<1>1. x - 1 \in Nat /\ y - 1 \in 0..(b - 1) /\ k - 1 = (b * (x - 1)) + (y - 1)
  OBVIOUS
<1>2. PriceAt(k, b) = x /\ VolAt(k, b) = y
  <2>1. (k - 1) \div b = x - 1 /\ (k - 1) % b = y - 1
    BY <1>1, DivModOf
  <2> HIDE DEF k
  <2> QED
    BY <1>1, <2>1 DEF PriceAt, VolAt
<1>3. k \in 1..(a * b)
  <2>1. b * x <= b * a
    BY TimesAtMost
  <2>2. k = (b * x) - b + y
    OBVIOUS
  <2>3. k - 1 >= 0
    BY <1>1
  <2>4. b * x \in Int /\ b * a \in Int /\ a * b = b * a
    OBVIOUS
  <2> QED
    BY <2>1, <2>2, <2>3, <2>4
<1> QED
  BY <1>2, <1>3

\* What a grid holds: each price with each vol, in its place.
LEMMA CrossIs ==
  ASSUME NEW prices \in Seq(Int), NEW vols \in Seq(Int)
  PROVE  LET a == Len(prices)
             b == Len(vols)
             g == Cross(prices, vols)
         IN  /\ a \in Nat /\ b \in Nat /\ a * b \in Nat
             /\ g = [k \in 1..(a * b) |-> g[k]] /\ Len(g) = a * b /\ DOMAIN g = 1..(a * b)
             /\ \A k \in 1..(a * b) : g[k] = <<prices[PriceAt(k, b)], vols[VolAt(k, b)]>>
<1> DEFINE a == Len(prices)
           b == Len(vols)
           g == Cross(prices, vols)
<1>1. a \in Nat /\ b \in Nat
  OBVIOUS
<1>2. g = [k \in 1..(a * b) |-> <<prices[PriceAt(k, b)], vols[VolAt(k, b)]>>]
  BY DEF Cross, PriceAt, VolAt
<1> HIDE DEF a, b, g
<1>3. a * b \in Nat
  BY <1>1
<1>4. DEFINE n == a * b
<1>5. g = [k \in 1..n |-> <<prices[PriceAt(k, b)], vols[VolAt(k, b)]>>] /\ n \in Nat
  BY <1>2, <1>3
<1> HIDE DEF n
<1>6. g = [k \in 1..n |-> g[k]] /\ Len(g) = n /\ DOMAIN g = 1..n
  BY <1>5
<1>7. \A k \in 1..n : g[k] = <<prices[PriceAt(k, b)], vols[VolAt(k, b)]>>
  BY <1>5
<1> QED
  BY <1>1, <1>5, <1>6, <1>7 DEF n, a, b, g

\* The points of an axis ascend when its step is positive.
LEMMA PointsAscend ==
  ASSUME NEW a \in Axes, a.step > 0,
         NEW i \in 1..Len(Points(a)), NEW j \in 1..Len(Points(a)), i < j
  PROVE  Points(a)[i] < Points(a)[j]
<1> DEFINE N == a.count
           B == Below(a)
           U == UpTo(a)
           f(k) == IF k <= B THEN 0 - a.step * (N + 1 - k)
                   ELSE IF k <= U THEN 0 ELSE a.step * (k - U)
<1>1. /\ N \in Nat /\ a.step \in Int /\ a.symmetric \in BOOLEAN /\ a.zero \in BOOLEAN
      /\ B \in Nat /\ U \in Nat /\ B <= N /\ (U = B \/ U = B + 1)
  BY DEF Axes, Below, UpTo
<1>2. Points(a)[i] = f(i) /\ Points(a)[j] = f(j) /\ i \in 1..(U + N) /\ j \in 1..(U + N)
  BY PointsAre
<1> HIDE DEF N, B, U
<1>3. f(i) < f(j)
  <2>1. CASE j <= B
    <3>1. N + 1 - j < N + 1 - i
      BY <1>1, <1>2
    <3>2. a.step * (N + 1 - j) < a.step * (N + 1 - i)
      BY <1>1, <1>2, <3>1, Times
    <3>3. a.step * (N + 1 - j) \in Int /\ a.step * (N + 1 - i) \in Int
      BY <1>1, <1>2
    <3>4. f(i) = 0 - a.step * (N + 1 - i) /\ f(j) = 0 - a.step * (N + 1 - j)
      BY <1>1, <1>2, <2>1
    <3> QED
      BY <3>2, <3>3, <3>4
  <2>2. CASE i <= B /\ j > B
    <3>1. 0 < N + 1 - i
      BY <1>1, <1>2, <2>2
    <3>2. a.step * (N + 1 - i) > 0
      BY <1>1, <1>2, <3>1, Times
    <3>3. f(i) = 0 - a.step * (N + 1 - i) /\ f(j) = IF j <= U THEN 0 ELSE a.step * (j - U)
      BY <1>1, <1>2, <2>2
    <3>4. ~(j <= U) => a.step * (j - U) > 0
      BY <1>1, <1>2, Times
    <3>5. a.step * (N + 1 - i) \in Int /\ a.step * (j - U) \in Int
      BY <1>1, <1>2
    <3> HIDE DEF f
    <3> QED
      BY <3>2, <3>3, <3>4, <3>5
  <2>3. CASE i > B /\ i <= U
    <3>1. ~(j <= U) /\ ~(j <= B) /\ ~(i <= B)
      BY <1>1, <1>2, <2>3
    <3>2. 0 < j - U /\ j - U \in Int
      BY <1>1, <1>2, <3>1
    <3>3. a.step * (j - U) > 0
      BY <1>1, <3>2, Times
    <3> QED
      BY <2>3, <3>1, <3>3
  <2>4. CASE i > U
    <3>1. ~(j <= U) /\ ~(j <= B) /\ ~(i <= B) /\ ~(i <= U)
      BY <1>1, <1>2, <2>4
    <3>2. i - U < j - U /\ i - U \in Int /\ j - U \in Int
      BY <1>1, <1>2
    <3>3. a.step * (i - U) < a.step * (j - U)
      BY <1>1, <3>2, Times
    <3> QED
      BY <3>1, <3>3
  <2> QED
    BY <1>1, <1>2, <2>1, <2>2, <2>3, <2>4
<1> QED
  BY <1>2, <1>3

\* Its points are what the axis says.
LEMMA PointsAreTheAxis ==
  ASSUME NEW a \in Axes, a.step > 0
  PROVE  {Points(a)[i] : i \in 1..Len(Points(a))} = AxisPoints(a)
<1> DEFINE N == a.count
           B == Below(a)
           U == UpTo(a)
           p == Points(a)
<1>1. /\ N \in Nat /\ a.step \in Int /\ a.symmetric \in BOOLEAN /\ a.zero \in BOOLEAN
      /\ B \in Nat /\ U \in Nat
      /\ B = (IF a.symmetric THEN N ELSE 0) /\ U = B + (IF a.zero THEN 1 ELSE 0)
  BY DEF Axes, Below, UpTo
<1>2. /\ Len(p) = U + N
      /\ \A i \in 1..(U + N) : p[i] = IF i <= B THEN 0 - a.step * (N + 1 - i)
                                      ELSE IF i <= U THEN 0 ELSE a.step * (i - U)
  BY PointsAre
<1> HIDE DEF B, U, p
<1>3. ASSUME NEW i \in 1..(U + N) PROVE p[i] \in AxisPoints(a)
  <2>1. CASE i <= B
    <3>1. N + 1 - i \in 1..a.count /\ a.symmetric
      BY <1>1, <2>1
    <3>2. p[i] = (-1) * a.step * (N + 1 - i)
      BY <1>1, <1>2, <2>1
    <3> QED
      BY <3>1, <3>2 DEF AxisPoints
  <2>2. CASE ~(i <= B) /\ i <= U
    <3>1. p[i] = 0 /\ a.zero
      BY <1>1, <1>2, <2>2
    <3> QED
      BY <3>1 DEF AxisPoints
  <2>3. CASE ~(i <= B) /\ ~(i <= U)
    <3>1. i - U \in 1..a.count
      BY <1>1, <2>3
    <3>2. p[i] = 1 * a.step * (i - U)
      BY <1>1, <1>2, <2>3
    <3> QED
      BY <3>1, <3>2 DEF AxisPoints
  <2> QED
    BY <2>1, <2>2, <2>3
<1>4. ASSUME NEW c \in AxisPoints(a) PROVE \E i \in 1..(U + N) : p[i] = c
  <2>1. CASE c = 0 /\ a.zero
    <3>1. B + 1 \in 1..(U + N) /\ ~(B + 1 <= B) /\ B + 1 <= U
      BY <1>1, <2>1
    <3>2. p[B + 1] = 0
      BY <1>1, <1>2, <3>1
    <3> QED
      BY <2>1, <3>1, <3>2
  <2>2. ASSUME NEW x \in 1..a.count, c = 1 * a.step * x PROVE \E i \in 1..(U + N) : p[i] = c
    <3>1. U + x \in 1..(U + N) /\ ~(U + x <= B) /\ ~(U + x <= U) /\ (U + x) - U = x
      BY <1>1
    <3>2. p[U + x] = a.step * x
      BY <1>1, <1>2, <3>1
    <3> QED
      BY <1>1, <2>2, <3>1, <3>2
  <2>3. ASSUME NEW x \in 1..a.count, c = (-1) * a.step * x, a.symmetric
        PROVE  \E i \in 1..(U + N) : p[i] = c
    <3>1. N + 1 - x \in 1..(U + N) /\ N + 1 - x <= B /\ N + 1 - (N + 1 - x) = x
      BY <1>1, <2>3
    <3>2. p[N + 1 - x] = 0 - a.step * x
      BY <1>1, <1>2, <3>1
    <3>3. 0 - a.step * x = (-1) * a.step * x
      BY <1>1
    <3> QED
      BY <1>1, <2>3, <3>1, <3>2, <3>3
  <2> QED
    BY <2>1, <2>2, <2>3 DEF AxisPoints
<1> QED
  BY <1>2, <1>3, <1>4 DEF p

\* Later scenarios have a later price, or the same price and a later vol.
LEMMA PlacesAscend ==
  ASSUME NEW a \in Nat, NEW b \in Nat, NEW i \in 1..(a * b), NEW j \in 1..(a * b), i < j
  PROVE  \/ PriceAt(i, b) < PriceAt(j, b)
         \/ PriceAt(i, b) = PriceAt(j, b) /\ VolAt(i, b) < VolAt(j, b)
<1> DEFINE pi == PriceAt(i, b)
           pj == PriceAt(j, b)
           vi == VolAt(i, b)
           vj == VolAt(j, b)
<1>1. /\ pi \in 1..a /\ pj \in 1..a /\ vi \in 1..b /\ vj \in 1..b
      /\ i = (b * (pi - 1)) + vi /\ j = (b * (pj - 1)) + vj
      /\ i \in Int /\ j \in Int
  <2>1. pi \in 1..a /\ vi \in 1..b /\ i = (b * (pi - 1)) + vi
    BY PlacesOf
  <2>2. pj \in 1..a /\ vj \in 1..b /\ j = (b * (pj - 1)) + vj
    BY PlacesOf
  <2>3. i \in Int /\ j \in Int
    OBVIOUS
  <2> QED
    BY <2>1, <2>2, <2>3
<1> HIDE DEF pi, pj, vi, vj
<1>2. ~(pj < pi)
  <2>1. SUFFICES ASSUME pj < pi PROVE FALSE
    OBVIOUS
  <2>2. b * pj <= b * (pi - 1)
    <3>1. pj <= pi - 1 /\ pj \in Int /\ pi - 1 \in Int
      BY <1>1, <2>1
    <3> QED
      BY <3>1, TimesAtMost
  <2>3. b * (pj - 1) = (b * pj) - b /\ b * pj \in Int /\ b * (pi - 1) \in Int
    BY <1>1
  <2> QED
    BY <1>1, <2>2, <2>3
<1>3. pi = pj => vi < vj
  BY <1>1
<1> QED
  BY <1>1, <1>2, <1>3 DEF pi, pj, vi, vj

LEMMA GridIs ==
  ASSUME NEW c \in Contents
  PROVE  LET p == Points(c.price)
             v == Points(c.vol)
         IN  /\ c.price \in Axes /\ c.vol \in Axes
             /\ p \in Seq(Int) /\ v \in Seq(Int)
             /\ Grid(c) = Cross(p, v)
BY ColumnsAssumption, PointsAreSeq DEF Grid

LEMMA GridIsOrdered ==
  ASSUME NEW c \in Contents, c.price.step > 0, c.vol.step > 0
  PROVE  /\ \A i, j \in DOMAIN Grid(c) :
              i < j => \/ Grid(c)[i][1] < Grid(c)[j][1]
                       \/ Grid(c)[i][1] = Grid(c)[j][1] /\ Grid(c)[i][2] < Grid(c)[j][2]
         /\ ToSet(Grid(c)) = AxisPoints(c.price) \X AxisPoints(c.vol)
<1> DEFINE p == Points(c.price)
           v == Points(c.vol)
           a == Len(p)
           b == Len(v)
           g == Grid(c)
<1>1. /\ c.price \in Axes /\ c.vol \in Axes
      /\ p \in Seq(Int) /\ v \in Seq(Int) /\ g = Cross(p, v)
  BY GridIs
<1>2. /\ \A i, j \in 1..a : i < j => p[i] < p[j]
      /\ \A i, j \in 1..b : i < j => v[i] < v[j]
  BY <1>1, PointsAscend
<1>3. {p[i] : i \in 1..a} = AxisPoints(c.price) /\ {v[i] : i \in 1..b} = AxisPoints(c.vol)
  BY <1>1, PointsAreTheAxis
<1> HIDE DEF p, v
<1>4. /\ a \in Nat /\ b \in Nat /\ a * b \in Nat /\ DOMAIN g = 1..(a * b)
      /\ \A k \in 1..(a * b) : g[k] = <<p[PriceAt(k, b)], v[VolAt(k, b)]>>
  <2> HIDE DEF g
  <2> QED
    BY <1>1, CrossIs
<1> HIDE DEF a, b, g
<1>5. ASSUME NEW i \in DOMAIN g, NEW j \in DOMAIN g, i < j
      PROVE  \/ g[i][1] < g[j][1]
             \/ g[i][1] = g[j][1] /\ g[i][2] < g[j][2]
  <2>1. i \in 1..(a * b) /\ j \in 1..(a * b)
    BY <1>4
  <2>2. /\ PriceAt(i, b) \in 1..a /\ PriceAt(j, b) \in 1..a
        /\ VolAt(i, b) \in 1..b /\ VolAt(j, b) \in 1..b
    BY <1>4, <2>1, PlacesOf
  <2>3. \/ PriceAt(i, b) < PriceAt(j, b)
        \/ PriceAt(i, b) = PriceAt(j, b) /\ VolAt(i, b) < VolAt(j, b)
    BY <1>4, <1>5, <2>1, PlacesAscend
  <2>4. /\ g[i] = <<p[PriceAt(i, b)], v[VolAt(i, b)]>>
        /\ g[j] = <<p[PriceAt(j, b)], v[VolAt(j, b)]>>
    BY <1>4, <2>1
  <2> QED
    BY <1>2, <2>2, <2>3, <2>4
<1>6. ToSet(g) = AxisPoints(c.price) \X AxisPoints(c.vol)
  <2>1. ASSUME NEW x \in ToSet(g) PROVE x \in AxisPoints(c.price) \X AxisPoints(c.vol)
    <3>1. PICK k \in 1..(a * b) : x = g[k]
      BY <1>4, <2>1 DEF ToSet
    <3>2. PriceAt(k, b) \in 1..a /\ VolAt(k, b) \in 1..b
      BY <1>4, PlacesOf
    <3>3. p[PriceAt(k, b)] \in AxisPoints(c.price) /\ v[VolAt(k, b)] \in AxisPoints(c.vol)
      BY <1>3, <3>2
    <3>4. x = <<p[PriceAt(k, b)], v[VolAt(k, b)]>>
      BY <1>4, <3>1
    <3> QED
      BY <3>3, <3>4
  <2>2. ASSUME NEW x \in AxisPoints(c.price), NEW y \in AxisPoints(c.vol)
        PROVE  <<x, y>> \in ToSet(g)
    <3>1. PICK i \in 1..a, j \in 1..b : p[i] = x /\ v[j] = y
      BY <1>3, <2>2
    <3>2. PICK k \in 1..(a * b) : PriceAt(k, b) = i /\ VolAt(k, b) = j
      BY <1>4, PlaceWith
    <3>3. g[k] = <<x, y>>
      BY <1>4, <3>1, <3>2
    <3> QED
      BY <1>4, <3>3 DEF ToSet
  <2> QED
    BY <2>1, <2>2
<1> QED
  BY <1>5, <1>6 DEF g

-----------------------------------------------------------------------------
(* The invariant                                                           *)

Dirs  == [Slugs -> Configs \cup {NoFile}]
Built == {[config |-> f, grid |-> Grid(f.is)] : f \in Configs}

\* The heading's invariant: a batch that is intact was built with what the firm
\* keeps under its config's slug now, so an answer for it, whenever it was
\* given, looked its columns up in the batch's own grid.
IInv ==
  /\ files \in [Roots -> Dirs]
  /\ batches \in Seq(Built)
  /\ intact \subseteq DOMAIN batches
  /\ answer.batch \in 0..Len(batches)
  /\ \A b \in intact : files["firm"][Slug[batches[b].config.name]] = batches[b].config
  /\ answer.batch \in intact =>
       \A c \in Coordinates : answer.field[c] = IndexOf(batches[answer.batch].grid, c)

LEMMA ConfigIsFile ==
  ASSUME NEW f \in Configs
  PROVE  f # NoFile /\ f.name \in Names /\ f.is \in Contents /\ Slug[f.name] \in Slugs
<1>1. PICK n \in Names, c \in Contents : f = [name |-> n, is |-> c]
  BY DEF Configs
<1>2. f.name = n /\ f.is = c
  BY <1>1
<1>3. NoFile.name = "" /\ n # ""
  BY ColumnsAssumption DEF NoFile
<1> QED
  BY <1>2, <1>3 DEF Slugs

LEMMA SeededIsDir ==
  ASSUME NEW dir \in Dirs
  PROVE  /\ Seeded(dir) \in Dirs
         /\ \A s \in Slugs : dir[s] # NoFile => Seeded(dir)[s] = dir[s]
<1>1. Default \in Configs
  BY ColumnsAssumption
<1>2. Slug[Default.name] \in Slugs
  BY <1>1, ConfigIsFile
<1> QED
  BY <1>1, <1>2 DEF Seeded, Dirs

LEMMA BatchIsBuilt ==
  ASSUME IInv, NEW b \in DOMAIN batches
  PROVE  /\ batches[b].config \in Configs
         /\ batches[b].grid = Grid(batches[b].config.is)
<1>1. batches[b] \in Built
  BY DEF IInv
<1> QED
  BY <1>1 DEF Built

LEMMA InitIInv == Init => IInv
<1> SUFFICES ASSUME Init PROVE IInv
  OBVIOUS
<1>1. [s \in Slugs |-> NoFile] \in Dirs
  BY DEF Dirs
<1>2. files \in [Roots -> Dirs]
  BY <1>1, SeededIsDir DEF Init
<1> QED
  BY <1>2 DEF Init, IInv, NoAnswer

LEMMA EditIInv ==
  ASSUME IInv, NEW dir \in Dirs, EditFirm(dir)
  PROVE  IInv'
<1>1. files' \in [Roots -> Dirs] /\ files'["firm"] = dir
  BY DEF IInv, EditFirm, Roots
<1>2. intact' \subseteq intact
  BY DEF EditFirm, StillIntact
<1>3. \A b \in intact' : files'["firm"][Slug[batches'[b].config.name]] = batches'[b].config
  BY <1>1 DEF EditFirm, StillIntact
<1> QED
  BY <1>1, <1>2, <1>3 DEF IInv, EditFirm

LEMMA BuildIInv ==
  ASSUME IInv, NEW r \in Roots, NEW name \in Names, Build(r, name)
  PROVE  IInv'
<1> DEFINE config == files[r][Slug[name]]
           built  == [config |-> config, grid |-> Grid(config.is)]
<1>1. config \in Configs /\ built \in Built
  <2>1. Slug[name] \in Slugs
    BY DEF Slugs
  <2>2. files[r] \in Dirs
    BY DEF IInv
  <2>3. config \in Configs \cup {NoFile}
    BY <2>1, <2>2 DEF Dirs
  <2>4. config \in Configs
    BY <2>3 DEF Build
  <2> QED
    BY <2>4 DEF Built
<1> HIDE DEF config
<1>2. /\ batches' = Append(batches, built) /\ UNCHANGED <<files, answer>>
      /\ intact' = IF files["firm"][Slug[config.name]] = config
                   THEN intact \cup {Len(batches')} ELSE intact
  BY DEF Build, config
<1> HIDE DEF built
<1>3. /\ batches' \in Seq(Built) /\ Len(batches') = Len(batches) + 1
      /\ DOMAIN batches' = 1..(Len(batches) + 1) /\ DOMAIN batches = 1..Len(batches)
      /\ Len(batches) \in Nat
      /\ batches'[Len(batches')] = built
      /\ \A b \in DOMAIN batches : batches'[b] = batches[b]
  BY <1>1, <1>2 DEF IInv
<1>4. intact' \subseteq DOMAIN batches' /\ answer'.batch \in 0..Len(batches')
  BY <1>2, <1>3 DEF IInv
<1>5. ASSUME NEW b \in intact'
      PROVE  files'["firm"][Slug[batches'[b].config.name]] = batches'[b].config
  <2>1. CASE b \in intact
    BY <1>2, <1>3, <2>1 DEF IInv
  <2>2. CASE b \notin intact
    <3>1. b = Len(batches') /\ files["firm"][Slug[config.name]] = config
      BY <1>2, <1>5, <2>2
    <3>2. batches'[b].config = config
      BY <1>3, <3>1 DEF built
    <3> QED
      BY <1>2, <3>1, <3>2
  <2> QED
    BY <2>1, <2>2
<1>6. answer'.batch \in intact' =>
        \A c \in Coordinates : answer'.field[c] = IndexOf(batches'[answer'.batch].grid, c)
  <2>1. answer'.batch # Len(batches')
    BY <1>2, <1>3 DEF IInv
  <2>2. answer'.batch \in intact' => answer.batch \in intact /\ answer.batch \in DOMAIN batches
    BY <1>2, <2>1 DEF IInv
  <2> QED
    BY <1>2, <1>3, <2>2 DEF IInv
<1> QED
  BY <1>2, <1>3, <1>4, <1>5, <1>6 DEF IInv

LEMMA StepIInv == IInv /\ [Next]_vars => IInv'
<1> SUFFICES ASSUME IInv, [Next]_vars PROVE IInv'
  OBVIOUS
<1> USE DEF Roots
<1>1. ASSUME NEW n \in Names, NEW c \in Contents, SaveConfig(n, c) PROVE IInv'
  <2> DEFINE dir == [files["firm"] EXCEPT ![Slug[n]] = [name |-> n, is |-> c]]
  <2>1. dir \in Dirs
    <3>1. [name |-> n, is |-> c] \in Configs /\ files["firm"] \in Dirs
      BY DEF IInv, Configs
    <3> QED
      BY <3>1 DEF Dirs
  <2> HIDE DEF dir
  <2>2. EditFirm(dir)
    BY <1>1 DEF SaveConfig, dir
  <2> QED
    BY <2>1, <2>2, EditIInv
<1>2. ASSUME NEW n \in Names, DeleteConfig(n) PROVE IInv'
  <2> DEFINE dir == [files["firm"] EXCEPT ![Slug[n]] = NoFile]
  <2>1. dir \in Dirs
    BY DEF IInv, Dirs
  <2> HIDE DEF dir
  <2>2. EditFirm(dir)
    BY <1>2 DEF DeleteConfig, dir
  <2> QED
    BY <2>1, <2>2, EditIInv
<1>3. ASSUME StartProcess PROVE IInv'
  <2>1. files["firm"] \in Dirs
    BY DEF IInv
  <2>2. files' \in [Roots -> Dirs] /\ files'["firm"] = Seeded(files["firm"])
    BY <1>3, <2>1, SeededIsDir DEF StartProcess, IInv
  <2>3. ASSUME NEW b \in intact
        PROVE  files'["firm"][Slug[batches[b].config.name]] = batches[b].config
    <3>1. batches[b].config \in Configs /\ files["firm"][Slug[batches[b].config.name]] = batches[b].config
      BY BatchIsBuilt DEF IInv
    <3>2. batches[b].config # NoFile /\ Slug[batches[b].config.name] \in Slugs
      BY <3>1, ConfigIsFile
    <3> QED
      BY <2>1, <2>2, <3>1, <3>2, SeededIsDir
  <2> QED
    BY <1>3, <2>2, <2>3 DEF StartProcess, IInv
<1>4. ASSUME NEW r \in Roots, NEW n \in Names, Build(r, n) PROVE IInv'
  BY <1>4, BuildIInv
<1>5. ASSUME NEW b \in DOMAIN batches, GridColumns(b) PROVE IInv'
  <2> DEFINE config == files["firm"][Slug[batches[b].config.name]]
  <2>1. /\ answer'.batch = b
        /\ \A c \in Coordinates : answer'.field[c] = IndexOf(Grid(config.is), c)
        /\ UNCHANGED <<files, batches, intact>>
    BY <1>5 DEF GridColumns
  <2>2. b \in intact => config = batches[b].config
    BY DEF IInv
  <2> HIDE DEF config
  <2>3. b \in intact => \A c \in Coordinates : answer'.field[c] = IndexOf(batches[b].grid, c)
    BY <2>1, <2>2, BatchIsBuilt
  <2>4. b \in 0..Len(batches)
    BY DEF IInv
  <2> QED
    BY <2>1, <2>3, <2>4 DEF IInv
<1>6. CASE UNCHANGED vars
  BY <1>6 DEF vars, IInv
<1> QED
  BY <1>1, <1>2, <1>3, <1>4, <1>5, <1>6 DEF Next

LEMMA IInvAlways == Spec => []IInv
<1> QED
  BY InitIInv, StepIInv, PTL DEF Spec

-----------------------------------------------------------------------------
(* The theorems                                                            *)

\* The columns of a batch are headed by the scenarios they show for as long as
\* the firm keeps the config the batch was built with under its name.
THEOREM HeadingFitsIntactAlways == Spec => []HeadingFitsIntact
<1>1. ASSUME IInv, answer.batch \in intact, NEW c \in Coordinates
      PROVE  Fits(answer.batch, c, answer.field[c])
  <2> DEFINE b == answer.batch
             f == batches[b].config
             g == batches[b].grid
  <2>1. b \in DOMAIN batches /\ answer.field[c] = IndexOf(g, c)
    BY <1>1 DEF IInv
  <2>2. f \in Configs /\ g = Grid(f.is)
    BY <1>1, <2>1, BatchIsBuilt
  <2>3. f.is \in Contents
    BY <2>2, ConfigIsFile
  <2> HIDE DEF b, f, g
  <2>4. \E n \in Nat : g = [k \in 1..n |-> g[k]] /\ Len(g) = n
    <3> DEFINE p == Points(f.is.price)
               v == Points(f.is.vol)
    <3>1. p \in Seq(Int) /\ v \in Seq(Int) /\ g = Cross(p, v)
      BY <2>2, <2>3, GridIs
    <3> HIDE DEF p, v
    <3>2. Len(p) * Len(v) \in Nat /\ g = [k \in 1..(Len(p) * Len(v)) |-> g[k]] /\ Len(g) = Len(p) * Len(v)
      BY <3>1, CrossIs
    <3> QED
      BY <3>2
  <2>5. LET k == IndexOf(g, c)
        IN  IF k = Missing THEN \A i \in DOMAIN g : g[i] # c
                           ELSE k \in DOMAIN g /\ g[k] = c
    BY <2>4, IndexOfFinds
  <2> QED
    BY <2>1, <2>5 DEF Fits, b, g
<1>2. IInv => HeadingFitsIntact
  BY <1>1 DEF HeadingFitsIntact
<1> QED
  BY <1>2, IInvAlways, PTL

\* Every grid that is built has each scenario its axes say, once and in order,
\* as long as every step is positive.
THEOREM GridsAreOrderedAlways ==
  ASSUME \A c \in Contents : c.price.step > 0 /\ c.vol.step > 0
  PROVE  Spec => []GridsAreOrdered
<1>1. ASSUME IInv, NEW b \in DOMAIN batches
      PROVE  LET g  == batches[b].grid
                 is == batches[b].config.is
             IN  /\ \A i, j \in DOMAIN g : i < j => \/ g[i][1] < g[j][1]
                                                    \/ g[i][1] = g[j][1] /\ g[i][2] < g[j][2]
                 /\ ToSet(g) = AxisPoints(is.price) \X AxisPoints(is.vol)
  <2> DEFINE c == batches[b].config.is
  <2>1. c \in Contents /\ batches[b].grid = Grid(c)
    BY <1>1, BatchIsBuilt, ConfigIsFile
  <2> HIDE DEF c
  <2>2. c.price.step > 0 /\ c.vol.step > 0
    BY <2>1
  <2>3. /\ \A i, j \in DOMAIN Grid(c) :
             i < j => \/ Grid(c)[i][1] < Grid(c)[j][1]
                      \/ Grid(c)[i][1] = Grid(c)[j][1] /\ Grid(c)[i][2] < Grid(c)[j][2]
        /\ ToSet(Grid(c)) = AxisPoints(c.price) \X AxisPoints(c.vol)
    BY <2>1, <2>2, GridIsOrdered
  <2> QED
    BY <2>1, <2>3 DEF c
<1>2. IInv => GridsAreOrdered
  BY <1>1 DEF GridsAreOrdered
<1> QED
  BY <1>2, IInvAlways, PTL

=============================================================================
