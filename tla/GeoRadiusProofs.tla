--------------------------- MODULE GeoRadiusProofs ----------------------------
(***************************************************************************)
(* Theorems about GeoRadius for every set of entries and points, in any    *)
(* dimension, every radius, and a tree of any number of leaves.            *)
(***************************************************************************)
EXTENDS GeoRadius, WellFoundedInduction, TLAPS

-----------------------------------------------------------------------------
(* The distance *)

\* Induction by the least number for which something would fail.
LEMMA LeastOf ==
  ASSUME NEW S, S \subseteq Nat, S # {}
  PROVE  \E m \in S : \A y \in S : y >= m
<1>1. PICK m \in S : \A y \in S : ~ (<<y, m>> \in OpToRel(<, Nat))
  BY WFMin, NatLessThanWellFounded, Zenon
<1>2. \A y \in S : ~ (y < m)
  BY <1>1, Zenon DEF OpToRel
<1> QED
  BY <1>2

Square(p, q) == [i \in 1..Len(p) |-> (p[i] - q[i]) * (p[i] - q[i])]

\* The sums of the loop over the coordinates.
Sums(f, p, q) ==
  f = [i \in 0..Len(p) |-> IF i = 0 THEN 0 ELSE f[i - 1] + (p[i] - q[i]) * (p[i] - q[i])]

LEMMA SquaresType ==
  ASSUME NEW p \in Seq(Int), NEW q \in Seq(Int), Len(p) = Len(q), NEW i \in 1..Len(p)
  PROVE  Square(p, q)[i] \in Nat /\ Square(p, q)[i] = (p[i] - q[i]) * (p[i] - q[i])
<1>1. p[i] \in Int /\ q[i] \in Int
  OBVIOUS
<1>2. \A x \in Int : x * x \in Nat
  OBVIOUS
<1>3. p[i] - q[i] \in Int
  BY <1>1
<1> QED
  BY <1>2, <1>3 DEF Square

\* There is such a function.
LEMMA SumsExist ==
  ASSUME NEW p \in Seq(Int), NEW q \in Seq(Int), Len(p) = Len(q)
  PROVE  \E f : Sums(f, p, q)
<1> DEFINE Upto(f, n) ==
             f = [i \in 0..n |-> IF i = 0 THEN 0 ELSE f[i - 1] + (p[i] - q[i]) * (p[i] - q[i])]
           Bad == {n \in 0..Len(p) : ~ \E f : Upto(f, n)}
<1>1. SUFFICES ASSUME Bad # {} PROVE FALSE
  BY DEF Sums
<1>2. PICK n \in Bad : \A y \in Bad : y >= n
  <2>1. Bad \subseteq Nat
    OBVIOUS
  <2> HIDE DEF Bad
  <2> QED
    BY <1>1, <2>1, LeastOf
<1>3. n \in Nat /\ n <= Len(p)
  OBVIOUS
<1>4. CASE n = 0
  <2> DEFINE f == [i \in 0..0 |-> 0]
  <2>1. Upto(f, 0)
    OBVIOUS
  <2> QED
    BY <1>4, <2>1
<1>5. CASE n # 0
  <2>1. n - 1 \in 0..Len(p) /\ ~(n - 1 >= n)
    BY <1>3, <1>5
  <2>2. PICK f : Upto(f, n - 1)
    BY <1>2, <2>1
  <2> DEFINE g == [i \in 0..n |-> IF i = n THEN f[n - 1] + (p[n] - q[n]) * (p[n] - q[n]) ELSE f[i]]
  <2>3. ASSUME NEW i \in 0..n
        PROVE  g[i] = IF i = 0 THEN 0 ELSE g[i - 1] + (p[i] - q[i]) * (p[i] - q[i])
    <3>1. CASE i = n
      <4>1. n - 1 \in 0..n /\ n - 1 # n
        BY <1>3, <1>5
      <4> QED
        BY <1>5, <3>1, <4>1
    <3>2. CASE i # n
      <4>1. i \in 0..(n - 1)
        BY <1>3, <3>2
      <4>2. f[i] = IF i = 0 THEN 0 ELSE f[i - 1] + (p[i] - q[i]) * (p[i] - q[i])
        BY <2>2, <4>1
      <4>3. i # 0 => i - 1 \in 0..n /\ i - 1 # n
        BY <1>3, <3>2
      <4> QED
        BY <3>2, <4>2, <4>3
    <3> QED
      BY <3>1, <3>2
  <2>4. g = [i \in 0..n |-> g[i]]
    OBVIOUS
  <2>5. Upto(g, n)
    BY <2>3, <2>4
  <2> QED
    BY <2>5
<1> QED
  BY <1>4, <1>5

\* No coordinate is farther away than the whole.
LEMMA CoordinateBound ==
  ASSUME NEW p \in Seq(Int), NEW q \in Seq(Int), Len(p) = Len(q)
  PROVE  /\ DistanceSquared(p, q) \in Nat
         /\ \A i \in 1..Len(p) : DistanceSquared(p, q) >= (p[i] - q[i]) * (p[i] - q[i])
<1> DEFINE f == CHOOSE g : Sums(g, p, q)
<1>1. Sums(f, p, q)
  BY SumsExist
<1>2. DistanceSquared(p, q) = f[Len(p)]
  BY DEF DistanceSquared, Sums
<1> HIDE DEF f
<1> DEFINE sq == Square(p, q)
<1>3. \A i \in 1..Len(p) : sq[i] \in Nat /\ sq[i] = (p[i] - q[i]) * (p[i] - q[i])
  BY SquaresType
<1>4. /\ f[0] = 0
      /\ \A i \in 1..Len(p) : f[i] = f[i - 1] + sq[i]
  <2>1. \A i \in 0..Len(p) : f[i] = IF i = 0 THEN 0 ELSE f[i - 1] + (p[i] - q[i]) * (p[i] - q[i])
    BY <1>1 DEF Sums
  <2> HIDE DEF sq
  <2> QED
    BY <1>3, <2>1
<1> HIDE DEF sq
<1> DEFINE Good(n) == f[n] \in Nat /\ \A i \in 1..n : f[n] >= sq[i]
           Bad == {n \in 0..Len(p) : ~ Good(n)}
<1>5. Bad = {}
  <2> SUFFICES ASSUME Bad # {} PROVE FALSE
    OBVIOUS
  <2>1. PICK n \in Bad : \A y \in Bad : y >= n
    <3>1. Bad \subseteq Nat
      OBVIOUS
    <3> HIDE DEF Bad
    <3> QED
      BY <3>1, LeastOf
  <2>2. n \in Nat /\ n <= Len(p) /\ ~Good(n)
    OBVIOUS
  <2>3. n # 0
    BY <1>4, <2>2
  <2>4. Good(n - 1)
    <3>1. n - 1 \in 0..Len(p) /\ ~(n - 1 >= n)
      BY <2>2, <2>3
    <3> QED
      BY <2>1, <3>1
  <2>5. f[n] = f[n - 1] + sq[n] /\ sq[n] \in Nat /\ f[n - 1] \in Nat
    <3>1. n \in 1..Len(p)
      BY <2>2, <2>3
    <3> QED
      BY <1>3, <1>4, <2>4, <3>1
  <2>6. \A i \in 1..n : f[n] >= sq[i]
    <3> SUFFICES ASSUME NEW i \in 1..n PROVE f[n] >= sq[i]
      OBVIOUS
    <3>1. CASE i = n
      BY <2>5, <3>1
    <3>2. CASE i # n
      <4>1. i \in 1..(n - 1) /\ i \in 1..Len(p)
        BY <2>2, <3>2
      <4>2. f[n - 1] >= sq[i] /\ sq[i] \in Nat
        BY <1>3, <2>4, <4>1
      <4> QED
        BY <2>5, <4>2, SMTT(30)
    <3> QED
      BY <3>1, <3>2
  <2> QED
    BY <2>2, <2>5, <2>6
<1>6. Good(Len(p))
  <2>1. Len(p) \in 0..Len(p)
    OBVIOUS
  <2> QED
    BY <1>5, <2>1
<1> QED
  BY <1>2, <1>3, <1>6

\* What is nearer than r by its square is so by itself.
LEMMA Nearer ==
  ASSUME NEW x \in Int, NEW r \in Nat
  PROVE  /\ x * x < r * r => -r < x /\ x < r
         /\ x * x <= r * r => -r <= x /\ x <= r
<1>1. ASSUME NEW y \in Nat, y >= r PROVE y * y >= r * r
  BY <1>1
<1>2. ASSUME NEW y \in Nat, y > r PROVE y * y > r * r
  BY <1>2
<1>3. CASE x >= 0
  BY <1>1, <1>2, <1>3
<1>4. CASE x < 0
  <2>1. -x \in Nat /\ (-x) * (-x) = x * x
    BY <1>4
  <2> QED
    BY <1>1, <1>2, <1>4, <2>1
<1> QED
  BY <1>3, <1>4

-----------------------------------------------------------------------------
(* The search *)

\* What is found although it may lie on the radius.
Sought(e) == Within(e) \/ (OnBoundary(e) /\ query.georincl /\ e.tol > 0)

Typed ==
  /\ query.pt \in Seq(Int) /\ query.r \in Nat \ {0}
  /\ stored \subseteq Entries /\ UNION leaves \subseteq stored /\ current \subseteq stored

\* A leaf with an entry of another dimension is among those that may be cut short.
Spoils(l) == (\E e \in l : ~SameDimension(e)) => l \subseteq spoilt

\* What is sought has been found or is still to come.
Pending == \A e \in stored \ spoilt : Sought(e) => e \in results \cup current \cup UNION leaves

\* What has been found lies within the radius, or on it if the option is set.
Found ==
  \A e \in results : SameDimension(e) /\ (Within(e) \/ (OnBoundary(e) /\ query.georincl))

IInv ==
  /\ Typed /\ Pending /\ Found
  /\ Spoils(current) /\ \A l \in leaves : Spoils(l)

\* The square around the point meets the rectangle of whatever is sought.
LEMMA SquareSuffices ==
  ASSUME Typed, NEW e \in Entries, SameDimension(e), Sought(e)
  PROVE  Overlap(Bounds(e), rrect(query.pt, query.r))
<1> DEFINE p == e.location
           q == query.pt
           r == query.r
<1>1. p \in Seq(Int) /\ q \in Seq(Int) /\ Len(p) = Len(q) /\ r \in Nat \ {0} /\ e.tol \in Nat
  BY GeoAssumption DEF Typed, SameDimension
<1>2. \/ DistanceSquared(p, q) < r * r
      \/ DistanceSquared(p, q) <= r * r /\ e.tol > 0
  <2> DEFINE d == DistanceSquared(p, q)
             z == r * r
  <2>1. z \in Nat
    BY <1>1
  <2>2. d < z \/ (d = z /\ e.tol > 0)
    BY DEF Sought, Within, OnBoundary
  <2> HIDE DEF d, z
  <2>3. d < z \/ (d <= z /\ e.tol > 0)
    BY <2>1, <2>2
  <2> QED
    BY <2>3 DEF d, z
<1> HIDE DEF p, q, r
<1>3. ASSUME NEW i \in 1..Len(p)
      PROVE  p[i] - e.tol < q[i] - r + 2 * r /\ q[i] - r < p[i] + e.tol
  <2>1. p[i] \in Int /\ q[i] \in Int /\ r * r \in Nat
    BY <1>1
  <2> DEFINE x == p[i] - q[i]
  <2>2. x \in Int /\ x * x \in Int
    BY <2>1
  <2>3. DistanceSquared(p, q) \in Nat /\ DistanceSquared(p, q) >= x * x
    BY <1>1, CoordinateBound
  <2>4. \/ x * x < r * r
        \/ x * x <= r * r /\ e.tol > 0
    <3> HIDE DEF x
    <3> DEFINE y == x * x
               z == r * r
    <3>1. y \in Int /\ z \in Nat /\ DistanceSquared(p, q) >= y
      BY <2>1, <2>2, <2>3
    <3>2. DistanceSquared(p, q) < z \/ (DistanceSquared(p, q) <= z /\ e.tol > 0)
      BY <1>2
    <3> HIDE DEF y, z
    <3>3. y < z \/ (y <= z /\ e.tol > 0)
      BY <2>3, <3>1, <3>2
    <3> QED
      BY <3>3 DEF y, z
  <2>5. (-r < x /\ x < r) \/ (-r <= x /\ x <= r /\ e.tol > 0)
    <3> HIDE DEF x
    <3> QED
      BY <1>1, <2>2, <2>4, Nearer
  <2>6. \A a, b, c, t \in Int :
          c > 0 /\ t >= 0 /\ ((-c < a - b /\ a - b < c) \/ (-c <= a - b /\ a - b <= c /\ t > 0)) =>
            a - t < b - c + 2 * c /\ b - c < a + t
    OBVIOUS
  <2>7. r \in Int /\ r > 0 /\ e.tol \in Int /\ e.tol >= 0
    BY <1>1
  <2> QED
    BY <2>1, <2>5, <2>6, <2>7
<1>4. /\ Bounds(e) = [i \in 1..Len(p) |-> [from |-> p[i] - e.tol, to |-> p[i] + e.tol]]
      /\ rrect(q, r) = [i \in 1..Len(q) |-> [from |-> q[i] - r, to |-> q[i] - r + 2 * r]]
  <2>1. DOMAIN p = 1..Len(p) /\ DOMAIN q = 1..Len(q)
    BY <1>1
  <2> QED
    BY <2>1 DEF Bounds, rrect, p
<1>5. Overlap(Bounds(e), rrect(q, r))
  BY <1>1, <1>3, <1>4 DEF Overlap
<1> QED
  BY <1>5 DEF q, r

LEMMA InitIInv ==
  ASSUME Init
  PROVE  IInv
<1>1. PICK S \in SUBSET Entries : \E leaf \in [S -> 1..MaxLeaves] :
        leaves = {{e \in S : leaf[e] = n} : n \in 1..MaxLeaves} /\ stored = S
  BY DEF Init
<1>2. PICK leaf \in [S -> 1..MaxLeaves] : leaves = {{e \in S : leaf[e] = n} : n \in 1..MaxLeaves}
  BY <1>1
<1>3. UNION leaves = stored
  <2>1. \A e \in S : leaf[e] \in 1..MaxLeaves
    OBVIOUS
  <2> QED
    BY <1>1, <1>2, <2>1
<1>4. Typed
  BY <1>1, <1>3, GeoAssumption DEF Init, Typed
<1>5. Pending
  BY <1>3 DEF Pending
<1>6. Found
  BY DEF Init, Found
<1>7. Spoils(current)
  BY DEF Init, Spoils
<1>8. \A l \in leaves : Spoils(l)
  BY DEF Init, Spoils
<1> QED
  BY <1>4, <1>5, <1>6, <1>7, <1>8 DEF IInv

LEMMA LeafKeeps ==
  ASSUME IInv, NEW l \in leaves, searchLeaf(l)
  PROVE  IInv'
<1>1. /\ current = {} /\ leaves' = leaves \ {l}
      /\ current' = {e \in l : Overlap(Bounds(e), rrect(query.pt, query.r))}
      /\ results' = results /\ query' = query /\ stored' = stored /\ spoilt' = spoilt
  BY DEF searchLeaf
<1>2. Typed'
  BY <1>1 DEF IInv, Typed
<1>3. Found'
  BY <1>1 DEF IInv, Found, SameDimension, Within, OnBoundary
<1>4. \A k \in leaves' : Spoils(k)'
  BY <1>1 DEF IInv, Spoils, SameDimension
<1>5. Spoils(current)'
  BY <1>1 DEF IInv, Spoils, SameDimension
<1>6. Pending'
  <2> SUFFICES ASSUME NEW e \in stored \ spoilt, Sought(e)
               PROVE  e \in results \cup current' \cup UNION leaves'
    BY <1>1 DEF Pending, Sought, Within, OnBoundary
  <2>1. e \in results \cup UNION leaves
    BY <1>1 DEF IInv, Pending
  <2>2. ASSUME e \in l PROVE e \in current'
    <3>1. SameDimension(e)
      BY <2>2 DEF IInv, Spoils
    <3>2. e \in Entries
      BY DEF IInv, Typed
    <3>3. Overlap(Bounds(e), rrect(query.pt, query.r))
      BY <3>1, <3>2, SquareSuffices DEF IInv
    <3> QED
      BY <1>1, <2>2, <3>3
  <2> QED
    BY <1>1, <2>1, <2>2
<1> QED
  BY <1>2, <1>3, <1>4, <1>5, <1>6 DEF IInv

LEMMA FilterKeeps ==
  ASSUME IInv, NEW e \in current, radiusFilter(e)
  PROVE  IInv'
<1> DEFINE d == DistanceSquared(e.location, query.pt)
           r == query.r * query.r
<1>1. /\ leaves' = leaves /\ query' = query /\ stored' = stored /\ spoilt' = spoilt
      /\ \/ ~SameDimension(e) /\ current' = {} /\ results' = results
         \/ /\ SameDimension(e) /\ current' = current \ {e}
            /\ results' = IF d < r \/ (d = r /\ query.georincl) THEN results \cup {e} ELSE results
  BY DEF radiusFilter
<1>2. Sought(e) => d < r \/ (d = r /\ query.georincl)
  BY DEF Sought, Within, OnBoundary
<1>3. d < r \/ (d = r /\ query.georincl) => Within(e) \/ (OnBoundary(e) /\ query.georincl)
  BY DEF Within, OnBoundary
<1> HIDE DEF d, r
<1>4. current' \subseteq current /\ results \subseteq results'
  BY <1>1
<1>5. Typed'
  BY <1>1, <1>4 DEF IInv, Typed
<1>6. Found'
  <2>1. \A x \in results' : SameDimension(x) /\ (Within(x) \/ (OnBoundary(x) /\ query.georincl))
    BY <1>1, <1>3 DEF IInv, Found
  <2> QED
    BY <1>1, <2>1 DEF Found, SameDimension, Within, OnBoundary
<1>7. \A l \in leaves' : Spoils(l)'
  BY <1>1 DEF IInv, Spoils, SameDimension
<1>8. Spoils(current)'
  BY <1>1, <1>4 DEF IInv, Spoils, SameDimension
<1>9. Pending'
  <2> SUFFICES ASSUME NEW x \in stored \ spoilt, Sought(x)
               PROVE  x \in results' \cup current' \cup UNION leaves
    BY <1>1 DEF Pending, Sought, Within, OnBoundary
  <2>1. x \in results \cup current \cup UNION leaves
    BY DEF IInv, Pending
  <2>2. ASSUME x \in current PROVE x \in results' \cup current'
    <3>1. SameDimension(e)
      BY <2>2 DEF IInv, Spoils
    <3>2. CASE x = e
      BY <1>1, <1>2, <3>1, <3>2
    <3>3. CASE x # e
      BY <1>1, <2>2, <3>1, <3>3
    <3> QED
      BY <3>2, <3>3
  <2> QED
    BY <1>4, <2>1, <2>2
<1> QED
  BY <1>5, <1>6, <1>7, <1>8, <1>9 DEF IInv

LEMMA PanicKeeps ==
  ASSUME IInv, NEW l \in leaves, searchPanics(l)
  PROVE  IInv'
  BY DEF searchPanics, IInv, Typed, Pending, Found, Spoils, Sought, SameDimension, Within,
         OnBoundary

\* In every state of a search IInv holds.
THEOREM SearchInvariance == Spec => []IInv
<1>1. Init => IInv
  BY InitIInv
<1>2. IInv /\ [Next]_vars => IInv'
  <2> SUFFICES ASSUME IInv, [Next]_vars PROVE IInv'
    OBVIOUS
  <2>1. CASE Next
    BY <2>1, PanicKeeps, LeafKeeps, FilterKeeps DEF Next
  <2>2. CASE UNCHANGED vars
    BY <2>2 DEF vars, IInv, Typed, Pending, Found, Spoils, Sought, SameDimension, Within,
                OnBoundary
  <2> QED
    BY <2>1, <2>2
<1> QED
  BY <1>1, <1>2, PTL DEF Spec

\* Nothing that SearchWithinRadius finds lies beyond the radius, in any dimension.
THEOREM ResultsAreWithin == Spec => []NothingBeyond
<1>1. IInv => NothingBeyond
  BY DEF IInv, Found, NothingBeyond
<1> QED
  BY <1>1, SearchInvariance, PTL

\* The square that SearchWithinRadius hands to the R-tree is large enough, and the filter
\* keeps what it should: when the search returns it has every entry within the radius, but
\* for leaves with an entry of another dimension, however entries share leaves.
THEOREM ResultsAreComplete == Spec => []NothingMissed
<1>1. IInv => NothingMissed
  BY DEF IInv, Pending, NothingMissed, Done, Sought
<1> QED
  BY <1>1, SearchInvariance, PTL

\* What happens to an entry exactly on the radius: with the option set, and a tolerance, it
\* is found, and without the option it is not (tx.go:526).
THEOREM BoundaryWithOption ==
  Spec => [](Done => \A e \in stored \ spoilt :
                       OnBoundary(e) /\ e.tol > 0 => (e \in results <=> query.georincl))
<1>1. ASSUME IInv, Done, NEW e \in stored \ spoilt, OnBoundary(e), e.tol > 0
      PROVE  e \in results <=> query.georincl
  <2>1. query.georincl => e \in results
    BY <1>1 DEF IInv, Pending, Done, Sought
  <2>2. ~Within(e)
    <3> DEFINE r == query.r * query.r
    <3>1. DistanceSquared(e.location, query.pt) = r
      BY <1>1 DEF OnBoundary
    <3>2. r \in Nat
      BY <1>1 DEF IInv, Typed
    <3> HIDE DEF r
    <3>3. ~(r < r)
      BY <3>2
    <3>4. ~(DistanceSquared(e.location, query.pt) < r)
      BY <3>1, <3>3, Zenon
    <3> QED
      BY <3>4 DEF Within, r
  <2>3. e \in results => query.georincl
    BY <1>1, <2>2 DEF IInv, Found
  <2> QED
    BY <2>1, <2>3
<1>2. IInv => (Done => \A e \in stored \ spoilt :
                         OnBoundary(e) /\ e.tol > 0 => (e \in results <=> query.georincl))
  BY <1>1
<1> QED
  BY <1>2, SearchInvariance, PTL
=============================================================================
