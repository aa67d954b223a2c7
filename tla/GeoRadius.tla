------------------------------ MODULE GeoRadius -------------------------------
(***************************************************************************)
(* SearchWithinRadius (tx.go:486-538) over an R-tree: the library hands    *)
(* the filter the entries of a leaf whose rectangles overlap the square    *)
(* around the point, and a filter can refuse an entry and abort its leaf.  *)
(* Which entries share a leaf, and the order of leaves and entries, is the *)
(* library's choice.  Coordinates, radii and tolerances are integers; the  *)
(* rounding of floating point numbers is not covered.  What the library    *)
(* does with a rectangle of another dimension than the square is not in    *)
(* the repository: it compares what it can, as the filter expects, or it   *)
(* panics.                                                                 *)
(*                                                                         *)
(* An operator named x_y, just before the definition x, is x with the      *)
(* mistake y in it: the model checker must notice the exchange.            *)
(***************************************************************************)
EXTENDS Integers, Sequences, FiniteSets

CONSTANTS
  Entries,     \* records with a location, a sequence, and a tolerance
  Points,      \* the centers searched around
  Radii,
  MaxEntries,  \* bound on the entries of a tree
  MaxLeaves    \* bound on its leaves

ASSUME GeoAssumption ==
  /\ \A e \in Entries : e.tol \in Nat /\ e.location \in Seq(Int)
  /\ Points \subseteq Seq(Int) /\ Radii \subseteq Nat \ {0} /\ MaxEntries \in Nat /\ MaxLeaves \in Nat

VARIABLES
  leaves,     \* the leaves not yet searched
  current,    \* the entries left of the leaf that is being searched
  results,
  panicked,   \* has the library panicked?
  query,      \* the arguments, and the option of the bucket
  stored,     \* history: all entries of the tree
  spoilt      \* history: the entries of leaves that have one of another dimension

vars == <<leaves, current, results, panicked, query, stored, spoilt>>

-----------------------------------------------------------------------------

\* e.location.ToRect(e.tol)
Bounds(e) ==
  [i \in DOMAIN e.location |-> [from |-> e.location[i] - e.tol, to |-> e.location[i] + e.tol]]

rrect_radiusWide(pt, r) == [i \in DOMAIN pt |-> [from |-> pt[i] - r, to |-> pt[i]]]

\* The square from the point less the radius, two radii wide.
rrect(pt, r) == [i \in DOMAIN pt |-> [from |-> pt[i] - r, to |-> pt[i] - r + 2 * r]]

\* Rectangles that only touch do not overlap.  Of two that differ in dimension, if the
\* library compares them at all, the common ones are compared.
Overlap(a, b) ==
  \A i \in DOMAIN a \cap DOMAIN b : a[i].from < b[i].to /\ b[i].from < a[i].to

DistanceSquared(p, q) ==
  LET dsub[i \in 0..Len(p)] ==
        IF i = 0 THEN 0 ELSE dsub[i - 1] + (p[i] - q[i]) * (p[i] - q[i])
  IN  dsub[Len(p)]

SameDimension(e) == Len(e.location) = Len(query.pt)

Init ==
  /\ \E S \in SUBSET Entries :
       /\ Cardinality(S) <= MaxEntries
       /\ \E leaf \in [S -> 1..MaxLeaves] :
            leaves = {{e \in S : leaf[e] = n} : n \in 1..MaxLeaves}
       /\ stored = S
  /\ query \in [pt : Points, r : Radii, georincl : BOOLEAN]
  /\ current = {} /\ results = {} /\ panicked = FALSE
  /\ spoilt = UNION {l \in leaves : \E e \in l : ~SameDimension(e)}

searchPanics(l) ==
  /\ ~panicked /\ current = {} /\ l \in leaves
  /\ \E e \in l : ~SameDimension(e)
  /\ panicked' = TRUE
  /\ UNCHANGED <<leaves, current, results, query, stored, spoilt>>

searchLeaf(l) ==
  /\ ~panicked /\ current = {} /\ l \in leaves
  /\ leaves' = leaves \ {l}
  /\ current' = {e \in l : Overlap(Bounds(e), rrect(query.pt, query.r))}
  /\ UNCHANGED <<results, panicked, query, stored, spoilt>>

radiusFilter_square(e) ==
  /\ e \in current
  /\ \/ ~SameDimension(e) /\ current' = {} /\ UNCHANGED results
     \/ SameDimension(e) /\ current' = current \ {e} /\ results' = results \cup {e}
  /\ UNCHANGED <<leaves, panicked, query, stored, spoilt>>

\* An entry of another dimension is refused and ends the search of its leaf.  The
\* distance itself, a root, is compared with the radius in the code.
radiusFilter(e) ==
  LET d == DistanceSquared(e.location, query.pt)
      r == query.r * query.r
  IN
  /\ e \in current
  /\ \/ ~SameDimension(e) /\ current' = {} /\ UNCHANGED results
     \/ /\ SameDimension(e) /\ current' = current \ {e}
        /\ results' = IF d < r \/ (d = r /\ query.georincl) THEN results \cup {e} ELSE results
  /\ UNCHANGED <<leaves, panicked, query, stored, spoilt>>

Next ==
  \/ \E l \in leaves : searchPanics(l) \/ searchLeaf(l)
  \/ \E e \in current : radiusFilter(e)

Spec == Init /\ [][Next]_vars

-----------------------------------------------------------------------------

\* SearchWithinRadius returns.
Done == ~panicked /\ leaves = {} /\ current = {}

Within(e) == DistanceSquared(e.location, query.pt) < query.r * query.r

OnBoundary(e) == DistanceSquared(e.location, query.pt) = query.r * query.r

\* Nothing is found that lies beyond the radius, nor anything whose distance does not
\* exist: what the square has beyond the circle is filtered out.
NothingBeyond == \A e \in results : SameDimension(e) /\ (Within(e) \/ OnBoundary(e))

\* The square and the filter find every entry within the radius, however entries share
\* leaves, but for the leaves that hold an entry of another dimension.
NothingMissed == Done => \A e \in stored \ spoilt : Within(e) => e \in results

\* "If the GeoRangeIsInclusive option is set ... less than", else "less than or equal to
\* the specified radius" (tx.go:482-485): an entry exactly on the radius is found if and
\* only if the option is not set.  Only entries with a tolerance are held to it, for the
\* rectangle of a point without one touches the square and no more.
BoundaryAsDocumented ==
  Done => \A e \in stored \ spoilt :
            OnBoundary(e) /\ e.tol > 0 => (e \in results <=> ~query.georincl)
=============================================================================
