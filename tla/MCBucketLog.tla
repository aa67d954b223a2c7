----------------------------- MODULE MCBucketLog -----------------------------
(***************************************************************************)
(* Instances of BucketLog: an entry for each of two keys, whose deadlines  *)
(* fall on a second and between two.                                       *)
(***************************************************************************)
EXTENDS BucketLog

CONSTANTS a, b, v, w

MCWords == {INSERT, DELETE, Empty, a, b, v, w}

MCKeyOrder == <<<<a>>, <<b>>>>

MCCoords == {<<v>>}

NewEntry(k, val, exp) ==
  [k |-> <<k>>, v |-> <<val>>, located |-> FALSE,
   opts |-> [doesExp |-> TRUE, doesInv |-> FALSE, expTime |-> exp, invTime |-> -3, tol |-> 0]]

MCTwoEntries == {NewEntry(a, v, 5), NewEntry(b, w, 4)}

AllFreqs == {"EACH", "MNGFREQ", "NONE"}

EachOnly == {"EACH"}

\* What follows the first of Harms is not explored: but for TypeOK and EachDurable, which
\* are proved, no property says anything there.
UpToHarm == damaged \subseteq {"twice"}

=============================================================================
