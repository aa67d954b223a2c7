----------------------------- MODULE BucketTrees -----------------------------
(***************************************************************************)
(* The in-memory trees of one bucket (bucket.go, index.go, entry.go): the  *)
(* primary tree and the trees derived from it, and what insert and delete  *)
(* do to all of them.                                                      *)
(*                                                                         *)
(* A B-tree of the btree package tells two items apart only by its less    *)
(* function.  ReplaceOrInsert drops whatever item is equivalent to the new *)
(* one and Delete removes whatever item is equivalent to the one given, so *)
(* a tree is a function from the ordinal that less compares to the single  *)
(* entry held there: the key for the primary tree, the expire time and the *)
(* invalid time for the eviction and invalidation trees (entry.go:79-91),  *)
(* the number read from the field for an index (index.go:47-60).           *)
(*                                                                         *)
(* The row counter rct and the file belong to the log of the bucket and    *)
(* are not part of this module.                                            *)
(*                                                                         *)
(* An operator named x_y, just before the definition x, is x with the      *)
(* mistake y in it: the model checker must notice the exchange.            *)
(***************************************************************************)
EXTENDS Integers, FiniteSets

CONSTANTS
  Keys,         \* entry keys, ordered as the strings of the program are
  Times,        \* the deadlines entries may carry
  Never,        \* the deadline of an entry whose doesExp (doesInv) is FALSE
  Patterns,     \* field paths an index can be built over
  FieldValues,  \* what an entry can hold at such a path
  NoField,      \* the entry has nothing at the path
  Rank,         \* the number gjson reads from a field value
  Entries,      \* the entries clients write
  Geo,          \* options.geo of the bucket
  Nil           \* no entry, or no index

EntryRecords ==
  [k : Keys, exp : Times \cup {Never}, inv : Times \cup {Never},
   field : [Patterns -> FieldValues \cup {NoField}], coords : BOOLEAN]

\* A bucket holds finitely many keys: any group of them has a last one.
ASSUME KeysAssumption ==
  /\ Keys \subseteq Int
  /\ \A S \in SUBSET Keys : S # {} => \E k \in S : \A j \in S : j <= k

\* Finitely many deadlines are in use: any group of them has an earliest one.
ASSUME TimesAssumption ==
  /\ Times \subseteq Int /\ IsFiniteSet(Times)
  /\ Never \notin Times
  /\ \A S \in SUBSET Times : S # {} => \E d \in S : \A c \in S : d <= c

\* A missing field and a field that is not a number both read as zero.
ASSUME FieldsAssumption ==
  /\ NoField \notin FieldValues
  /\ Rank \in [FieldValues \cup {NoField} -> Int]
  /\ Rank[NoField] = 0

ASSUME EntriesAssumption ==
  /\ Entries \subseteq EntryRecords
  /\ Nil \notin Entries
  /\ Geo \in BOOLEAN

-----------------------------------------------------------------------------
(* Trees *)

Ordinals == {Rank[f] : f \in FieldValues \cup {NoField}}

Trees(O) == [O -> Entries \cup {Nil}]

EmptyTree(O) == [o \in O |-> Nil]

ReplaceOrInsert(tree, o, e) == [tree EXCEPT ![o] = e]

Remove(tree, o) == [tree EXCEPT ![o] = Nil]

Occupied(tree) == {o \in DOMAIN tree : tree[o] # Nil}

\* The item BTree.Min returns; the tree is not empty.
MinItem(tree) ==
  tree[CHOOSE o \in Occupied(tree) : \A x \in Occupied(tree) : o <= x]

-----------------------------------------------------------------------------
(* Indexes *)

HasField(p, e) == e.field[p] # NoField

Ord(p, e) == Rank[e.field[p]]

indexInsert(tree, p, e) ==
  IF HasField(p, e) THEN ReplaceOrInsert(tree, Ord(p, e), e) ELSE tree

indexDelete_skip(tree, p, e) == tree

indexDelete(tree, p, e) ==
  IF HasField(p, e) THEN Remove(tree, Ord(p, e)) ELSE tree

\* build visits the entries in key order, so the last key of an ordinal stays.
build(data, p) ==
  [o \in Ordinals |->
     LET same == {k \in Keys : /\ data[k] # Nil
                               /\ HasField(p, data[k])
                               /\ Ord(p, data[k]) = o}
     IN  IF same = {} THEN Nil
         ELSE data[CHOOSE k \in same : \A j \in same : j <= k]]

-----------------------------------------------------------------------------
(* The bucket *)

Buckets ==
  [data         : Trees(Keys),
   eviction     : Trees(Times),
   invalidation : Trees(Times),
   indexes      : [Patterns -> Trees(Ordinals) \cup {Nil}],
   rtree        : SUBSET Entries]

newBucket ==
  [data         |-> EmptyTree(Keys),
   eviction     |-> EmptyTree(Times),
   invalidation |-> EmptyTree(Times),
   indexes      |-> [p \in Patterns |-> Nil],
   rtree        |-> {}]

IndexNames(b) == {p \in Patterns : b.indexes[p] # Nil}

\* The derived trees once the entry e, replaced or deleted, is taken out.
Detach(b, e) ==
  [data         |-> b.data,
   eviction     |-> IF e.exp # Never THEN Remove(b.eviction, e.exp)
                                     ELSE b.eviction,
   invalidation |-> IF e.inv # Never THEN Remove(b.invalidation, e.inv)
                                     ELSE b.invalidation,
   indexes      |-> [p \in Patterns |->
                       IF b.indexes[p] = Nil THEN Nil
                       ELSE indexDelete(b.indexes[p], p, e)],
   rtree        |-> IF Geo /\ e.coords THEN {x \in b.rtree : x.k # e.k}
                                       ELSE b.rtree]

\* The derived trees once the new entry e is put in.
Attach(b, e) ==
  [data         |-> b.data,
   eviction     |-> IF e.exp # Never THEN ReplaceOrInsert(b.eviction, e.exp, e)
                                     ELSE b.eviction,
   invalidation |-> IF e.inv # Never
                    THEN ReplaceOrInsert(b.invalidation, e.inv, e)
                    ELSE b.invalidation,
   indexes      |-> [p \in Patterns |->
                       IF b.indexes[p] = Nil THEN Nil
                       ELSE indexInsert(b.indexes[p], p, e)],
   rtree        |-> IF Geo /\ e.coords THEN b.rtree \cup {e} ELSE b.rtree]

Displace_skip(b, k) == b

\* The entry that key k held is taken out of the derived trees, if there is one.
Displace(b, k) == IF b.data[k] = Nil THEN b ELSE Detach(b, b.data[k])

insert_detachLast(b, e) ==
  LET c == Attach([b EXCEPT !.data = ReplaceOrInsert(@, e.k, e)], e)
  IN  IF b.data[e.k] = Nil THEN c ELSE Detach(c, b.data[e.k])

insert(b, e) ==
  Attach([Displace(b, e.k) EXCEPT !.data = ReplaceOrInsert(@, e.k, e)], e)

delete(b, k) == [Displace(b, k) EXCEPT !.data = Remove(@, k)]

-----------------------------------------------------------------------------
(* What insert and delete preserve *)

\* What a map keeps under a key has that key.
Keyed(m) == \A k \in Keys : m[k] \in Entries => m[k].k = k

\* Every entry of the two trees is current and stands at its own time.
SoundDeadlines(b) ==
  /\ \A d \in Occupied(b.eviction) :
       LET e == b.eviction[d] IN e.exp = d /\ b.data[e.k] = e
  /\ \A d \in Occupied(b.invalidation) :
       LET e == b.invalidation[d] IN e.inv = d /\ b.data[e.k] = e

\* Every entry of an index that has the field is current and in its place.
SoundIndexes(b) ==
  \A p \in IndexNames(b) : \A o \in Occupied(b.indexes[p]) :
    LET e == b.indexes[p][o]
    IN  HasField(p, e) => Ord(p, e) = o /\ b.data[e.k] = e

\* The R-tree holds the current entries that have coordinates.
ExactGeo(b) ==
  b.rtree = IF Geo THEN {e \in Entries : e.coords /\ b.data[e.k] = e} ELSE {}
=============================================================================
