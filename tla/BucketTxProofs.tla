---------------------------- MODULE BucketTxProofs ---------------------------
(***************************************************************************)
(* Theorems about BucketTx for every set of clients, keys, deadlines,      *)
(* fields and entries, and every value of the bounds.  The first part says *)
(* what insert, delete and build return and preserve.                      *)
(***************************************************************************)
EXTENDS BucketTx, FiniteSetTheorems, TLAPS

-----------------------------------------------------------------------------
(* The trees *)

\* Removing a replaced or deleted entry from the derived trees gives a bucket.
LEMMA DetachType ==
  ASSUME NEW b \in Buckets, NEW e \in Entries
  PROVE  Detach(b, e) \in Buckets
<1>1. e \in EntryRecords
  BY EntriesAssumption
<1>2. \A p \in Patterns : b.indexes[p] \in Trees(Ordinals) =>
        indexDelete(b.indexes[p], p, e) \in Trees(Ordinals)
  BY DEF indexDelete, Remove, Trees
<1>3. (Detach(b, e)).eviction \in Trees(Times)
  BY <1>1 DEF Detach, Buckets, Trees, Remove, EntryRecords
<1>4. (Detach(b, e)).invalidation \in Trees(Times)
  BY <1>1 DEF Detach, Buckets, Trees, Remove, EntryRecords
<1>5. (Detach(b, e)).indexes \in [Patterns -> Trees(Ordinals) \cup {Nil}]
  BY <1>2 DEF Detach, Buckets
<1> QED
  BY <1>3, <1>4, <1>5 DEF Detach, Buckets

\* Adding an entry to the derived trees gives a bucket.
LEMMA AttachType ==
  ASSUME NEW b \in Buckets, NEW e \in Entries
  PROVE  Attach(b, e) \in Buckets
<1>1. e \in EntryRecords
  BY EntriesAssumption
<1>2. \A p \in Patterns : b.indexes[p] \in Trees(Ordinals) =>
        indexInsert(b.indexes[p], p, e) \in Trees(Ordinals)
  BY DEF indexInsert, ReplaceOrInsert, Trees
<1>3. (Attach(b, e)).eviction \in Trees(Times)
  BY <1>1 DEF Attach, Buckets, Trees, ReplaceOrInsert, EntryRecords
<1>4. (Attach(b, e)).invalidation \in Trees(Times)
  BY <1>1 DEF Attach, Buckets, Trees, ReplaceOrInsert, EntryRecords
<1>5. (Attach(b, e)).indexes \in [Patterns -> Trees(Ordinals) \cup {Nil}]
  BY <1>2 DEF Attach, Buckets
<1> QED
  BY <1>3, <1>4, <1>5 DEF Attach, Buckets

\* Taking out whatever a key held gives a bucket with the same primary tree.
LEMMA DisplaceType ==
  ASSUME NEW b \in Buckets, NEW k \in Keys
  PROVE  Displace(b, k) \in Buckets /\ (Displace(b, k)).data = b.data
<1>1. b.data[k] # Nil => b.data[k] \in Entries
  BY DEF Buckets, Trees
<1> QED
  BY <1>1, DetachType DEF Displace, Detach

\* insert returns a bucket in which the entry's key holds the entry.
LEMMA InsertType ==
  ASSUME NEW b \in Buckets, NEW e \in Entries
  PROVE  /\ insert(b, e) \in Buckets
         /\ (insert(b, e)).data = [b.data EXCEPT ![e.k] = e]
<1>1. e.k \in Keys
  BY EntriesAssumption DEF EntryRecords
<1> DEFINE c == Displace(b, e.k)
           d == [c EXCEPT !.data = ReplaceOrInsert(@, e.k, e)]
<1>2. c \in Buckets /\ c.data = b.data
  BY <1>1, DisplaceType
<1>3. d \in Buckets /\ d.data = [b.data EXCEPT ![e.k] = e]
  BY <1>1, <1>2 DEF Buckets, Trees, ReplaceOrInsert
<1>4. insert(b, e) = Attach(d, e)
  BY DEF insert
<1>5. (Attach(d, e)).data = d.data
  BY DEF Attach
<1> QED
  BY <1>3, <1>4, <1>5, AttachType

\* delete returns a bucket in which the key holds nothing.
LEMMA DeleteType ==
  ASSUME NEW b \in Buckets, NEW k \in Keys
  PROVE  /\ delete(b, k) \in Buckets
         /\ (delete(b, k)).data = [b.data EXCEPT ![k] = Nil]
<1>1. Displace(b, k) \in Buckets /\ (Displace(b, k)).data = b.data
  BY DisplaceType
<1> QED
  BY <1>1 DEF delete, Buckets, Trees, Remove

\* build chooses entries of the primary tree that have the field, each at its
\* ordinal.
LEMMA BuildSound ==
  ASSUME NEW data \in Trees(Keys), Keyed(data), NEW p \in Patterns
  PROVE  /\ build(data, p) \in Trees(Ordinals)
         /\ \A o \in Ordinals : build(data, p)[o] # Nil =>
              LET e == build(data, p)[o]
              IN  /\ e \in Entries
                  /\ HasField(p, e) /\ Ord(p, e) = o /\ data[e.k] = e
<1> DEFINE same(o) == {k \in Keys : /\ data[k] # Nil
                                    /\ HasField(p, data[k])
                                    /\ Ord(p, data[k]) = o}
           last(o) == CHOOSE k \in same(o) : \A j \in same(o) : j <= k
<1>1. build(data, p) =
        [o \in Ordinals |-> IF same(o) = {} THEN Nil ELSE data[last(o)]]
  BY DEF build
<1>2. ASSUME NEW o \in Ordinals, same(o) # {}
      PROVE  last(o) \in same(o)
  <2>1. same(o) \in SUBSET Keys
    OBVIOUS
  <2>2. \E k \in same(o) : \A j \in same(o) : j <= k
    BY <1>2, <2>1, KeysAssumption
  <2> HIDE DEF same
  <2> QED
    BY <2>2
<1>3. ASSUME NEW o \in Ordinals, same(o) # {}
      PROVE  /\ data[last(o)] \in Entries
             /\ HasField(p, data[last(o)]) /\ Ord(p, data[last(o)]) = o
             /\ data[(data[last(o)]).k] = data[last(o)]
  <2>1. last(o) \in same(o)
    BY <1>2, <1>3
  <2> HIDE DEF last
  <2> QED
    BY <2>1 DEF Keyed, Trees
<1> HIDE DEF same, last
<1>4. \A o \in Ordinals : build(data, p)[o] =
        IF same(o) = {} THEN Nil ELSE data[last(o)]
  BY <1>1
<1>5. build(data, p) \in Trees(Ordinals)
  BY <1>1, <1>3 DEF Trees
<1> QED
  BY <1>3, <1>4, <1>5

-----------------------------------------------------------------------------
(* Soundness of the derived trees *)

\* The parts of the bucket that insert gives.
LEMMA InsertParts ==
  ASSUME NEW b \in Buckets, NEW e \in Entries
  PROVE  LET c == Displace(b, e.k)
             r == insert(b, e)
         IN  /\ r.eviction = IF e.exp # Never THEN [c.eviction EXCEPT ![e.exp] = e]
                                              ELSE c.eviction
             /\ r.invalidation = IF e.inv # Never
                                 THEN [c.invalidation EXCEPT ![e.inv] = e]
                                 ELSE c.invalidation
             /\ r.indexes = [p \in Patterns |->
                              IF c.indexes[p] = Nil THEN Nil
                              ELSE indexInsert(c.indexes[p], p, e)]
             /\ r.rtree = IF Geo /\ e.coords THEN c.rtree \cup {e} ELSE c.rtree
<1> DEFINE c == Displace(b, e.k)
           d == [c EXCEPT !.data = ReplaceOrInsert(@, e.k, e)]
<1>1. e.k \in Keys
  BY EntriesAssumption DEF EntryRecords
<1>2. c \in Buckets
  BY <1>1, DisplaceType
<1>3. /\ d.eviction = c.eviction /\ d.invalidation = c.invalidation
      /\ d.indexes = c.indexes /\ d.rtree = c.rtree
  BY <1>2 DEF Buckets
<1>4. insert(b, e) = Attach(d, e)
  BY DEF insert
<1> HIDE DEF d, c
<1>5. /\ (Attach(d, e)).eviction = IF e.exp # Never
                                   THEN [d.eviction EXCEPT ![e.exp] = e]
                                   ELSE d.eviction
      /\ (Attach(d, e)).invalidation = IF e.inv # Never
                                       THEN [d.invalidation EXCEPT ![e.inv] = e]
                                       ELSE d.invalidation
      /\ (Attach(d, e)).indexes = [p \in Patterns |->
                              IF d.indexes[p] = Nil THEN Nil
                              ELSE indexInsert(d.indexes[p], p, e)]
      /\ (Attach(d, e)).rtree = IF Geo /\ e.coords THEN d.rtree \cup {e}
                                                   ELSE d.rtree
  BY DEF Attach, ReplaceOrInsert
<1> QED
  BY <1>3, <1>4, <1>5 DEF c

\* The parts of the bucket that delete gives.
LEMMA DeleteParts ==
  ASSUME NEW b \in Buckets, NEW k \in Keys
  PROVE  LET c == Displace(b, k)
             r == delete(b, k)
         IN  /\ r.eviction = c.eviction /\ r.invalidation = c.invalidation
             /\ r.indexes = c.indexes /\ r.rtree = c.rtree
<1>1. Displace(b, k) \in Buckets
  BY DisplaceType
<1> QED
  BY <1>1 DEF delete, Buckets

\* Once the entry of a key is displaced, no deadline tree holds an entry of it.
LEMMA DisplaceDeadlines ==
  ASSUME NEW b \in Buckets, NEW k \in Keys, SoundDeadlines(b)
  PROVE  LET c == Displace(b, k)
         IN  /\ SoundDeadlines(c)
             /\ \A d \in Occupied(c.eviction) : c.eviction[d].k # k
             /\ \A d \in Occupied(c.invalidation) : c.invalidation[d].k # k
<1> DEFINE c == Displace(b, k)
<1>1. CASE b.data[k] = Nil
  <2>1. c = b
    BY <1>1 DEF Displace
  <2>2. Nil \notin Entries
    BY EntriesAssumption
  <2>3. \A d \in Occupied(b.eviction) :
          b.eviction[d] \in Entries /\ b.data[b.eviction[d].k] = b.eviction[d]
    BY DEF SoundDeadlines, Occupied, Buckets, Trees
  <2>4. \A d \in Occupied(b.invalidation) :
          /\ b.invalidation[d] \in Entries
          /\ b.data[b.invalidation[d].k] = b.invalidation[d]
    BY DEF SoundDeadlines, Occupied, Buckets, Trees
  <2> QED
    BY <1>1, <2>1, <2>2, <2>3, <2>4
<1>2. CASE b.data[k] # Nil
  <2> DEFINE p == b.data[k]
  <2>1. p \in Entries /\ c = Detach(b, p)
    BY <1>2 DEF Displace, Buckets, Trees
  <2>2. c \in Buckets /\ c.data = b.data
    BY DisplaceType
  <2> HIDE DEF c, p
  <2>3. c.eviction = IF p.exp # Never THEN [b.eviction EXCEPT ![p.exp] = Nil]
                                     ELSE b.eviction
    BY <2>1 DEF Detach, Remove
  <2>4. c.invalidation = IF p.inv # Never
                         THEN [b.invalidation EXCEPT ![p.inv] = Nil]
                         ELSE b.invalidation
    BY <2>1 DEF Detach, Remove
  <2>5. p \in EntryRecords
    BY <2>1, EntriesAssumption
  <2>6. \A d \in Occupied(c.eviction) :
          /\ d \in Times /\ d \in Occupied(b.eviction)
          /\ c.eviction[d] = b.eviction[d] /\ d # p.exp
    BY <2>3, <2>5, TimesAssumption DEF Occupied, Buckets, Trees, EntryRecords
  <2>7. \A d \in Occupied(c.invalidation) :
          /\ d \in Times /\ d \in Occupied(b.invalidation)
          /\ c.invalidation[d] = b.invalidation[d] /\ d # p.inv
    BY <2>4, <2>5, TimesAssumption DEF Occupied, Buckets, Trees, EntryRecords
  <2>8. \A d \in Occupied(c.eviction) : c.eviction[d].k # k
    BY <2>6 DEF SoundDeadlines, p
  <2>9. \A d \in Occupied(c.invalidation) : c.invalidation[d].k # k
    BY <2>7 DEF SoundDeadlines, p
  <2>10. SoundDeadlines(c)
    BY <2>2, <2>6, <2>7 DEF SoundDeadlines
  <2> QED
    BY <2>8, <2>9, <2>10 DEF c
<1> QED
  BY <1>1, <1>2

\* insert keeps the deadline trees sound: this is what the manager relies on.
LEMMA InsertDeadlines ==
  ASSUME NEW b \in Buckets, NEW e \in Entries, SoundDeadlines(b)
  PROVE  SoundDeadlines(insert(b, e))
<1> DEFINE c == Displace(b, e.k)
           r == insert(b, e)
<1>1. e.k \in Keys /\ e \in EntryRecords
  BY EntriesAssumption DEF EntryRecords
<1>2. c \in Buckets /\ c.data = b.data /\ SoundDeadlines(c)
  BY <1>1, DisplaceType, DisplaceDeadlines
<1>3. /\ \A d \in Occupied(c.eviction) : c.eviction[d].k # e.k
      /\ \A d \in Occupied(c.invalidation) : c.invalidation[d].k # e.k
  BY <1>1, DisplaceDeadlines
<1>4. r \in Buckets /\ r.data = [b.data EXCEPT ![e.k] = e]
  BY InsertType
<1>5. r.eviction = IF e.exp # Never THEN [c.eviction EXCEPT ![e.exp] = e]
                                    ELSE c.eviction
  BY InsertParts
<1>6. r.invalidation = IF e.inv # Never
                       THEN [c.invalidation EXCEPT ![e.inv] = e]
                       ELSE c.invalidation
  BY InsertParts
<1> HIDE DEF c, r
<1>7. r.data[e.k] = e
  BY <1>1, <1>4 DEF Buckets, Trees
<1>8. ASSUME NEW d \in Occupied(r.eviction)
      PROVE  r.eviction[d].exp = d /\ r.data[r.eviction[d].k] = r.eviction[d]
  <2>1. \/ d = e.exp /\ r.eviction[d] = e
        \/ d \in Occupied(c.eviction) /\ r.eviction[d] = c.eviction[d]
    BY <1>1, <1>2, <1>5 DEF Occupied, Buckets, Trees, EntryRecords
  <2>2. CASE d = e.exp /\ r.eviction[d] = e
    BY <1>7, <2>2
  <2>3. CASE d \in Occupied(c.eviction) /\ r.eviction[d] = c.eviction[d]
    <3> DEFINE x == c.eviction[d]
    <3>1. x \in Entries /\ x.exp = d /\ c.data[x.k] = x /\ x.k # e.k
      BY <1>2, <1>3, <2>3 DEF SoundDeadlines, Occupied, Buckets, Trees
    <3>2. x.k \in Keys
      BY <3>1, EntriesAssumption DEF EntryRecords
    <3> QED
      BY <1>2, <1>4, <2>3, <3>1, <3>2 DEF Buckets, Trees
  <2> QED
    BY <2>1, <2>2, <2>3
<1>9. ASSUME NEW d \in Occupied(r.invalidation)
      PROVE  /\ r.invalidation[d].inv = d
             /\ r.data[r.invalidation[d].k] = r.invalidation[d]
  <2>1. \/ d = e.inv /\ r.invalidation[d] = e
        \/ d \in Occupied(c.invalidation) /\ r.invalidation[d] = c.invalidation[d]
    BY <1>1, <1>2, <1>6 DEF Occupied, Buckets, Trees, EntryRecords
  <2>2. CASE d = e.inv /\ r.invalidation[d] = e
    BY <1>7, <2>2
  <2>3. CASE d \in Occupied(c.invalidation) /\ r.invalidation[d] = c.invalidation[d]
    <3> DEFINE x == c.invalidation[d]
    <3>1. x \in Entries /\ x.inv = d /\ c.data[x.k] = x /\ x.k # e.k
      BY <1>2, <1>3, <2>3 DEF SoundDeadlines, Occupied, Buckets, Trees
    <3>2. x.k \in Keys
      BY <3>1, EntriesAssumption DEF EntryRecords
    <3> QED
      BY <1>2, <1>4, <2>3, <3>1, <3>2 DEF Buckets, Trees
  <2> QED
    BY <2>1, <2>2, <2>3
<1> QED
  BY <1>8, <1>9 DEF SoundDeadlines, r

\* delete keeps the deadline trees sound.
LEMMA DeleteDeadlines ==
  ASSUME NEW b \in Buckets, NEW k \in Keys, SoundDeadlines(b)
  PROVE  SoundDeadlines(delete(b, k))
<1> DEFINE c == Displace(b, k)
           r == delete(b, k)
<1>1. c \in Buckets /\ c.data = b.data /\ SoundDeadlines(c)
  BY DisplaceType, DisplaceDeadlines
<1>2. /\ \A d \in Occupied(c.eviction) : c.eviction[d].k # k
      /\ \A d \in Occupied(c.invalidation) : c.invalidation[d].k # k
  BY DisplaceDeadlines
<1>3. r.data = [b.data EXCEPT ![k] = Nil]
  BY DeleteType
<1>4. r.eviction = c.eviction /\ r.invalidation = c.invalidation
  BY DeleteParts
<1> HIDE DEF c, r
<1>5. \A x \in Entries : x.k \in Keys /\ x.k # k => r.data[x.k] = b.data[x.k]
  BY <1>3 DEF Buckets, Trees
<1>6. \A d \in Occupied(c.eviction) : c.eviction[d] \in Entries
  BY <1>1 DEF Occupied, Buckets, Trees
<1>7. \A d \in Occupied(c.invalidation) : c.invalidation[d] \in Entries
  BY <1>1 DEF Occupied, Buckets, Trees
<1>8. \A x \in Entries : x.k \in Keys
  BY EntriesAssumption DEF EntryRecords
<1> QED
  BY <1>1, <1>2, <1>4, <1>5, <1>6, <1>7, <1>8 DEF SoundDeadlines, r

\* Once the entry of a key is displaced, no index holds an entry of it that has
\* the field.
LEMMA DisplaceIndexes ==
  ASSUME NEW b \in Buckets, NEW k \in Keys, SoundIndexes(b)
  PROVE  LET c == Displace(b, k)
         IN  /\ SoundIndexes(c)
             /\ \A p \in IndexNames(c) : \A o \in Occupied(c.indexes[p]) :
                  HasField(p, c.indexes[p][o]) => c.indexes[p][o].k # k
<1> DEFINE c == Displace(b, k)
<1>0. Nil \notin Entries
  BY EntriesAssumption
<1>1. CASE b.data[k] = Nil
  <2>1. c = b
    BY <1>1 DEF Displace
  <2>2. ASSUME NEW p \in IndexNames(b), NEW o \in Occupied(b.indexes[p]),
               HasField(p, b.indexes[p][o])
        PROVE  b.indexes[p][o].k # k
    <3>1. b.indexes[p] \in Trees(Ordinals)
      BY DEF IndexNames, Buckets
    <3>2. b.indexes[p][o] \in Entries
      BY <3>1 DEF Occupied, Trees
    <3> QED
      BY <1>0, <1>1, <2>2, <3>2 DEF SoundIndexes
  <2> QED
    BY <2>1, <2>2
<1>2. CASE b.data[k] # Nil
  <2> DEFINE q == b.data[k]
  <2>1. q \in Entries /\ c = Detach(b, q)
    BY <1>2 DEF Displace, Buckets, Trees
  <2>2. c \in Buckets /\ c.data = b.data
    BY DisplaceType
  <2> HIDE DEF c, q
  <2>3. \A p \in Patterns : c.indexes[p] =
          IF b.indexes[p] = Nil THEN Nil ELSE indexDelete(b.indexes[p], p, q)
    BY <2>1 DEF Detach
  <2>4. ASSUME NEW p \in IndexNames(c), NEW o \in Occupied(c.indexes[p])
        PROVE  /\ p \in IndexNames(b) /\ o \in Occupied(b.indexes[p])
               /\ c.indexes[p][o] = b.indexes[p][o]
               /\ HasField(p, q) => o # Ord(p, q)
    <3>1. p \in IndexNames(b) /\ b.indexes[p] \in Trees(Ordinals)
      BY <2>3 DEF IndexNames, Buckets
    <3>2. c.indexes[p] = indexDelete(b.indexes[p], p, q)
      BY <2>3, <3>1 DEF IndexNames
    <3> HIDE DEF IndexNames
    <3> QED
      BY <3>1, <3>2 DEF indexDelete, Remove, Occupied, Trees
  <2>5. ASSUME NEW p \in IndexNames(c), NEW o \in Occupied(c.indexes[p]),
               HasField(p, c.indexes[p][o])
        PROVE  c.indexes[p][o].k # k
    BY <2>4, <2>5 DEF SoundIndexes, q
  <2>6. SoundIndexes(c)
    BY <2>2, <2>4 DEF SoundIndexes
  <2> QED
    BY <2>5, <2>6 DEF c
<1> QED
  BY <1>1, <1>2

\* Putting an entry into an index by force, with the field or without, keeps the
\* index sound once the entry is the current one of its key.
LEMMA ForceIndexes ==
  ASSUME NEW b \in Buckets, NEW r \in Buckets, NEW e \in Entries,
         SoundIndexes(b),
         \A p \in IndexNames(b) : \A o \in Occupied(b.indexes[p]) :
           HasField(p, b.indexes[p][o]) =>
             b.indexes[p][o] = e \/ b.indexes[p][o].k # e.k,
         \A j \in Keys : j # e.k => r.data[j] = b.data[j],
         r.data[e.k] = e,
         \A p \in Patterns :
           \/ r.indexes[p] = b.indexes[p]
           \/ /\ b.indexes[p] # Nil
              /\ r.indexes[p] = [b.indexes[p] EXCEPT ![Ord(p, e)] = e]
  PROVE  SoundIndexes(r)
<1> SUFFICES ASSUME NEW p \in IndexNames(r), NEW o \in Occupied(r.indexes[p]),
                    HasField(p, r.indexes[p][o])
             PROVE  /\ Ord(p, r.indexes[p][o]) = o
                    /\ r.data[r.indexes[p][o].k] = r.indexes[p][o]
  BY DEF SoundIndexes
<1> DEFINE x == r.indexes[p][o]
<1>1. p \in Patterns /\ p \in IndexNames(b) /\ b.indexes[p] \in Trees(Ordinals)
  BY DEF IndexNames, Buckets
<1>2. \/ o = Ord(p, e) /\ x = e
      \/ o \in Occupied(b.indexes[p]) /\ x = b.indexes[p][o]
  BY <1>1 DEF Occupied, Trees
<1>3. CASE o = Ord(p, e) /\ x = e
  BY <1>3
<1>4. CASE o \in Occupied(b.indexes[p]) /\ x = b.indexes[p][o]
  <2>1. x \in Entries
    BY <1>1, <1>4 DEF Occupied, Trees
  <2>2. x.k \in Keys
    BY <2>1, EntriesAssumption DEF EntryRecords
  <2>3. Ord(p, x) = o /\ b.data[x.k] = x
    BY <1>1, <1>4 DEF SoundIndexes
  <2>4. x = e \/ x.k # e.k
    BY <1>1, <1>4
  <2> QED
    BY <2>2, <2>3, <2>4
<1> QED
  BY <1>2, <1>3, <1>4

\* insert keeps the indexes sound.
LEMMA InsertIndexes ==
  ASSUME NEW b \in Buckets, NEW e \in Entries, SoundIndexes(b)
  PROVE  SoundIndexes(insert(b, e))
<1> DEFINE c == Displace(b, e.k)
           r == insert(b, e)
<1>1. e.k \in Keys
  BY EntriesAssumption DEF EntryRecords
<1>2. c \in Buckets /\ c.data = b.data /\ SoundIndexes(c)
  BY <1>1, DisplaceType, DisplaceIndexes
<1>3. \A p \in IndexNames(c) : \A o \in Occupied(c.indexes[p]) :
        HasField(p, c.indexes[p][o]) => c.indexes[p][o].k # e.k
  BY <1>1, DisplaceIndexes
<1>4. r \in Buckets /\ r.data = [b.data EXCEPT ![e.k] = e]
  BY InsertType
<1>5. r.indexes = [p \in Patterns |->
                     IF c.indexes[p] = Nil THEN Nil
                     ELSE indexInsert(c.indexes[p], p, e)]
  BY InsertParts
<1> HIDE DEF c, r
<1>6. r.data[e.k] = e /\ \A j \in Keys : j # e.k => r.data[j] = c.data[j]
  BY <1>1, <1>2, <1>4 DEF Buckets, Trees
<1>7. \A p \in Patterns :
        \/ r.indexes[p] = c.indexes[p]
        \/ /\ c.indexes[p] # Nil
           /\ r.indexes[p] = [c.indexes[p] EXCEPT ![Ord(p, e)] = e]
  BY <1>5 DEF indexInsert, ReplaceOrInsert
<1>8. \A p \in IndexNames(c) : \A o \in Occupied(c.indexes[p]) :
        HasField(p, c.indexes[p][o]) =>
          c.indexes[p][o] = e \/ c.indexes[p][o].k # e.k
  BY <1>3
<1>9. r \in Buckets /\ r.data[e.k] = e
  BY <1>4, <1>6
<1>10. \A j \in Keys : j # e.k => r.data[j] = c.data[j]
  BY <1>6
<1>11. c \in Buckets /\ SoundIndexes(c)
  BY <1>2
<1>12. SoundIndexes(r)
  BY <1>7, <1>8, <1>9, <1>10, <1>11, ForceIndexes, Zenon
<1> QED
  BY <1>12 DEF r

\* delete keeps the indexes sound.
LEMMA DeleteIndexes ==
  ASSUME NEW b \in Buckets, NEW k \in Keys, SoundIndexes(b)
  PROVE  SoundIndexes(delete(b, k))
<1> DEFINE c == Displace(b, k)
           r == delete(b, k)
<1>1. c \in Buckets /\ c.data = b.data /\ SoundIndexes(c)
  BY DisplaceType, DisplaceIndexes
<1>2. \A p \in IndexNames(c) : \A o \in Occupied(c.indexes[p]) :
        HasField(p, c.indexes[p][o]) => c.indexes[p][o].k # k
  BY DisplaceIndexes
<1>3. r.data = [b.data EXCEPT ![k] = Nil] /\ r.indexes = c.indexes
  BY DeleteType, DeleteParts
<1> HIDE DEF c, r
<1>4. ASSUME NEW p \in IndexNames(r), NEW o \in Occupied(r.indexes[p]),
             HasField(p, r.indexes[p][o])
      PROVE  /\ Ord(p, r.indexes[p][o]) = o
             /\ r.data[r.indexes[p][o].k] = r.indexes[p][o]
  <2> DEFINE x == c.indexes[p][o]
  <2>1. p \in IndexNames(c) /\ r.indexes[p] = c.indexes[p]
    BY <1>3 DEF IndexNames
  <2>2. c.indexes[p] \in Trees(Ordinals)
    BY <1>1, <2>1 DEF IndexNames, Buckets
  <2>3. x \in Entries /\ o \in Occupied(c.indexes[p])
    BY <2>1, <2>2 DEF Occupied, Trees
  <2>4. x.k \in Keys /\ x.k # k
    BY <1>2, <1>4, <2>1, <2>3, EntriesAssumption DEF EntryRecords
  <2>5. Ord(p, x) = o /\ c.data[x.k] = x
    BY <1>1, <1>4, <2>1, <2>3 DEF SoundIndexes
  <2>6. r.data[x.k] = x
    BY <1>1, <1>3, <2>4, <2>5 DEF Buckets, Trees
  <2> QED
    BY <2>1, <2>5, <2>6
<1>5. SoundIndexes(r)
  BY <1>4 DEF SoundIndexes
<1> QED
  BY <1>5 DEF r

-----------------------------------------------------------------------------
(* The R-tree *)

\* Displacing the entry of a key leaves the R-tree with the located entries of
\* the other keys.
LEMMA DisplaceGeo ==
  ASSUME NEW b \in Buckets, NEW k \in Keys, ExactGeo(b), Keyed(b.data)
  PROVE  (Displace(b, k)).rtree =
           IF Geo THEN {e \in Entries : e.coords /\ b.data[e.k] = e /\ e.k # k}
                  ELSE {}
<1>0. /\ Nil \notin Entries /\ Geo \in BOOLEAN
      /\ \A e \in Entries : e.k \in Keys /\ e.coords \in BOOLEAN
  BY EntriesAssumption DEF EntryRecords
<1>1. CASE b.data[k] = Nil
  BY <1>0, <1>1 DEF Displace, ExactGeo
<1>2. CASE b.data[k] # Nil
  <2> DEFINE q == b.data[k]
  <2>1. q \in Entries /\ q.k = k
    BY <1>2 DEF Keyed, Buckets, Trees
  <2>2. Displace(b, k) = Detach(b, q)
    BY <1>2 DEF Displace
  <2>3. (Detach(b, q)).rtree =
          IF Geo /\ q.coords THEN {x \in b.rtree : x.k # q.k} ELSE b.rtree
    BY DEF Detach
  <2>4. \A e \in Entries : b.data[e.k] = e /\ e.k = k => e = q
    OBVIOUS
  <2> HIDE DEF q
  <2> QED
    BY <1>0, <2>1, <2>2, <2>3, <2>4 DEF ExactGeo
<1> QED
  BY <1>1, <1>2

\* insert keeps the R-tree exact.
LEMMA InsertGeo ==
  ASSUME NEW b \in Buckets, NEW e \in Entries, ExactGeo(b), Keyed(b.data)
  PROVE  ExactGeo(insert(b, e)) /\ Keyed((insert(b, e)).data)
<1> DEFINE c == Displace(b, e.k)
           r == insert(b, e)
<1>0. /\ Nil \notin Entries /\ Geo \in BOOLEAN
      /\ \A x \in Entries : x.k \in Keys /\ x.coords \in BOOLEAN
  BY EntriesAssumption DEF EntryRecords
<1>1. c.rtree =
        IF Geo THEN {x \in Entries : x.coords /\ b.data[x.k] = x /\ x.k # e.k}
               ELSE {}
  BY <1>0, DisplaceGeo
<1>2. r.data = [b.data EXCEPT ![e.k] = e]
  BY InsertType
<1>3. r.rtree = IF Geo /\ e.coords THEN c.rtree \cup {e} ELSE c.rtree
  BY InsertParts
<1> HIDE DEF c, r
<1>4. \A x \in Entries : r.data[x.k] = IF x.k = e.k THEN e ELSE b.data[x.k]
  BY <1>0, <1>2 DEF Buckets, Trees
<1>5. \A x \in Entries :
        (r.data[x.k] = x) <=> (x = e \/ (b.data[x.k] = x /\ x.k # e.k))
  BY <1>4
<1>6. ExactGeo(r)
  <2>1. CASE ~Geo
    BY <1>1, <1>3, <2>1 DEF ExactGeo
  <2>2. CASE Geo
    <3>1. r.rtree \subseteq Entries
      BY <1>1, <1>3, <2>2
    <3>2. \A x \in Entries :
            x \in r.rtree <=> x.coords /\ (x = e \/ (b.data[x.k] = x /\ x.k # e.k))
      BY <1>0, <1>1, <1>3, <2>2
    <3> QED
      BY <1>5, <2>2, <3>1, <3>2 DEF ExactGeo
  <2> QED
    BY <1>0, <2>1, <2>2
<1>7. Keyed(r.data)
  BY <1>2 DEF Keyed, Buckets, Trees
<1> QED
  BY <1>6, <1>7 DEF r

\* delete keeps the R-tree exact.
LEMMA DeleteGeo ==
  ASSUME NEW b \in Buckets, NEW k \in Keys, ExactGeo(b), Keyed(b.data)
  PROVE  ExactGeo(delete(b, k)) /\ Keyed((delete(b, k)).data)
<1> DEFINE r == delete(b, k)
<1>0. Nil \notin Entries /\ \A x \in Entries : x.k \in Keys
  BY EntriesAssumption DEF EntryRecords
<1>1. r.rtree =
        IF Geo THEN {x \in Entries : x.coords /\ b.data[x.k] = x /\ x.k # k}
               ELSE {}
  BY DisplaceGeo, DeleteParts, ZenonT(40)
<1>2. r.data = [b.data EXCEPT ![k] = Nil]
  BY DeleteType
<1> HIDE DEF r
<1>3. \A x \in Entries : (r.data[x.k] = x) <=> (b.data[x.k] = x /\ x.k # k)
  BY <1>0, <1>2 DEF Buckets, Trees
<1>4. ExactGeo(r)
  BY <1>1, <1>3 DEF ExactGeo
<1>5. Keyed(r.data)
  BY <1>0, <1>2 DEF Keyed, Buckets, Trees
<1> QED
  BY <1>4, <1>5 DEF r

-----------------------------------------------------------------------------
(* The transactions *)

\* The sets of keys the clients and the rollback contexts use.
LEMMA EntryFacts ==
  /\ Nil \notin Entries /\ Absent \notin Entries /\ Absent # Nil
  /\ \A e \in Entries : e.k \in Keys
BY EntriesAssumption, TxAssumption DEF EntryRecords

\* An empty bucket is a bucket, and its trees are sound.
LEMMA NewBucketType ==
  /\ newBucket \in Buckets
  /\ Keyed(newBucket.data) /\ SoundDeadlines(newBucket)
  /\ SoundIndexes(newBucket) /\ ExactGeo(newBucket)
<1>1. newBucket \in Buckets
  BY DEF newBucket, Buckets, EmptyTree, Trees
<1>2. Keyed(newBucket.data)
  BY EntryFacts DEF newBucket, EmptyTree, Keyed
<1>3. SoundDeadlines(newBucket)
  BY DEF SoundDeadlines, newBucket, EmptyTree, Occupied
<1>4. SoundIndexes(newBucket)
  BY DEF SoundIndexes, IndexNames, newBucket
<1>5. ExactGeo(newBucket)
  BY EntryFacts DEF ExactGeo, newBucket, EmptyTree
<1> QED
  BY <1>1, <1>2, <1>3, <1>4, <1>5

\* A transaction that begins has a well-typed record.
LEMMA NewTxType ==
  ASSUME NEW b \in Buckets, NEW mode \in {"R", "RW"}
  PROVE  newTx(mode, b) \in TxRecords
<1>1. 0 \in 0..MaxDepth
  BY TxAssumption
<1>2. NoChanges \in RbCtx
  BY DEF NoChanges, RbCtx
<1>3. b.data \in Trees(Keys)
  BY DEF Buckets
<1> QED
  BY <1>1, <1>2, <1>3 DEF newTx, TxRecords

\* So has one that is not there.
LEMMA NoTxType == NoTx \in TxRecords
<1>1. newTx("R", newBucket) \in TxRecords
  BY NewTxType, NewBucketType
<1> QED
  BY <1>1 DEF NoTx, TxRecords

\* The first item of a tree that is not empty is one of its items.
LEMMA MinItemIn ==
  ASSUME NEW tree \in Trees(Times), Occupied(tree) # {}
  PROVE  \E o \in Occupied(tree) : MinItem(tree) = tree[o] /\ tree[o] \in Entries
<1>1. Occupied(tree) \in SUBSET Times
  BY DEF Occupied, Trees
<1>2. \E o \in Occupied(tree) : \A x \in Occupied(tree) : o <= x
  BY <1>1, TimesAssumption
<1> DEFINE m == CHOOSE o \in Occupied(tree) : \A x \in Occupied(tree) : o <= x
<1>3. m \in Occupied(tree)
  BY <1>2
<1>4. MinItem(tree) = tree[m]
  BY DEF MinItem
<1> HIDE DEF m
<1> QED
  BY <1>3, <1>4 DEF Occupied, Trees

\* The number of items of a deadline tree is a natural number, zero if empty.
LEMMA OccupiedCount ==
  ASSUME NEW tree \in Trees(Times)
  PROVE  /\ Cardinality(Occupied(tree)) \in Nat
         /\ Occupied(tree) = {} => Cardinality(Occupied(tree)) = 0
<1>1. Occupied(tree) \subseteq Times
  BY DEF Occupied, Trees
<1>2. IsFiniteSet(Occupied(tree))
  BY <1>1, TimesAssumption, FS_Subset
<1> QED
  BY <1>2, FS_CardinalityType, FS_EmptySet

-----------------------------------------------------------------------------
(* Rollback of one entry *)

\* Undoing an insert gives a bucket without the key and with sound trees.
LEMMA UndoInsertSound ==
  ASSUME NEW b \in Buckets, NEW k \in Keys
  PROVE  /\ UndoInsert(b, k) \in Buckets
         /\ (UndoInsert(b, k)).data = [b.data EXCEPT ![k] = Nil]
         /\ SoundDeadlines(b) => SoundDeadlines(UndoInsert(b, k))
         /\ SoundIndexes(b) => SoundIndexes(UndoInsert(b, k))
         /\ ExactGeo(b) /\ Keyed(b.data) =>
              ExactGeo(UndoInsert(b, k)) /\ Keyed((UndoInsert(b, k)).data)
<1> DEFINE c == delete(b, k)
           r == UndoInsert(b, k)
<1>1. c \in Buckets /\ c.data = [b.data EXCEPT ![k] = Nil]
  BY DeleteType
<1>2. r = [c EXCEPT !.indexes = [p \in Patterns |->
                                   IF c.indexes[p] = Nil THEN Nil
                                   ELSE Remove(c.indexes[p], Rank[NoField])]]
  BY DEF UndoInsert
<1>3. SoundDeadlines(b) => SoundDeadlines(c)
  BY DeleteDeadlines
<1>4. SoundIndexes(b) => SoundIndexes(c)
  BY DeleteIndexes
<1>5. ExactGeo(b) /\ Keyed(b.data) => ExactGeo(c) /\ Keyed(c.data)
  BY DeleteGeo
<1> HIDE DEF c, r
<1>6. /\ r.data = c.data /\ r.eviction = c.eviction
      /\ r.invalidation = c.invalidation /\ r.rtree = c.rtree
  BY <1>1, <1>2 DEF Buckets
<1>7. \A p \in Patterns :
        r.indexes[p] = IF c.indexes[p] = Nil THEN Nil
                       ELSE [c.indexes[p] EXCEPT ![Rank[NoField]] = Nil]
  BY <1>1, <1>2 DEF Buckets, Remove
<1>8. r \in Buckets
  <2>1. \A p \in Patterns : c.indexes[p] # Nil =>
          Remove(c.indexes[p], Rank[NoField]) \in Trees(Ordinals)
    BY <1>1 DEF Buckets, Trees, Remove
  <2>2. [p \in Patterns |-> IF c.indexes[p] = Nil THEN Nil
                            ELSE Remove(c.indexes[p], Rank[NoField])]
          \in [Patterns -> Trees(Ordinals) \cup {Nil}]
    BY <2>1
  <2> QED
    BY <1>1, <1>2, <2>2 DEF Buckets
<1>9. SoundDeadlines(c) => SoundDeadlines(r)
  BY <1>6 DEF SoundDeadlines
<1>10. ASSUME SoundIndexes(c), NEW p \in IndexNames(r), NEW o \in Occupied(r.indexes[p])
       PROVE  /\ p \in IndexNames(c) /\ o \in Occupied(c.indexes[p])
              /\ r.indexes[p][o] = c.indexes[p][o]
  <2>1. p \in Patterns /\ c.indexes[p] # Nil /\ c.indexes[p] \in Trees(Ordinals)
    BY <1>1, <1>7 DEF IndexNames, Buckets
  <2>2. r.indexes[p] = [c.indexes[p] EXCEPT ![Rank[NoField]] = Nil]
    BY <1>7, <2>1
  <2> QED
    BY <2>1, <2>2 DEF IndexNames, Occupied, Trees
<1>11. SoundIndexes(c) => SoundIndexes(r)
  BY <1>6, <1>10 DEF SoundIndexes
<1>12. ExactGeo(c) /\ Keyed(c.data) => ExactGeo(r) /\ Keyed(r.data)
  BY <1>6 DEF ExactGeo
<1> QED
  BY <1>1, <1>3, <1>4, <1>5, <1>6, <1>8, <1>9, <1>11, <1>12 DEF r

\* Undoing a removal or a replacement gives a bucket in which the key holds the
\* entry again, with sound trees.
LEMMA UndoRemoveSound ==
  ASSUME NEW b \in Buckets, NEW e \in Entries
  PROVE  /\ UndoRemove(b, e) \in Buckets
         /\ (UndoRemove(b, e)).data = [b.data EXCEPT ![e.k] = e]
         /\ SoundDeadlines(b) => SoundDeadlines(UndoRemove(b, e))
         /\ SoundIndexes(b) => SoundIndexes(UndoRemove(b, e))
         /\ ExactGeo(b) /\ Keyed(b.data) =>
              ExactGeo(UndoRemove(b, e)) /\ Keyed((UndoRemove(b, e)).data)
<1> DEFINE c == insert(b, e)
           r == UndoRemove(b, e)
<1>1. c \in Buckets /\ c.data = [b.data EXCEPT ![e.k] = e]
  BY InsertType
<1>2. r = [c EXCEPT !.indexes = [p \in Patterns |->
                                   IF c.indexes[p] = Nil THEN Nil
                                   ELSE ReplaceOrInsert(c.indexes[p], Ord(p, e), e)]]
  BY DEF UndoRemove
<1>3. SoundDeadlines(b) => SoundDeadlines(c)
  BY InsertDeadlines
<1>4. SoundIndexes(b) => SoundIndexes(c)
  BY InsertIndexes
<1>5. ExactGeo(b) /\ Keyed(b.data) => ExactGeo(c) /\ Keyed(c.data)
  BY InsertGeo
<1>6. c.data[e.k] = e
  BY <1>1, EntryFacts DEF Buckets, Trees
<1> HIDE DEF c, r
<1>7. /\ r.data = c.data /\ r.eviction = c.eviction
      /\ r.invalidation = c.invalidation /\ r.rtree = c.rtree
  BY <1>1, <1>2 DEF Buckets
<1>8. \A p \in Patterns :
        r.indexes[p] = IF c.indexes[p] = Nil THEN Nil
                       ELSE [c.indexes[p] EXCEPT ![Ord(p, e)] = e]
  BY <1>1, <1>2 DEF Buckets, ReplaceOrInsert
<1>9. r \in Buckets
  <2>1. \A p \in Patterns : c.indexes[p] # Nil =>
          ReplaceOrInsert(c.indexes[p], Ord(p, e), e) \in Trees(Ordinals)
    BY <1>1 DEF Buckets, Trees, ReplaceOrInsert
  <2>2. [p \in Patterns |-> IF c.indexes[p] = Nil THEN Nil
                            ELSE ReplaceOrInsert(c.indexes[p], Ord(p, e), e)]
          \in [Patterns -> Trees(Ordinals) \cup {Nil}]
    BY <2>1
  <2> QED
    BY <1>1, <1>2, <2>2 DEF Buckets
<1>10. SoundDeadlines(c) => SoundDeadlines(r)
  BY <1>7 DEF SoundDeadlines
<1>11. ASSUME SoundIndexes(c) PROVE SoundIndexes(r)
  <2>1. \A p \in IndexNames(c) : \A o \in Occupied(c.indexes[p]) :
          HasField(p, c.indexes[p][o]) =>
            c.indexes[p][o] = e \/ c.indexes[p][o].k # e.k
    BY <1>6, <1>11 DEF SoundIndexes
  <2>2. \A j \in Keys : j # e.k => r.data[j] = c.data[j]
    BY <1>7
  <2>3. \A p \in Patterns :
          \/ r.indexes[p] = c.indexes[p]
          \/ /\ c.indexes[p] # Nil
             /\ r.indexes[p] = [c.indexes[p] EXCEPT ![Ord(p, e)] = e]
    BY <1>8
  <2>4. r.data[e.k] = e
    BY <1>6, <1>7
  <2> QED
    BY <1>1, <1>9, <1>11, <2>1, <2>2, <2>3, <2>4, ForceIndexes, Zenon
<1>12. ExactGeo(c) /\ Keyed(c.data) => ExactGeo(r) /\ Keyed(r.data)
  BY <1>7 DEF ExactGeo
<1> QED
  BY <1>1, <1>3, <1>4, <1>5, <1>7, <1>9, <1>10, <1>11, <1>12 DEF r

-----------------------------------------------------------------------------
(* The inductive invariant: types, who may hold the lock, sound trees *)

\* The manager's loops and a writer exclude every other transaction.
Exclusion ==
  /\ mgr.pc \in {"evict", "invalidate"} => \A t \in Txs : tx[t].pc = "idle"
  /\ \A t, u \in Txs : Writing(t) /\ tx[u].pc # "idle" => t = u

\* What a rollback context keeps of a key was an entry of that key.
KeyedContexts == \A t \in Txs : Keyed(tx[t].backward)

TreesInv ==
  /\ Keyed(bkt.data)
  /\ KeyedContexts
  /\ DeadlinesSound
  /\ IndexesSound
  /\ GeoExact

\* What a write of key k may put into the record of a transaction.
LEMMA WriteTx ==
  ASSUME TypeOK, KeyedContexts, NEW t \in Txs, NEW k \in Keys,
         NEW old \in Entries \cup {Nil, Absent}, old \in Entries => old.k = k,
         NEW new \in Entries \cup {Nil, Absent},
         tx' = [tx EXCEPT ![t].backward[k] = old, ![t].forward[k] = new]
  PROVE  /\ tx' \in [Txs -> TxRecords]
         /\ KeyedContexts'
         /\ \A u \in Txs : tx'[u].pc = tx[u].pc /\ tx'[u].mode = tx[u].mode
<1> DEFINE r == [tx[t] EXCEPT !.backward = [@ EXCEPT ![k] = old],
                              !.forward = [@ EXCEPT ![k] = new]]
<1>1. tx[t] \in TxRecords
  BY DEF TypeOK
<1>2. r \in TxRecords /\ r.pc = tx[t].pc /\ r.mode = tx[t].mode
  BY <1>1 DEF TxRecords, RbCtx
<1>3. Keyed(r.backward)
  BY <1>1 DEF TxRecords, RbCtx, KeyedContexts, Keyed
<1>4. tx' = [tx EXCEPT ![t] = r]
  BY <1>1 DEF TypeOK, TxRecords
<1> HIDE DEF r
<1>5. tx' \in [Txs -> TxRecords]
  BY <1>2, <1>4 DEF TypeOK
<1>6. tx'[t] = r /\ \A u \in Txs : u # t => tx'[u] = tx[u]
  BY <1>4 DEF TypeOK
<1>7. \A u \in Txs : tx'[u].pc = tx[u].pc /\ tx'[u].mode = tx[u].mode
  BY <1>2, <1>6
<1>8. KeyedContexts'
  <2>1. ASSUME NEW u \in Txs PROVE Keyed(tx'[u].backward)
    <3>1. CASE u = t
      BY <1>3, <1>6, <3>1
    <3>2. CASE u # t
      BY <1>6, <3>2 DEF KeyedContexts
    <3> QED
      BY <3>1, <3>2
  <2> QED
    BY <2>1 DEF KeyedContexts, Keyed
<1> QED
  BY <1>5, <1>7, <1>8

IInv == TypeOK /\ Exclusion /\ TreesInv

\* The trees stay sound when the bucket and the contexts do.
LEMMA TreesKept ==
  ASSUME TreesInv, bkt' = bkt, KeyedContexts'
  PROVE  TreesInv'
BY DEF TreesInv, DeadlinesSound, IndexesSound, GeoExact, SoundDeadlines,
       SoundIndexes, ExactGeo, Keyed, Occupied, IndexNames

\* Exclusion stays when the manager and the owners of the lock do.
LEMMA ExclusionKept ==
  ASSUME Exclusion, mgr' = mgr,
         \A u \in Txs : tx'[u].pc = tx[u].pc /\ tx'[u].mode = tx[u].mode
  PROVE  Exclusion'
BY DEF Exclusion, Writing

\* A transaction that ends, and so lets go of the lock, disturbs nothing.
LEMMA EndTx ==
  ASSUME IInv, NEW t \in Txs, tx' = [tx EXCEPT ![t] = NoTx], mgr' = mgr
  PROVE  tx' \in [Txs -> TxRecords] /\ Exclusion' /\ KeyedContexts'
<1>1. tx' \in [Txs -> TxRecords]
  BY NoTxType DEF IInv, TypeOK
<1>2. tx'[t] = NoTx /\ \A u \in Txs : u # t => tx'[u] = tx[u]
  BY DEF IInv, TypeOK
<1>3. NoTx.pc = "idle" /\ NoTx.backward = NoChanges
  BY DEF NoTx, newTx
<1>4. Exclusion'
  BY <1>2, <1>3 DEF IInv, Exclusion, Writing
<1>5. KeyedContexts'
  <2>1. ASSUME NEW u \in Txs PROVE Keyed(tx'[u].backward)
    <3>1. CASE u = t
      BY <1>2, <1>3, <3>1, EntryFacts DEF Keyed, NoChanges
    <3>2. CASE u # t
      BY <1>2, <3>2 DEF IInv, TreesInv, KeyedContexts
    <3> QED
      BY <3>1, <3>2
  <2> QED
    BY <2>1 DEF KeyedContexts, Keyed
<1> QED
  BY <1>1, <1>4, <1>5

\* A step of a transaction that changes only its flag, depth or program counter.
LEMMA LocalTx ==
  ASSUME IInv, NEW t \in Txs, tx[t].pc # "idle",
         NEW pc \in {"open", "rollback"}, NEW it \in BOOLEAN, NEW depth \in 0..MaxDepth,
         tx' = [tx EXCEPT ![t] =
                  [@ EXCEPT !.pc = pc, !.iterating = it, !.depth = depth]],
         UNCHANGED <<now, bkt, flagged, logged, mgr>>
  PROVE  IInv'
<1> DEFINE r == [tx[t] EXCEPT !.pc = pc, !.iterating = it, !.depth = depth]
<1>1. tx[t] \in TxRecords
  BY DEF IInv, TypeOK
<1>2. /\ r \in TxRecords /\ r.pc = pc /\ r.mode = tx[t].mode
      /\ r.backward = tx[t].backward
  BY <1>1 DEF TxRecords
<1>3. tx' = [tx EXCEPT ![t] = r]
  OBVIOUS
<1> HIDE DEF r
<1>4. tx'[t] = r /\ \A u \in Txs : u # t => tx'[u] = tx[u]
  BY <1>3 DEF IInv, TypeOK
<1>5. TypeOK'
  BY <1>2, <1>3 DEF IInv, TypeOK
<1>6. Exclusion'
  BY <1>2, <1>4 DEF IInv, Exclusion, Writing
<1>7. KeyedContexts'
  <2>1. ASSUME NEW u \in Txs PROVE Keyed(tx'[u].backward)
    <3>1. tx'[u].backward = tx[u].backward
      BY <1>2, <1>4
    <3> QED
      BY <3>1 DEF IInv, TreesInv, KeyedContexts
  <2> QED
    BY <2>1 DEF KeyedContexts, Keyed
<1>8. TreesInv'
  BY <1>7, TreesKept DEF IInv
<1> QED
  BY <1>5, <1>6, <1>8 DEF IInv

\* Initially.
LEMMA InitInv == Init => IInv
<1> SUFFICES ASSUME Init PROVE IInv
  OBVIOUS
<1>1. TypeOK
  BY NewBucketType, NoTxType, EntryFacts
  DEF Init, TypeOK, Idle, EmptyTree, Trees
<1>2. NoTx.pc = "idle" /\ NoTx.backward = NoChanges
  BY DEF NoTx, newTx
<1>3. \A t \in Txs : tx[t] = NoTx
  BY DEF Init
<1>4. Exclusion
  BY <1>2, <1>3 DEF Init, Idle, Exclusion, Writing
<1>5. KeyedContexts
  BY <1>2, <1>3, EntryFacts DEF KeyedContexts, Keyed, NoChanges
<1>6. TreesInv
  BY <1>5, NewBucketType DEF Init, TreesInv, DeadlinesSound, IndexesSound, GeoExact
<1> QED
  BY <1>1, <1>4, <1>6 DEF IInv

\* Building or dropping an index keeps the trees sound.
LEMMA ReindexSound ==
  ASSUME NEW b \in Buckets, NEW p \in Patterns, Keyed(b.data),
         NEW tree \in {Nil, build(b.data, p)},
         SoundDeadlines(b), SoundIndexes(b), ExactGeo(b)
  PROVE  LET r == [b EXCEPT !.indexes[p] = tree]
         IN  /\ r \in Buckets /\ r.data = b.data
             /\ SoundDeadlines(r) /\ SoundIndexes(r) /\ ExactGeo(r)
<1> DEFINE r == [b EXCEPT !.indexes[p] = tree]
<1>1. b.data \in Trees(Keys)
  BY DEF Buckets
<1>2. tree = Nil \/ tree \in Trees(Ordinals)
  BY <1>1, BuildSound
<1>3. \A o \in Ordinals : tree # Nil /\ tree[o] # Nil =>
        Ord(p, tree[o]) = o /\ b.data[tree[o].k] = tree[o]
  BY <1>1, BuildSound
<1>4. /\ r.data = b.data /\ r.eviction = b.eviction
      /\ r.invalidation = b.invalidation /\ r.rtree = b.rtree
      /\ r.indexes = [b.indexes EXCEPT ![p] = tree]
  BY DEF Buckets
<1>5. r \in Buckets
  <2>1. [b.indexes EXCEPT ![p] = tree] \in [Patterns -> Trees(Ordinals) \cup {Nil}]
    BY <1>2 DEF Buckets
  <2> QED
    BY <2>1 DEF Buckets
<1> HIDE DEF r
<1>6. SoundDeadlines(r) /\ ExactGeo(r)
  BY <1>4 DEF SoundDeadlines, ExactGeo
<1>7. ASSUME NEW q \in IndexNames(r), NEW o \in Occupied(r.indexes[q]),
             HasField(q, r.indexes[q][o])
      PROVE  /\ Ord(q, r.indexes[q][o]) = o
             /\ r.data[r.indexes[q][o].k] = r.indexes[q][o]
  <2>1. CASE q = p
    <3>1. r.indexes[q] = tree /\ tree # Nil
      BY <1>4, <2>1 DEF IndexNames, Buckets
    <3>2. o \in Ordinals /\ tree[o] # Nil
      BY <1>2, <3>1 DEF Occupied, Trees
    <3> QED
      BY <1>3, <1>4, <2>1, <3>1, <3>2
  <2>2. CASE q # p
    <3>1. q \in IndexNames(b) /\ r.indexes[q] = b.indexes[q]
      BY <1>4, <2>2 DEF IndexNames, Buckets
    <3> QED
      BY <1>4, <1>7, <3>1 DEF SoundIndexes
  <2> QED
    BY <2>1, <2>2
<1>8. SoundIndexes(r)
  BY <1>7 DEF SoundIndexes
<1> QED
  BY <1>4, <1>5, <1>6, <1>8 DEF r

\* Every step of a transaction keeps the invariant.
LEMMA TxStepInv ==
  ASSUME IInv, NEW t \in Txs, TxStep(t)
  PROVE  IInv'
<1> USE DEF IInv
<1>0. /\ tx[t] \in TxRecords /\ bkt \in Buckets
      /\ Keyed(bkt.data) /\ Keyed(tx[t].backward)
      /\ SoundDeadlines(bkt) /\ SoundIndexes(bkt) /\ ExactGeo(bkt)
  BY DEF TypeOK, TreesInv, KeyedContexts, DeadlinesSound, IndexesSound, GeoExact
<1>1. ASSUME NEW mode \in {"R", "RW"}, startTx(t, mode)
      PROVE  IInv'
  <2> DEFINE n == newTx(mode, bkt)
  <2>1. n \in TxRecords
    BY <1>0, NewTxType
  <2>2. n.mode = mode /\ n.backward = NoChanges
    BY DEF newTx
  <2>3. tx' = [tx EXCEPT ![t] = n] /\ UNCHANGED <<now, bkt, flagged, logged, mgr>>
    BY <1>1 DEF startTx
  <2> HIDE DEF n
  <2>4. tx'[t] = n /\ \A u \in Txs : u # t => tx'[u] = tx[u]
    BY <2>3 DEF TypeOK
  <2>5. TypeOK'
    BY <2>1, <2>3 DEF TypeOK
  <2>6. /\ mgr.pc \notin {"evict", "invalidate"}
        /\ \A u \in Txs : ~Writing(u)
        /\ mode = "RW" => \A u \in Txs : ~Reading(u)
    BY <1>1 DEF startTx, RLockFree, LockFree
  <2>7. \A u \in Txs : tx[u].mode \in {"R", "RW"}
    BY DEF TypeOK, TxRecords
  <2>8. Exclusion'
    BY <2>2, <2>3, <2>4, <2>6, <2>7 DEF Exclusion, Writing, Reading
  <2>9. KeyedContexts'
    <3>1. ASSUME NEW u \in Txs PROVE Keyed(tx'[u].backward)
      <4>1. CASE u = t
        BY <2>2, <2>4, <4>1, EntryFacts DEF Keyed, NoChanges
      <4>2. CASE u # t
        BY <2>4, <4>2 DEF TreesInv, KeyedContexts
      <4> QED
        BY <4>1, <4>2
    <3> QED
      BY <3>1 DEF KeyedContexts, Keyed
  <2> QED
    BY <2>3, <2>5, <2>8, <2>9, TreesKept
<1>2. ASSUME NEW e \in Entries, Set(t, e)
      PROVE  IInv'
  <2>1. e.k \in Keys /\ bkt.data[e.k] \in Entries \cup {Nil}
    BY <1>0, EntryFacts DEF Buckets, Trees
  <2>2. /\ tx' = [tx EXCEPT ![t].backward[e.k] = bkt.data[e.k],
                            ![t].forward[e.k] = e]
        /\ bkt' = insert(bkt, e) /\ flagged' = flagged \ {e}
        /\ now' = now /\ logged' = logged /\ mgr' = mgr
    BY <1>2 DEF Set
  <2>3. bkt.data[e.k] \in Entries => (bkt.data[e.k]).k = e.k
    BY <1>0, <2>1 DEF Keyed
  <2>4. /\ tx' \in [Txs -> TxRecords] /\ KeyedContexts'
        /\ \A u \in Txs : tx'[u].pc = tx[u].pc /\ tx'[u].mode = tx[u].mode
    <3> DEFINE old == bkt.data[e.k]
    <3>1. old \in Entries \cup {Nil, Absent} /\ (old \in Entries => old.k = e.k)
      BY <2>1, <2>3
    <3>2. tx' = [tx EXCEPT ![t].backward[e.k] = old, ![t].forward[e.k] = e]
      BY <2>2
    <3> HIDE DEF old
    <3> QED
      BY <2>1, <3>1, <3>2, WriteTx DEF TreesInv
  <2>5. insert(bkt, e) \in Buckets
    BY <1>0, InsertType
  <2>6. TypeOK'
    BY <2>2, <2>4, <2>5 DEF TypeOK
  <2>7. Exclusion'
    BY <2>2, <2>4, ExclusionKept
  <2>8. /\ SoundDeadlines(insert(bkt, e)) /\ SoundIndexes(insert(bkt, e))
        /\ ExactGeo(insert(bkt, e)) /\ Keyed((insert(bkt, e)).data)
    BY <1>0, InsertDeadlines, InsertIndexes, InsertGeo
  <2>9. TreesInv'
    BY <2>2, <2>4, <2>8 DEF TreesInv, DeadlinesSound, IndexesSound, GeoExact
  <2> QED
    BY <2>6, <2>7, <2>9
<1>3. ASSUME NEW k \in Keys, Delete(t, k)
      PROVE  IInv'
  <2>1. bkt.data[k] \in Entries \cup {Nil}
    BY <1>0 DEF Buckets, Trees
  <2>2. /\ tx' = [tx EXCEPT ![t].backward[k] = bkt.data[k], ![t].forward[k] = Nil]
        /\ bkt' = delete(bkt, k)
        /\ UNCHANGED <<now, flagged, logged, mgr>>
    BY <1>3 DEF Delete
  <2>3. /\ tx' \in [Txs -> TxRecords] /\ KeyedContexts'
        /\ \A u \in Txs : tx'[u].pc = tx[u].pc /\ tx'[u].mode = tx[u].mode
    <3> DEFINE old == bkt.data[k]
    <3>1. old \in Entries \cup {Nil, Absent} /\ (old \in Entries => old.k = k)
      BY <1>0, <2>1 DEF Keyed
    <3>2. tx' = [tx EXCEPT ![t].backward[k] = old, ![t].forward[k] = Nil]
      BY <2>2
    <3> HIDE DEF old
    <3> QED
      BY <3>1, <3>2, WriteTx DEF TreesInv
  <2>4. delete(bkt, k) \in Buckets
    BY <1>0, DeleteType
  <2>5. TypeOK'
    BY <2>2, <2>3, <2>4 DEF TypeOK
  <2>6. Exclusion'
    BY <2>2, <2>3, ExclusionKept
  <2>7. /\ SoundDeadlines(delete(bkt, k)) /\ SoundIndexes(delete(bkt, k))
        /\ ExactGeo(delete(bkt, k)) /\ Keyed((delete(bkt, k)).data)
    BY <1>0, DeleteDeadlines, DeleteIndexes, DeleteGeo
  <2>8. TreesInv'
    BY <2>2, <2>3, <2>7 DEF TreesInv, DeadlinesSound, IndexesSound, GeoExact
  <2> QED
    BY <2>5, <2>6, <2>8
<1>4. ASSUME NEW p \in Patterns, CreateIndex(t, p) \/ DropIndex(t, p)
      PROVE  IInv'
  <2>1. PICK tree \in {Nil, build(bkt.data, p)} :
          bkt' = [bkt EXCEPT !.indexes[p] = tree]
    BY <1>4 DEF CreateIndex, DropIndex
  <2>2. UNCHANGED <<now, flagged, logged, tx, mgr>>
    BY <1>4 DEF CreateIndex, DropIndex
  <2>3. /\ bkt' \in Buckets /\ bkt'.data = bkt.data
        /\ SoundDeadlines(bkt') /\ SoundIndexes(bkt') /\ ExactGeo(bkt')
    BY <1>0, <2>1, ReindexSound
  <2>4. TypeOK'
    BY <2>2, <2>3 DEF TypeOK
  <2>5. Exclusion'
    BY <2>2, ExclusionKept
  <2>6. KeyedContexts'
    BY <2>2 DEF TreesInv, KeyedContexts, Keyed
  <2>7. TreesInv'
    BY <1>0, <2>3, <2>6 DEF TreesInv, DeadlinesSound, IndexesSound, GeoExact
  <2> QED
    BY <2>4, <2>5, <2>7
<1>5. CASE IterStart(t) \/ IterEnd(t) \/ startRollback(t)
  <2>1. PICK pc \in {"open", "rollback"}, it \in BOOLEAN, depth \in 0..MaxDepth :
          tx' = [tx EXCEPT ![t] =
                   [@ EXCEPT !.pc = pc, !.iterating = it, !.depth = depth]]
    <3>1. /\ tx[t].pc = "open" /\ tx[t].iterating \in BOOLEAN
          /\ tx[t].depth \in 0..MaxDepth /\ MaxDepth \in Nat
      BY <1>0, <1>5, TxAssumption DEF TxRecords, IterStart, IterEnd, startRollback
    <3>2. CASE IterStart(t)
      <4>1. tx[t].depth + 1 \in 0..MaxDepth
        BY <3>1, <3>2 DEF IterStart
      <4>2. tx' = [tx EXCEPT ![t] = [@ EXCEPT !.pc = "open", !.iterating = TRUE,
                                             !.depth = tx[t].depth + 1]]
        BY <1>0, <3>1, <3>2 DEF IterStart, TypeOK, TxRecords
      <4> QED
        BY <4>1, <4>2
    <3>3. CASE IterEnd(t)
      <4>1. tx[t].depth - 1 \in 0..MaxDepth
        BY <3>1, <3>3 DEF IterEnd
      <4>2. tx' = [tx EXCEPT ![t] = [@ EXCEPT !.pc = "open", !.iterating = FALSE,
                                             !.depth = tx[t].depth - 1]]
        BY <1>0, <3>1, <3>3 DEF IterEnd, TypeOK, TxRecords
      <4> QED
        BY <4>1, <4>2
    <3>4. CASE startRollback(t)
      <4>1. tx' = [tx EXCEPT ![t] = [@ EXCEPT !.pc = "rollback",
                                             !.iterating = tx[t].iterating,
                                             !.depth = tx[t].depth]]
        BY <1>0, <3>1, <3>4 DEF startRollback, TypeOK, TxRecords
      <4> QED
        BY <3>1, <4>1
    <3> QED
      BY <1>5, <3>2, <3>3, <3>4
  <2>2. tx[t].pc # "idle" /\ UNCHANGED <<now, bkt, flagged, logged, mgr>>
    BY <1>5 DEF IterStart, IterEnd, startRollback
  <2> QED
    BY <2>1, <2>2, LocalTx
<1>6. CASE commitTx(t) \/ endRollback(t)
  <2>1. /\ tx' = [tx EXCEPT ![t] = NoTx]
        /\ UNCHANGED <<now, bkt, flagged, mgr>>
    BY <1>6 DEF commitTx, endRollback
  <2>2. logged' \in Trees(Keys)
    <3>1. CASE commitTx(t)
      <4>1. tx[t].forward \in RbCtx
        BY <1>0 DEF TxRecords
      <4>2. \A k \in Keys : tx[t].forward[k] # Absent =>
              tx[t].forward[k] \in Entries \cup {Nil}
        BY <4>1 DEF RbCtx
      <4>3. \A k \in Keys : logged[k] \in Entries \cup {Nil}
        BY DEF TypeOK, Trees
      <4> QED
        BY <3>1, <4>2, <4>3 DEF commitTx, Trees
    <3>2. CASE endRollback(t)
      BY <3>2 DEF endRollback, TypeOK
    <3> QED
      BY <1>6, <3>1, <3>2
  <2>3. tx' \in [Txs -> TxRecords] /\ Exclusion' /\ KeyedContexts'
    BY <2>1, EndTx
  <2>4. TypeOK'
    BY <2>1, <2>2, <2>3 DEF TypeOK
  <2> QED
    BY <2>1, <2>3, <2>4, TreesKept
<1>7. ASSUME NEW k \in Keys, rollbackEntry(t, k)
      PROVE  IInv'
  <2> DEFINE old == tx[t].backward[k]
  <2>1. /\ old # Absent
        /\ bkt' = IF old = Nil THEN UndoInsert(bkt, k) ELSE UndoRemove(bkt, old)
        /\ tx' = [tx EXCEPT ![t].backward[k] = Absent]
        /\ UNCHANGED <<now, flagged, logged, mgr>>
    BY <1>7 DEF rollbackEntry
  <2>2. old # Nil => old \in Entries /\ old.k = k
    BY <1>0, <2>1 DEF TxRecords, RbCtx, Keyed
  <2>3. /\ bkt' \in Buckets /\ Keyed(bkt'.data) /\ SoundDeadlines(bkt')
        /\ SoundIndexes(bkt') /\ ExactGeo(bkt')
    <3>1. CASE old = Nil
      BY <1>0, <2>1, <3>1, UndoInsertSound
    <3>2. CASE old # Nil
      BY <1>0, <2>1, <2>2, <3>2, UndoRemoveSound
    <3> QED
      BY <3>1, <3>2
  <2>4. /\ tx' \in [Txs -> TxRecords] /\ KeyedContexts'
        /\ \A u \in Txs : tx'[u].pc = tx[u].pc /\ tx'[u].mode = tx[u].mode
    <3>1. tx' = [tx EXCEPT ![t].backward[k] = Absent,
                           ![t].forward[k] = tx[t].forward[k]]
      <4> DEFINE back == [tx[t].backward EXCEPT ![k] = Absent]
      <4>1. [tx[t].forward EXCEPT ![k] = tx[t].forward[k]] = tx[t].forward
        BY <1>0 DEF TxRecords, RbCtx
      <4>2. tx' = [tx EXCEPT ![t] = [tx[t] EXCEPT !.backward = back]]
        BY <2>1
      <4>3. [tx[t] EXCEPT !.backward = back] =
              [tx[t] EXCEPT !.backward = back, !.forward = tx[t].forward]
        BY <1>0 DEF TxRecords
      <4>4. tx' = [tx EXCEPT ![t] = [tx[t] EXCEPT !.backward = back,
              !.forward = [tx[t].forward EXCEPT ![k] = tx[t].forward[k]]]]
        BY <4>1, <4>2, <4>3
      <4> QED
        BY <1>0, <4>4 DEF TypeOK, TxRecords
    <3>2. tx[t].forward[k] \in Entries \cup {Nil, Absent}
      BY <1>0 DEF TxRecords, RbCtx
    <3> QED
      BY <3>1, <3>2, EntryFacts, WriteTx DEF TreesInv
  <2>5. TypeOK'
    BY <2>1, <2>3, <2>4 DEF TypeOK
  <2>6. Exclusion'
    BY <2>1, <2>4, ExclusionKept
  <2>7. TreesInv'
    BY <2>3, <2>4 DEF TreesInv, DeadlinesSound, IndexesSound, GeoExact
  <2> QED
    BY <2>5, <2>6, <2>7
<1> QED
  BY <1>1, <1>2, <1>3, <1>4, <1>5, <1>6, <1>7 DEF TxStep

\* Every step of the manager keeps the invariant.
LEMMA ManagerInv ==
  ASSUME IInv, manager
  PROVE  IInv'
<1> USE DEF IInv
<1>0. /\ bkt \in Buckets /\ bkt.eviction \in Trees(Times)
      /\ bkt.invalidation \in Trees(Times)
      /\ Keyed(bkt.data) /\ SoundDeadlines(bkt) /\ SoundIndexes(bkt) /\ ExactGeo(bkt)
  BY DEF TypeOK, TreesInv, DeadlinesSound, IndexesSound, GeoExact, Buckets
<1>1. tx' = tx /\ now' = now /\ logged' = logged
  BY DEF manager, managerWait, managerLock, evict, evictDone, invalidate
<1>2. KeyedContexts'
  BY <1>1 DEF TreesInv, KeyedContexts, Keyed
<1>3. CASE managerWait \/ managerLock
  <2>1. bkt' = bkt /\ flagged' = flagged
    BY <1>3 DEF managerWait, managerLock
  <2>2. mgr' \in [pc : {"idle", "waiting", "evict", "invalidate"},
                  i : Nat, n : Nat, at : Nat]
    BY <1>0, <1>3, OccupiedCount DEF TypeOK, managerWait, managerLock
  <2>3. TypeOK'
    BY <1>1, <2>1, <2>2 DEF TypeOK
  <2>4. Exclusion'
    <3>1. CASE managerWait
      BY <1>1, <3>1 DEF managerWait, Exclusion, Writing, TypeOK
    <3>2. CASE managerLock
      <4>1. \A t \in Txs : tx[t].mode \in {"R", "RW"}
        BY DEF TypeOK, TxRecords
      <4>2. \A t \in Txs : tx[t].pc = "idle"
        BY <3>2, <4>1 DEF managerLock, LockFree, Writing, Reading
      <4> QED
        BY <1>1, <4>2 DEF Exclusion, Writing
    <3> QED
      BY <1>3, <3>1, <3>2
  <2> QED
    BY <1>2, <2>1, <2>3, <2>4, TreesKept
<1>4. CASE evict
  <2> DEFINE eitem == MinItem(bkt.eviction)
  <2>1. eitem \in Entries /\ eitem.k \in Keys
    <3>1. Occupied(bkt.eviction) # {}
      BY <1>0, <1>4, OccupiedCount DEF evict, TypeOK
    <3> QED
      BY <1>0, <3>1, MinItemIn, EntryFacts
  <2>2. bkt' = delete(bkt, eitem.k) \/ bkt' = bkt
    BY <1>4 DEF evict
  <2>3. /\ bkt' \in Buckets /\ Keyed(bkt'.data) /\ SoundDeadlines(bkt')
        /\ SoundIndexes(bkt') /\ ExactGeo(bkt')
    <3> DEFINE d == delete(bkt, eitem.k)
    <3> HIDE DEF eitem
    <3>1. d \in Buckets
      BY <1>0, <2>1, DeleteType
    <3>2. SoundDeadlines(d) /\ SoundIndexes(d)
      BY <1>0, <2>1, DeleteDeadlines, DeleteIndexes
    <3>3. ExactGeo(d) /\ Keyed(d.data)
      BY <1>0, <2>1, DeleteGeo
    <3>4. bkt' = d \/ bkt' = bkt
      BY <2>2
    <3> HIDE DEF d
    <3> QED
      BY <1>0, <3>1, <3>2, <3>3, <3>4
  <2>4. /\ mgr' = [mgr EXCEPT !.i = @ + 1] /\ mgr.pc = "evict"
        /\ flagged' = flagged
    BY <1>4 DEF evict
  <2>5. TypeOK'
    BY <1>1, <2>3, <2>4 DEF TypeOK
  <2>6. Exclusion'
    BY <1>1, <2>4 DEF Exclusion, Writing, TypeOK
  <2>7. TreesInv'
    BY <1>2, <2>3 DEF TreesInv, DeadlinesSound, IndexesSound, GeoExact
  <2> QED
    BY <2>5, <2>6, <2>7
<1>5. CASE evictDone
  <2>1. /\ mgr' = [mgr EXCEPT !.pc = "invalidate"] /\ mgr.pc = "evict"
        /\ bkt' = bkt /\ flagged' = flagged
    BY <1>5 DEF evictDone
  <2>2. TypeOK'
    BY <1>1, <2>1 DEF TypeOK
  <2>3. Exclusion'
    BY <1>1, <2>1 DEF Exclusion, Writing, TypeOK
  <2> QED
    BY <1>2, <2>1, <2>2, <2>3, TreesKept
<1>6. CASE invalidate
  <2>1. mgr' = Idle /\ bkt' = bkt
    BY <1>6 DEF invalidate
  <2>2. flagged' \subseteq Entries
    BY <1>0, <1>6, MinItemIn DEF invalidate, TypeOK
  <2>3. TypeOK'
    BY <1>1, <2>1, <2>2 DEF TypeOK, Idle
  <2>4. Exclusion'
    BY <1>1, <2>1 DEF Exclusion, Writing, Idle
  <2> QED
    BY <1>2, <2>1, <2>3, <2>4, TreesKept
<1> QED
  BY <1>3, <1>4, <1>5, <1>6 DEF manager

\* The invariant is inductive.
LEMMA NextInv ==
  ASSUME IInv, [Next]_vars
  PROVE  IInv'
<1>1. CASE Tick
  <2>1. TypeOK'
    BY <1>1 DEF Tick, IInv, TypeOK
  <2>2. Exclusion'
    BY <1>1, ExclusionKept DEF Tick, IInv
  <2>3. KeyedContexts'
    BY <1>1 DEF Tick, IInv, TreesInv, KeyedContexts, Keyed
  <2> QED
    BY <1>1, <2>1, <2>2, <2>3, TreesKept DEF Tick, IInv
<1>2. CASE manager
  BY <1>2, ManagerInv
<1>3. ASSUME NEW t \in Txs, TxStep(t) PROVE IInv'
  BY <1>3, TxStepInv
<1>4. CASE UNCHANGED vars
  <2>1. UNCHANGED <<now, bkt, flagged, logged, tx, mgr>>
    BY <1>4 DEF vars
  <2>2. TypeOK'
    BY <2>1 DEF IInv, TypeOK
  <2>3. Exclusion'
    BY <2>1, ExclusionKept DEF IInv
  <2>4. KeyedContexts'
    BY <2>1 DEF IInv, TreesInv, KeyedContexts, Keyed
  <2> QED
    BY <2>1, <2>2, <2>3, <2>4, TreesKept DEF IInv
<1> QED
  BY <1>1, <1>2, <1>3, <1>4 DEF Next

\* The inductive invariant holds in every history.
THEOREM Invariance == Spec => []IInv
<1>1. Init => IInv
  BY InitInv
<1>2. IInv /\ [Next]_vars => IInv'
  BY NextInv
<1> QED
  BY <1>1, <1>2, PTL DEF Spec

-----------------------------------------------------------------------------
(* What a reader of the code should know *)

\* Every history keeps every variable in its type.
THEOREM TypeCorrect == Spec => []TypeOK
<1>1. IInv => TypeOK
  BY DEF IInv
<1> QED
  BY <1>1, Invariance, PTL

\* Whatever clients do, also when they write a key twice or write from a View,
\* and whatever is committed, rolled back or evicted, the eviction and
\* invalidation trees hold only current entries, at their own deadlines.
THEOREM DeadlinesAreSound == Spec => []DeadlinesSound
<1>1. IInv => DeadlinesSound
  BY DEF IInv, TreesInv
<1> QED
  BY <1>1, Invariance, PTL

\* Likewise for the entries of the indexes that have the indexed field.
THEOREM IndexesAreSound == Spec => []IndexesSound
<1>1. IInv => IndexesSound
  BY DEF IInv, TreesInv
<1> QED
  BY <1>1, Invariance, PTL

\* The R-tree of a geo bucket is exactly the set of current located entries.
THEOREM GeoIsExact == Spec => []GeoExact
<1>1. IInv => GeoExact
  BY DEF IInv, TreesInv
<1> QED
  BY <1>1, Invariance, PTL

\* The lock of the bucket: a writer, or the manager in its loops, is alone.
THEOREM LockExcludes == Spec => []Exclusion
<1>1. IInv => Exclusion
  BY DEF IInv
<1> QED
  BY <1>1, Invariance, PTL

\* No step of the manager changes what Get answers: an eviction removes an entry
\* that Get already hides, and the entry removed is the one the manager looked at.
THEOREM ManagerIsInvisible == Spec => ManagerInvisible
<1>1. ASSUME IInv, Next, mgr' # mgr, NEW k \in Keys
      PROVE  Get(k)' = Get(k)
  <2>0. /\ bkt \in Buckets /\ bkt.eviction \in Trees(Times)
        /\ bkt.data[k] \in Entries \cup {Nil} /\ SoundDeadlines(bkt)
    BY <1>1 DEF IInv, TypeOK, TreesInv, DeadlinesSound, Buckets, Trees
  <2>1. manager
    BY <1>1, ZenonT(40) DEF Next, TxStep, Tick, startTx, Set, Delete, CreateIndex, DropIndex,
                IterStart, IterEnd, commitTx, startRollback, rollbackEntry,
                endRollback
  <2>2. now' = now
    BY <2>1 DEF manager, managerWait, managerLock, evict, evictDone, invalidate
  <2>3. CASE managerWait \/ managerLock \/ evictDone
    <3>1. bkt' = bkt /\ flagged' = flagged
      BY <2>3 DEF managerWait, managerLock, evictDone
    <3> QED
      BY <2>2, <3>1 DEF Get, IsExpired, IsInvalid
  <2>4. CASE evict
    <3> DEFINE eitem == MinItem(bkt.eviction)
    <3>1. PICK o \in Occupied(bkt.eviction) :
            eitem = bkt.eviction[o] /\ eitem \in Entries
      <4>1. Occupied(bkt.eviction) # {}
        BY <1>1, <2>0, <2>4, OccupiedCount DEF evict, IInv, TypeOK
      <4> QED
        BY <2>0, <4>1, MinItemIn
    <3>2. eitem.k \in Keys /\ bkt.data[eitem.k] = eitem
      BY <2>0, <3>1, EntryFacts DEF SoundDeadlines
    <3>3. flagged' = flagged
      BY <2>4 DEF evict
    <3>4. bkt' = IF IsExpired(eitem) THEN delete(bkt, eitem.k) ELSE bkt
      BY <2>4 DEF evict
    <3> HIDE DEF eitem
    <3>5. CASE ~IsExpired(eitem)
      BY <2>2, <3>3, <3>4, <3>5 DEF Get, IsExpired, IsInvalid
    <3>6. CASE IsExpired(eitem)
      <4>1. bkt'.data = [bkt.data EXCEPT ![eitem.k] = Nil]
        BY <2>0, <3>2, <3>4, <3>6, DeleteType
      <4>2. CASE k = eitem.k
        <5>1. bkt'.data[k] = Nil
          BY <2>0, <4>1, <4>2 DEF Buckets, Trees
        <5>2. Get(k) = Nil
          BY <3>2, <3>6, <4>2 DEF Get
        <5>3. Get(k)' = Nil
          BY <5>1 DEF Get
        <5> QED
          BY <5>2, <5>3
      <4>3. CASE k # eitem.k
        <5>1. bkt'.data[k] = bkt.data[k]
          BY <2>0, <4>1, <4>3 DEF Buckets, Trees
        <5> QED
          BY <2>2, <3>3, <5>1 DEF Get, IsExpired, IsInvalid
      <4> QED
        BY <4>2, <4>3
    <3> QED
      BY <3>5, <3>6
  <2>5. CASE invalidate
    <3>1. bkt' = bkt
      BY <2>5 DEF invalidate
    <3>2. flagged' = flagged \/
            \E eitem : flagged' = flagged \cup {eitem} /\ IsInvalid(eitem)
      BY <2>5 DEF invalidate
    <3>3. \A e : IsInvalid(e)' <=> IsInvalid(e)
      BY <2>2, <3>2 DEF IsInvalid
    <3> QED
      BY <2>2, <3>1, <3>3 DEF Get, IsExpired
  <2> QED
    BY <2>1, <2>3, <2>4, <2>5 DEF manager
<1>2. IInv /\ [Next]_vars => [mgr' # mgr => \A k \in Keys : Get(k)' = Get(k)]_vars
  BY <1>1 DEF vars
<1> QED
  BY <1>2, Invariance, PTL DEF Spec, ManagerInvisible

\* A View has nothing to roll back.
ReadersClean == \A t \in Txs : tx[t].mode = "R" => tx[t].backward = NoChanges

\* It stays so when functions passed to View do not write.
LEMMA ReadersCleanInv ==
  ASSUME ViewersWrite = FALSE, IInv, ReadersClean, [Next]_vars
  PROVE  ReadersClean'
<1>0. NoTx.backward = NoChanges /\ tx \in [Txs -> TxRecords]
  BY DEF NoTx, newTx, IInv, TypeOK
<1>1. CASE tx' = tx
  BY <1>1 DEF ReadersClean
<1>2. ASSUME NEW t \in Txs, NEW r, tx' = [tx EXCEPT ![t] = r],
             r.mode = "R" => r.backward = NoChanges
      PROVE  ReadersClean'
  BY <1>0, <1>2 DEF ReadersClean
<1>3. ASSUME NEW t \in Txs, TxStep(t)
      PROVE  ReadersClean'
  <2>0. tx[t] \in TxRecords
    BY <1>0
  <2>1. ASSUME NEW mode \in {"R", "RW"}, startTx(t, mode) PROVE ReadersClean'
    <3>1. (newTx(mode, bkt)).backward = NoChanges
      BY DEF newTx
    <3> QED
      BY <1>2, <2>1, <3>1 DEF startTx
  <2>2. ASSUME NEW e \in Entries, Set(t, e) PROVE ReadersClean'
    <3>1. tx[t].mode = "RW"
      BY <2>2, ViewersWrite = FALSE DEF Set, MayWrite
    <3>2. \A u \in Txs : u # t => tx'[u] = tx[u]
      BY <1>0, <2>2 DEF Set
    <3>3. tx'[t].mode = tx[t].mode
      BY <1>0, <2>0, <2>2 DEF Set, TxRecords
    <3> QED
      BY <3>1, <3>2, <3>3 DEF ReadersClean
  <2>3. ASSUME NEW k \in Keys, Delete(t, k) PROVE ReadersClean'
    <3>1. tx[t].mode = "RW"
      BY <2>3, ViewersWrite = FALSE DEF Delete, MayWrite
    <3>2. \A u \in Txs : u # t => tx'[u] = tx[u]
      BY <1>0, <2>3 DEF Delete
    <3>3. tx'[t].mode = tx[t].mode
      BY <1>0, <2>0, <2>3 DEF Delete, TxRecords
    <3> QED
      BY <3>1, <3>2, <3>3 DEF ReadersClean
  <2>4. CASE IterStart(t) \/ IterEnd(t) \/ startRollback(t)
    <3>1. \A u \in Txs : /\ tx'[u].mode = tx[u].mode
                         /\ tx'[u].backward = tx[u].backward
      BY <1>0, <2>0, <2>4 DEF IterStart, IterEnd, startRollback, TxRecords
    <3> QED
      BY <3>1 DEF ReadersClean
  <2>5. CASE commitTx(t) \/ endRollback(t)
    BY <1>0, <1>2, <2>5 DEF commitTx, endRollback
  <2>6. ASSUME NEW k \in Keys, rollbackEntry(t, k) PROVE ReadersClean'
    <3>1. tx[t].mode # "R"
      BY <2>6 DEF rollbackEntry, ReadersClean, NoChanges
    <3>2. \A u \in Txs : u # t => tx'[u] = tx[u]
      BY <1>0, <2>6 DEF rollbackEntry
    <3>3. tx'[t].mode = tx[t].mode
      BY <1>0, <2>0, <2>6 DEF rollbackEntry, TxRecords
    <3> QED
      BY <3>1, <3>2, <3>3 DEF ReadersClean
  <2>7. ASSUME NEW p \in Patterns, CreateIndex(t, p) \/ DropIndex(t, p)
        PROVE  ReadersClean'
    BY <1>1, <2>7 DEF CreateIndex, DropIndex
  <2> QED
    BY <1>3, <2>1, <2>2, <2>3, <2>4, <2>5, <2>6, <2>7 DEF TxStep
<1>4. CASE manager \/ Tick \/ UNCHANGED vars
  BY <1>1, <1>4 DEF manager, managerWait, managerLock, evict, evictDone,
                    invalidate, Tick, vars
<1> QED
  BY <1>3, <1>4 DEF Next

\* When functions passed to View do not write, nothing changes the bucket while
\* a View runs.
THEOREM ViewsAreStable ==
  ASSUME ViewersWrite = FALSE
  PROVE  Spec => ReadersStable
<1>1. Init => ReadersClean
  BY DEF Init, ReadersClean, NoTx, newTx
<1>2. IInv /\ ReadersClean /\ [Next]_vars => ReadersClean'
  BY ReadersCleanInv
<1>3. ASSUME IInv, ReadersClean, [Next]_vars, NEW t \in Txs, Reading(t)
      PROVE  bkt' = bkt
  <2>1. tx[t].pc # "idle" /\ tx[t].mode = "R"
    BY <1>3 DEF Reading
  <2>2. \A u \in Txs : ~Writing(u)
    BY <1>3, <2>1 DEF IInv, Exclusion, Writing
  <2>3. mgr.pc # "evict"
    BY <1>3, <2>1 DEF IInv, Exclusion
  <2>4. ASSUME NEW u \in Txs, TxStep(u) PROVE bkt' = bkt
    <3>1. \A e \in Entries : ~Set(u, e)
      BY <2>2, ViewersWrite = FALSE DEF Set, MayWrite, Writing
    <3>2. \A k \in Keys : ~Delete(u, k)
      BY <2>2, ViewersWrite = FALSE DEF Delete, MayWrite, Writing
    <3>3. \A p \in Patterns : ~CreateIndex(u, p) /\ ~DropIndex(u, p)
      BY <2>2, ViewersWrite = FALSE DEF CreateIndex, DropIndex, Writing
    <3>4. \A k \in Keys : ~rollbackEntry(u, k)
      <4> SUFFICES ASSUME NEW k \in Keys, rollbackEntry(u, k) PROVE FALSE
        OBVIOUS
      <4>1. tx[u].pc = "rollback" /\ tx[u].backward[k] # Absent
        BY DEF rollbackEntry
      <4>2. tx[u].mode = "R"
        BY <1>3, <2>2, <4>1 DEF Writing, IInv, TypeOK, TxRecords
      <4> QED
        BY <1>3, <4>1, <4>2 DEF ReadersClean, NoChanges
    <3> QED
      BY <2>4, <3>1, <3>2, <3>3, <3>4
      DEF TxStep, startTx, IterStart, IterEnd, commitTx, startRollback, endRollback
  <2>5. CASE manager
    BY <2>3, <2>5 DEF manager, managerWait, managerLock, evict, evictDone, invalidate
  <2>6. CASE Tick \/ UNCHANGED vars
    BY <2>6 DEF Tick, vars
  <2> QED
    BY <1>3, <2>4, <2>5, <2>6 DEF Next
<1>4. IInv /\ ReadersClean /\ [Next]_vars =>
        [(\E t \in Txs : Reading(t)) => bkt' = bkt]_vars
  BY <1>3
<1> QED
  BY <1>1, <1>2, <1>4, Invariance, PTL DEF Spec, ReadersStable

-----------------------------------------------------------------------------
(* What a cycle of the manager achieves *)

Past(tree, at) == {d \in Occupied(tree) : d < at}

\* While the loop runs, what is left in the tree and the rounds made are together
\* no more than what the loop found, unless nothing that had expired is left.
EvictInv ==
  /\ mgr.pc = "evict" =>
       /\ mgr.at <= now
       /\ \/ Past(bkt.eviction, mgr.at) = {}
          \/ Cardinality(Occupied(bkt.eviction)) + mgr.i <= mgr.n
  /\ PassEvictsHalf

\* No transaction takes a step while the manager is in its loops.
LEMMA TxsWait ==
  ASSUME IInv, mgr.pc \in {"evict", "invalidate"}, NEW t \in Txs
  PROVE  ~TxStep(t)
<1>1. tx[t].pc = "idle" /\ ~LockFree /\ ~RLockFree
  BY DEF IInv, Exclusion, LockFree, RLockFree
<1> QED
  BY <1>1 DEF TxStep, startTx, Set, Delete, MayWrite, CreateIndex, DropIndex, IterStart,
              IterEnd, commitTx, startRollback, rollbackEntry, endRollback

\* A round of the loop takes the first item out of the tree if it has expired.
LEMMA EvictRound ==
  ASSUME IInv, evict
  PROVE  \E m \in Occupied(bkt.eviction) :
           /\ \A d \in Occupied(bkt.eviction) : m <= d
           /\ m < now => Occupied(bkt'.eviction) = Occupied(bkt.eviction) \ {m}
           /\ ~(m < now) => bkt' = bkt
<1> DEFINE occ == Occupied(bkt.eviction)
           m == CHOOSE o \in occ : \A x \in occ : o <= x
           e == bkt.eviction[m]
<1>1. bkt \in Buckets /\ bkt.eviction \in Trees(Times) /\ SoundDeadlines(bkt)
  BY DEF IInv, TypeOK, TreesInv, DeadlinesSound, Buckets
<1>2. occ # {} /\ occ \in SUBSET Times
  BY <1>1, OccupiedCount DEF evict, IInv, TypeOK, Occupied, Trees
<1>3. m \in occ /\ \A x \in occ : m <= x
  <2>1. \E o \in occ : \A x \in occ : o <= x
    BY <1>2, TimesAssumption
  <2> QED
    BY <2>1
<1>4. MinItem(bkt.eviction) = e
  BY DEF MinItem
<1> HIDE DEF m
<1>5. e \in Entries /\ e # Nil /\ e.exp = m /\ bkt.data[e.k] = e /\ m # Never
  BY <1>1, <1>2, <1>3, EntriesAssumption, TimesAssumption
  DEF SoundDeadlines, Occupied, Trees
<1>6. bkt' = IF m < now THEN delete(bkt, e.k) ELSE bkt
  BY <1>4, <1>5 DEF evict, IsExpired
<1>7. ASSUME m < now PROVE Occupied(bkt'.eviction) = occ \ {m}
  <2>1. (Displace(bkt, e.k)).eviction = [bkt.eviction EXCEPT ![m] = Nil]
    BY <1>5 DEF Displace, Detach, Remove
  <2>2. bkt'.eviction = [bkt.eviction EXCEPT ![m] = Nil]
    BY <1>1, <1>5, <1>6, <1>7, <2>1, EntryFacts, DeleteParts
  <2> QED
    BY <1>1, <2>2 DEF Occupied, Trees
<1> QED
  BY <1>3, <1>6, <1>7

LEMMA EvictInvNext == IInv /\ EvictInv /\ [Next]_vars => EvictInv'
<1> SUFFICES ASSUME IInv, EvictInv, [Next]_vars PROVE EvictInv'
  OBVIOUS
<1> DEFINE occ == Occupied(bkt.eviction)
           past == Past(bkt.eviction, mgr.at)
<1>0. /\ now \in Nat /\ mgr.i \in Nat /\ mgr.n \in Nat /\ mgr.at \in Nat
      /\ mgr.pc \in {"idle", "waiting", "evict", "invalidate"}
      /\ occ \subseteq Times /\ IsFiniteSet(occ) /\ Cardinality(occ) \in Nat
      /\ Times \subseteq Int
  <2>1. bkt.eviction \in Trees(Times)
    BY DEF IInv, TypeOK, Buckets
  <2>2. occ \subseteq Times
    BY <2>1 DEF Occupied, Trees
  <2> QED
    BY <2>1, <2>2, OccupiedCount, TimesAssumption, FS_Subset DEF IInv, TypeOK
<1>1. ASSUME NEW t \in Txs, TxStep(t) PROVE EvictInv'
  <2>1. mgr.pc \notin {"evict", "invalidate"}
    BY <1>1, TxsWait
  <2>2. mgr' = mgr
    BY <1>1 DEF TxStep, startTx, Set, Delete, CreateIndex, DropIndex, IterStart,
                IterEnd, commitTx, startRollback, rollbackEntry, endRollback
  <2> QED
    BY <2>1, <2>2 DEF EvictInv, PassEvictsHalf
<1>2. CASE evict
  <2>1. /\ mgr.pc = "evict" /\ mgr'.pc = "evict" /\ mgr'.i = mgr.i + 1
        /\ mgr'.n = mgr.n /\ mgr'.at = mgr.at /\ now' = now
    BY <1>2 DEF evict, IInv, TypeOK
  <2>2. PICK m \in occ :
          /\ \A d \in occ : m <= d
          /\ m < now => Occupied(bkt'.eviction) = occ \ {m}
          /\ ~(m < now) => bkt' = bkt
    BY <1>2, EvictRound
  <2>3. CASE m < now
    <3>1. Occupied(bkt'.eviction) = occ \ {m}
      BY <2>2, <2>3
    <3>2. Cardinality(occ \ {m}) = Cardinality(occ) - 1
      BY <1>0, FS_RemoveElement
    <3>3. Past(bkt'.eviction, mgr.at) \subseteq past
      BY <3>1 DEF Past
    <3>4. \/ Past(bkt'.eviction, mgr'.at) = {}
          \/ Cardinality(Occupied(bkt'.eviction)) + mgr'.i <= mgr'.n
      <4>1. CASE past = {}
        BY <2>1, <3>3, <4>1
      <4>2. CASE past # {}
        BY <1>0, <2>1, <3>1, <3>2, <4>2 DEF EvictInv
      <4> QED
        BY <4>1, <4>2
    <3> QED
      BY <2>1, <3>4 DEF EvictInv, PassEvictsHalf, Past, Occupied
  <2>4. CASE ~(m < now)
    <3>1. bkt' = bkt /\ mgr.at <= now
      BY <2>1, <2>2, <2>4 DEF EvictInv
    <3>2. ASSUME NEW d \in occ PROVE ~(d < mgr.at)
      <4>1. d \in Int /\ m \in Int /\ m <= d
        BY <1>0, <2>2
      <4> QED
        BY <1>0, <2>4, <3>1, <4>1
    <3>3. past = {}
      BY <3>2 DEF Past
    <3>4. Past(bkt'.eviction, mgr'.at) = {}
      BY <2>1, <3>1, <3>3
    <3> QED
      BY <2>1, <3>1, <3>4 DEF EvictInv, PassEvictsHalf
  <2> QED
    BY <2>3, <2>4
<1>3. CASE evictDone
  <2>1. /\ mgr.pc = "evict" /\ mgr'.pc = "invalidate" /\ bkt' = bkt
        /\ mgr'.n = mgr.n /\ mgr'.at = mgr.at /\ mgr.i >= Cardinality(occ)
    BY <1>3 DEF evictDone, IInv, TypeOK
  <2>2. Cardinality(past) \in Nat /\ Cardinality(past) <= Cardinality(occ)
    BY <1>0, FS_Subset, FS_CardinalityType DEF Past
  <2>3. 2 * Cardinality(past) <= mgr.n
    <3>1. CASE past = {}
      BY <1>0, <3>1, FS_EmptySet
    <3>2. CASE past # {}
      BY <1>0, <2>1, <2>2, <3>2 DEF EvictInv
    <3> QED
      BY <3>1, <3>2
  <2> QED
    BY <2>1, <2>3 DEF EvictInv, PassEvictsHalf, Past, Occupied
<1>4. CASE managerLock
  BY <1>0, <1>4 DEF managerLock, EvictInv, PassEvictsHalf, Occupied
<1>5. CASE managerWait \/ invalidate
  BY <1>5 DEF managerWait, invalidate, Idle, EvictInv, PassEvictsHalf, IInv, TypeOK
<1>6. CASE Tick \/ UNCHANGED vars
  <2>1. bkt' = bkt /\ mgr' = mgr /\ (now' = now \/ now' = now + 1)
    BY <1>6 DEF Tick, vars
  <2> QED
    BY <1>0, <2>1 DEF EvictInv, PassEvictsHalf, Past, Occupied
<1> QED
  BY <1>1, <1>2, <1>3, <1>4, <1>5, <1>6 DEF Next, manager

\* Although the loop's bound shrinks while its counter grows, a cycle leaves at
\* most half of what it found in the eviction tree there with its time past.
THEOREM CyclesEvictHalf == Spec => []PassEvictsHalf
<1>1. Init => EvictInv
  BY DEF Init, EvictInv, PassEvictsHalf, Idle
<1>2. EvictInv => PassEvictsHalf
  BY DEF EvictInv
<1> QED
  BY <1>1, <1>2, EvictInvNext, Invariance, PTL DEF Spec

-----------------------------------------------------------------------------
(* Entries that never meet: no two keys have entries with one deadline or,  *)
(* at an indexed path, with one number.  Then no derived tree loses an      *)
(* entry, whatever the clients do.                                          *)

\* Entries of different keys want different places in every tree.  An entry
\* without the field stands where a field that reads as zero would: UndoRemove
\* puts it there and UndoInsert clears the place.
Apart ==
  /\ \A e, f \in Entries : e.k # f.k =>
       /\ e.exp # Never => e.exp # f.exp
       /\ e.inv # Never => e.inv # f.inv
       /\ \A p \in Patterns :
            HasField(p, e) /\ HasField(p, f) => Ord(p, e) # Ord(p, f)
  /\ \A e \in Entries, p \in Patterns : HasField(p, e) => Ord(p, e) # 0

\* Entry e is wherever a reader or the manager looks for it.
PlacedAt(b, e) ==
  /\ e.exp # Never => b.eviction[e.exp] = e
  /\ e.inv # Never => b.invalidation[e.inv] = e
  /\ \A p \in IndexNames(b) : HasField(p, e) => b.indexes[p][Ord(p, e)] = e

Placed(b) == \A k \in Keys : b.data[k] # Nil => PlacedAt(b, b.data[k])

\* Where the ordinals of an entry lie.
LEMMA Places ==
  ASSUME NEW e \in Entries
  PROVE  /\ e.k \in Keys /\ e.exp \in Times \cup {Never} /\ e.inv \in Times \cup {Never}
         /\ \A p \in Patterns : Ord(p, e) \in Ordinals /\ (~HasField(p, e) => Ord(p, e) = 0)
         /\ Rank[NoField] = 0 /\ 0 \in Ordinals
<1>1. e \in EntryRecords
  BY EntriesAssumption
<1> QED
  BY <1>1, FieldsAssumption DEF EntryRecords, Ordinals, Ord, HasField

\* Taking one entry out of the derived trees leaves the entries of other keys.
LEMMA DetachPlaced ==
  ASSUME Apart, NEW b \in Buckets, NEW e \in Entries, NEW f \in Entries,
         e.k # f.k, PlacedAt(b, f)
  PROVE  PlacedAt(Detach(b, e), f)
<1> DEFINE c == Detach(b, e)
<1>1. c.eviction = (IF e.exp # Never THEN [b.eviction EXCEPT ![e.exp] = Nil] ELSE b.eviction)
  BY DEF Detach, Remove
<1>2. c.invalidation = (IF e.inv # Never THEN [b.invalidation EXCEPT ![e.inv] = Nil]
                                        ELSE b.invalidation)
  BY DEF Detach, Remove
<1>3. \A p \in Patterns :
        c.indexes[p] = IF b.indexes[p] = Nil THEN Nil
                       ELSE IF HasField(p, e)
                            THEN [b.indexes[p] EXCEPT ![Ord(p, e)] = Nil]
                            ELSE b.indexes[p]
  BY DEF Detach, indexDelete, Remove
<1> HIDE DEF c
<1>4. f.exp # Never => c.eviction[f.exp] = f
  BY <1>1, Places DEF Apart, PlacedAt, Buckets, Trees
<1>5. f.inv # Never => c.invalidation[f.inv] = f
  BY <1>2, Places DEF Apart, PlacedAt, Buckets, Trees
<1>6. ASSUME NEW p \in IndexNames(c), HasField(p, f)
      PROVE  c.indexes[p][Ord(p, f)] = f
  <2>1. p \in IndexNames(b) /\ p \in Patterns
    BY <1>3, <1>6 DEF IndexNames
  <2>2. b.indexes[p] \in [Ordinals -> Entries \cup {Nil}] /\ b.indexes[p][Ord(p, f)] = f
    BY <1>6, <2>1 DEF Buckets, Trees, PlacedAt, IndexNames
  <2>3. HasField(p, e) => Ord(p, e) # Ord(p, f)
    BY <1>6, <2>1 DEF Apart
  <2>4. Ord(p, f) \in Ordinals /\ b.indexes[p] # Nil
    BY <2>1, Places DEF IndexNames
  <2> QED
    BY <1>3, <2>1, <2>2, <2>3, <2>4
<1> QED
  BY <1>4, <1>5, <1>6 DEF PlacedAt, c

LEMMA DisplacePlaced ==
  ASSUME Apart, NEW b \in Buckets, Keyed(b.data), Placed(b), NEW k \in Keys,
         NEW j \in Keys, j # k, b.data[j] # Nil
  PROVE  PlacedAt(Displace(b, k), b.data[j])
<1>1. /\ b.data[j] \in Entries /\ (b.data[j]).k = j
      /\ PlacedAt(b, b.data[j])
  BY DEF Buckets, Trees, Keyed, Placed
<1>2. CASE b.data[k] = Nil
  BY <1>1, <1>2 DEF Displace
<1>3. CASE b.data[k] # Nil
  <2>1. b.data[k] \in Entries /\ (b.data[k]).k = k
    BY <1>3 DEF Buckets, Trees, Keyed
  <2> QED
    BY <1>1, <1>3, <2>1, DetachPlaced DEF Displace
<1> QED
  BY <1>2, <1>3

\* Putting entry e at its places in the trees of c puts it there, and leaves the
\* entries of other keys.
LEMMA AttachPlaced ==
  ASSUME Apart, NEW c \in Buckets, NEW r \in Buckets, NEW e \in Entries,
         r.eviction = IF e.exp # Never THEN [c.eviction EXCEPT ![e.exp] = e]
                                       ELSE c.eviction,
         r.invalidation = IF e.inv # Never THEN [c.invalidation EXCEPT ![e.inv] = e]
                                           ELSE c.invalidation,
         \A p \in Patterns :
           \/ r.indexes[p] = Nil
           \/ c.indexes[p] # Nil /\ r.indexes[p] = [c.indexes[p] EXCEPT ![Ord(p, e)] = e]
           \/ c.indexes[p] # Nil /\ r.indexes[p] = c.indexes[p] /\ ~HasField(p, e)
  PROVE  /\ PlacedAt(r, e)
         /\ \A f \in Entries : f.k # e.k /\ PlacedAt(c, f) => PlacedAt(r, f)
<1>1. PlacedAt(r, e)
  <2>1. /\ e.exp # Never => r.eviction[e.exp] = e
        /\ e.inv # Never => r.invalidation[e.inv] = e
    BY Places DEF Buckets, Trees
  <2>2. ASSUME NEW p \in IndexNames(r), HasField(p, e)
        PROVE  r.indexes[p][Ord(p, e)] = e
    <3>1. p \in Patterns /\ r.indexes[p] # Nil
      BY DEF IndexNames
    <3>2. r.indexes[p] = [c.indexes[p] EXCEPT ![Ord(p, e)] = e] /\ c.indexes[p] # Nil
      BY <2>2, <3>1
    <3>3. c.indexes[p] \in [Ordinals -> Entries \cup {Nil}] /\ Ord(p, e) \in Ordinals
      BY <3>1, <3>2, Places DEF Buckets, Trees
    <3> QED
      BY <3>2, <3>3
  <2> QED
    BY <2>1, <2>2 DEF PlacedAt
<1>2. ASSUME NEW f \in Entries, f.k # e.k, PlacedAt(c, f)
      PROVE  PlacedAt(r, f)
  <2>1. f.exp # Never => r.eviction[f.exp] = f
    BY <1>2, Places DEF Buckets, Trees, Apart, PlacedAt
  <2>2. f.inv # Never => r.invalidation[f.inv] = f
    BY <1>2, Places DEF Buckets, Trees, Apart, PlacedAt
  <2>3. ASSUME NEW p \in IndexNames(r), HasField(p, f)
        PROVE  r.indexes[p][Ord(p, f)] = f
    <3>1. p \in Patterns /\ r.indexes[p] # Nil
      BY DEF IndexNames
    <3>2. c.indexes[p] # Nil
      BY <3>1
    <3>3. /\ c.indexes[p] \in [Ordinals -> Entries \cup {Nil}]
          /\ Ord(p, f) \in Ordinals /\ c.indexes[p][Ord(p, f)] = f
      BY <1>2, <2>3, <3>1, <3>2, Places DEF Buckets, Trees, PlacedAt, IndexNames
    <3>4. Ord(p, e) # Ord(p, f)
      BY <1>2, <2>3, <3>1, Places DEF Apart
    <3> QED
      BY <3>1, <3>2, <3>3, <3>4
  <2> QED
    BY <2>1, <2>2, <2>3 DEF PlacedAt
<1> QED
  BY <1>1, <1>2

LEMMA InsertPlaced ==
  ASSUME Apart, NEW b \in Buckets, Keyed(b.data), Placed(b), NEW e \in Entries
  PROVE  Placed(insert(b, e))
<1> DEFINE c == Displace(b, e.k)
           r == insert(b, e)
<1>1. e.k \in Keys /\ c \in Buckets /\ r \in Buckets
  BY Places, DisplaceType, InsertType
<1>2. r.data = [b.data EXCEPT ![e.k] = e]
  BY InsertType
<1>3. /\ r.eviction = IF e.exp # Never THEN [c.eviction EXCEPT ![e.exp] = e]
                                       ELSE c.eviction
      /\ r.invalidation = IF e.inv # Never THEN [c.invalidation EXCEPT ![e.inv] = e]
                                           ELSE c.invalidation
      /\ r.indexes = [p \in Patterns |-> IF c.indexes[p] = Nil THEN Nil
                                         ELSE indexInsert(c.indexes[p], p, e)]
  BY InsertParts
<1>4. ASSUME NEW j \in Keys, j # e.k, b.data[j] # Nil
      PROVE  PlacedAt(c, b.data[j]) /\ b.data[j] \in Entries /\ (b.data[j]).k = j
  BY <1>1, <1>4, DisplacePlaced DEF Buckets, Trees, Keyed
<1> HIDE DEF c, r
<1>5. \A p \in Patterns :
        \/ r.indexes[p] = Nil
        \/ c.indexes[p] # Nil /\ r.indexes[p] = [c.indexes[p] EXCEPT ![Ord(p, e)] = e]
        \/ c.indexes[p] # Nil /\ r.indexes[p] = c.indexes[p] /\ ~HasField(p, e)
  BY <1>3 DEF indexInsert, ReplaceOrInsert
<1>6. /\ PlacedAt(r, e)
      /\ \A f \in Entries : f.k # e.k /\ PlacedAt(c, f) => PlacedAt(r, f)
  BY <1>1, <1>3, <1>5, AttachPlaced
<1>7. ASSUME NEW j \in Keys, r.data[j] # Nil PROVE PlacedAt(r, r.data[j])
  <2>1. CASE j = e.k
    BY <1>1, <1>2, <1>6, <2>1 DEF Buckets, Trees
  <2>2. CASE j # e.k
    <3>1. r.data[j] = b.data[j]
      BY <1>1, <1>2, <2>2 DEF Buckets, Trees
    <3> QED
      BY <1>4, <1>6, <1>7, <2>2, <3>1
  <2> QED
    BY <2>1, <2>2
<1> QED
  BY <1>7 DEF Placed, r

LEMMA DeletePlaced ==
  ASSUME Apart, NEW b \in Buckets, Keyed(b.data), Placed(b), NEW k \in Keys
  PROVE  Placed(delete(b, k))
<1> DEFINE c == Displace(b, k)
           r == delete(b, k)
<1>1. r.data = [b.data EXCEPT ![k] = Nil]
  BY DeleteType
<1>2. r.eviction = c.eviction /\ r.invalidation = c.invalidation /\ r.indexes = c.indexes
  BY DeleteParts
<1>3. ASSUME NEW j \in Keys, j # k, b.data[j] # Nil PROVE PlacedAt(c, b.data[j])
  BY <1>3, DisplacePlaced
<1> HIDE DEF c, r
<1>4. ASSUME NEW j \in Keys, r.data[j] # Nil PROVE PlacedAt(r, r.data[j])
  <2>1. j # k /\ r.data[j] = b.data[j]
    BY <1>1, <1>4 DEF Buckets, Trees
  <2> QED
    BY <1>2, <1>3, <1>4, <2>1 DEF PlacedAt, IndexNames
<1> QED
  BY <1>4 DEF Placed, r

\* What UndoInsert removes from every index is no entry with the field.
LEMMA UndoInsertPlaced ==
  ASSUME Apart, NEW b \in Buckets, Keyed(b.data), Placed(b), NEW k \in Keys
  PROVE  Placed(UndoInsert(b, k))
<1> DEFINE c == delete(b, k)
           r == UndoInsert(b, k)
<1>1. c \in Buckets /\ Placed(c)
  BY DeleteType, DeletePlaced
<1>2. r = [c EXCEPT !.indexes = [p \in Patterns |->
                                   IF c.indexes[p] = Nil THEN Nil
                                   ELSE Remove(c.indexes[p], Rank[NoField])]]
  BY DEF UndoInsert
<1> HIDE DEF c, r
<1>3. /\ r.data = c.data /\ r.eviction = c.eviction /\ r.invalidation = c.invalidation
      /\ \A p \in Patterns :
           r.indexes[p] = IF c.indexes[p] = Nil THEN Nil
                          ELSE [c.indexes[p] EXCEPT ![Rank[NoField]] = Nil]
  BY <1>1, <1>2 DEF Buckets, Remove
<1>4. ASSUME NEW e \in Entries, PlacedAt(c, e) PROVE PlacedAt(r, e)
  <2>1. ASSUME NEW p \in IndexNames(r), HasField(p, e)
        PROVE  r.indexes[p][Ord(p, e)] = e
    <3>1. p \in IndexNames(c) /\ p \in Patterns /\ c.indexes[p] # Nil
      BY <1>3, <2>1 DEF IndexNames
    <3>2. /\ c.indexes[p] \in [Ordinals -> Entries \cup {Nil}]
          /\ c.indexes[p][Ord(p, e)] = e /\ Ord(p, e) # Rank[NoField]
          /\ Ord(p, e) \in Ordinals
      BY <1>1, <1>4, <2>1, <3>1, Places DEF Buckets, Trees, PlacedAt, Apart
    <3> QED
      BY <1>3, <3>1, <3>2
  <2> QED
    BY <1>3, <1>4, <2>1 DEF PlacedAt
<1>5. ASSUME NEW j \in Keys, r.data[j] # Nil PROVE PlacedAt(r, r.data[j])
  BY <1>1, <1>3, <1>4, <1>5 DEF Placed, Buckets, Trees
<1> QED
  BY <1>5 DEF Placed, r

LEMMA UndoRemovePlaced ==
  ASSUME Apart, NEW b \in Buckets, Keyed(b.data), Placed(b), NEW e \in Entries
  PROVE  Placed(UndoRemove(b, e))
<1> DEFINE c == insert(b, e)
           r == UndoRemove(b, e)
<1>1. /\ c \in Buckets /\ Placed(c) /\ r \in Buckets
      /\ c.data = [b.data EXCEPT ![e.k] = e]
  BY InsertType, InsertPlaced, UndoRemoveSound
<1>2. Keyed(c.data)
  BY <1>1, Places DEF Keyed, Buckets, Trees
<1>3. r = [c EXCEPT !.indexes = [p \in Patterns |->
                                   IF c.indexes[p] = Nil THEN Nil
                                   ELSE ReplaceOrInsert(c.indexes[p], Ord(p, e), e)]]
  BY DEF UndoRemove
<1>4. e.k \in Keys /\ c.data[e.k] = e /\ Nil \notin Entries
  BY <1>1, Places, EntriesAssumption DEF Buckets, Trees
<1> HIDE DEF c, r
<1>5. PlacedAt(c, e)
  BY <1>1, <1>4 DEF Placed
<1>6. /\ r.data = c.data /\ r.eviction = c.eviction /\ r.invalidation = c.invalidation
      /\ \A p \in Patterns :
           r.indexes[p] = IF c.indexes[p] = Nil THEN Nil
                          ELSE [c.indexes[p] EXCEPT ![Ord(p, e)] = e]
  BY <1>1, <1>3 DEF Buckets, ReplaceOrInsert
<1>7. /\ e.exp # Never => [c.eviction EXCEPT ![e.exp] = e] = c.eviction
      /\ e.inv # Never => [c.invalidation EXCEPT ![e.inv] = e] = c.invalidation
  BY <1>1, <1>5, Places DEF PlacedAt, Buckets, Trees
<1>8. /\ r.eviction = IF e.exp # Never THEN [c.eviction EXCEPT ![e.exp] = e]
                                       ELSE c.eviction
      /\ r.invalidation = IF e.inv # Never THEN [c.invalidation EXCEPT ![e.inv] = e]
                                           ELSE c.invalidation
      /\ \A p \in Patterns :
           \/ r.indexes[p] = Nil
           \/ c.indexes[p] # Nil /\ r.indexes[p] = [c.indexes[p] EXCEPT ![Ord(p, e)] = e]
           \/ c.indexes[p] # Nil /\ r.indexes[p] = c.indexes[p] /\ ~HasField(p, e)
  BY <1>6, <1>7
<1>9. /\ PlacedAt(r, e)
      /\ \A f \in Entries : f.k # e.k /\ PlacedAt(c, f) => PlacedAt(r, f)
  BY <1>1, <1>8, AttachPlaced
<1>10. ASSUME NEW j \in Keys, r.data[j] # Nil PROVE PlacedAt(r, r.data[j])
  <2>1. r.data[j] = c.data[j] /\ c.data[j] \in Entries /\ (c.data[j]).k = j
    BY <1>1, <1>2, <1>6, <1>10 DEF Buckets, Trees, Keyed
  <2>2. PlacedAt(c, c.data[j])
    BY <1>1, <1>6, <1>10 DEF Placed
  <2>3. CASE j = e.k
    BY <1>4, <1>9, <2>1, <2>3
  <2>4. CASE j # e.k
    BY <1>9, <2>1, <2>2, <2>4
  <2> QED
    BY <2>3, <2>4
<1> QED
  BY <1>10 DEF Placed, r

\* build finds every entry with the field: no other stands at its ordinal.
LEMMA BuildPlaced ==
  ASSUME Apart, NEW data \in Trees(Keys), Keyed(data), NEW p \in Patterns,
         NEW k \in Keys, data[k] # Nil, HasField(p, data[k])
  PROVE  build(data, p)[Ord(p, data[k])] = data[k]
<1> DEFINE o == Ord(p, data[k])
           same == {j \in Keys : data[j] # Nil /\ HasField(p, data[j]) /\ Ord(p, data[j]) = o}
<1>1. \A j \in Keys : data[j] # Nil => data[j] \in Entries /\ (data[j]).k = j
  BY DEF Trees, Keyed
<1>2. o \in Ordinals
  BY <1>1, Places
<1>3. same = {k}
  BY <1>1 DEF Apart
<1>4. (CHOOSE j \in same : \A i \in same : i <= j) = k
  <2>1. k \in Int
    BY KeysAssumption
  <2>2. \E j \in same : \A i \in same : i <= j
    BY <1>3, <2>1
  <2> QED
    BY <1>3, <2>2
<1>5. build(data, p)[o] = IF same = {} THEN Nil
                          ELSE data[CHOOSE j \in same : \A i \in same : i <= j]
  BY <1>2 DEF build
<1> QED
  BY <1>3, <1>4, <1>5

-----------------------------------------------------------------------------
(* The theorems *)

LEMMA TxPlaced ==
  ASSUME Apart, IInv, Placed(bkt), NEW t \in Txs, TxStep(t)
  PROVE  Placed(bkt')
<1>1. bkt \in Buckets /\ Keyed(bkt.data) /\ Keyed(tx[t].backward) /\ tx[t] \in TxRecords
  BY DEF IInv, TypeOK, TreesInv, KeyedContexts
<1>2. ASSUME NEW e \in Entries, Set(t, e) PROVE Placed(bkt')
  BY <1>1, <1>2, InsertPlaced DEF Set
<1>3. ASSUME NEW k \in Keys, Delete(t, k) PROVE Placed(bkt')
  BY <1>1, <1>3, DeletePlaced DEF Delete
<1>4. ASSUME NEW q \in Patterns, CreateIndex(t, q) PROVE Placed(bkt')
  <2> DEFINE tree == build(bkt.data, q)
  <2>1. /\ bkt.data \in Trees(Keys)
        /\ \A k \in Keys : bkt.data[k] # Nil /\ HasField(q, bkt.data[k]) =>
                             tree[Ord(q, bkt.data[k])] = bkt.data[k]
    <3>1. bkt.data \in Trees(Keys)
      BY <1>1 DEF Buckets
    <3> QED
      BY <1>1, <3>1, BuildPlaced
  <2> HIDE DEF tree
  <2>2. bkt' = [bkt EXCEPT !.indexes[q] = tree]
    BY <1>4 DEF CreateIndex, tree
  <2>3. /\ bkt'.data = bkt.data /\ bkt'.eviction = bkt.eviction
        /\ bkt'.invalidation = bkt.invalidation
        /\ \A p \in Patterns : bkt'.indexes[p] = IF p = q THEN tree ELSE bkt.indexes[p]
    BY <1>1, <2>2 DEF Buckets
  <2>4. ASSUME NEW k \in Keys, bkt.data[k] # Nil PROVE PlacedAt(bkt', bkt.data[k])
    <3>1. PlacedAt(bkt, bkt.data[k])
      BY <2>4 DEF Placed
    <3> QED
      BY <2>1, <2>3, <2>4, <3>1 DEF PlacedAt, IndexNames
  <2> QED
    BY <2>3, <2>4 DEF Placed
<1>5. ASSUME NEW q \in Patterns, DropIndex(t, q) PROVE Placed(bkt')
  <2>1. bkt' = [bkt EXCEPT !.indexes[q] = Nil]
    BY <1>5 DEF DropIndex
  <2>2. /\ bkt'.data = bkt.data /\ bkt'.eviction = bkt.eviction
        /\ bkt'.invalidation = bkt.invalidation
        /\ \A p \in Patterns : bkt'.indexes[p] = IF p = q THEN Nil ELSE bkt.indexes[p]
    BY <1>1, <2>1 DEF Buckets
  <2> QED
    BY <2>2 DEF Placed, PlacedAt, IndexNames
<1>6. ASSUME NEW k \in Keys, rollbackEntry(t, k) PROVE Placed(bkt')
  <2>1. CASE tx[t].backward[k] = Nil
    BY <1>1, <1>6, <2>1, UndoInsertPlaced DEF rollbackEntry
  <2>2. CASE tx[t].backward[k] # Nil
    <3>1. tx[t].backward[k] \in Entries
      BY <1>1, <1>6, <2>2 DEF rollbackEntry, TxRecords, RbCtx
    <3> QED
      BY <1>1, <1>6, <2>2, <3>1, UndoRemovePlaced DEF rollbackEntry
  <2> QED
    BY <2>1, <2>2
<1>7. ASSUME bkt' = bkt PROVE Placed(bkt')
  BY <1>7
<1> QED
  BY <1>2, <1>3, <1>4, <1>5, <1>6, <1>7
  DEF TxStep, startTx, IterStart, IterEnd, commitTx, startRollback, endRollback

LEMMA NextPlaced ==
  ASSUME Apart
  PROVE  IInv /\ Placed(bkt) /\ [Next]_vars => Placed(bkt)'
<1> SUFFICES ASSUME IInv, Placed(bkt), [Next]_vars PROVE Placed(bkt')
  BY DEF Placed, PlacedAt, IndexNames
<1>1. CASE evict
  <2> DEFINE eitem == MinItem(bkt.eviction)
  <2>1. bkt \in Buckets /\ Keyed(bkt.data) /\ bkt.eviction \in Trees(Times)
    BY DEF IInv, TypeOK, TreesInv, Buckets
  <2>2. eitem \in Entries
    <3>1. Occupied(bkt.eviction) # {}
      BY <1>1, <2>1, OccupiedCount DEF evict, IInv, TypeOK
    <3> QED
      BY <2>1, <3>1, MinItemIn
  <2>3. bkt' = IF IsExpired(eitem) THEN delete(bkt, eitem.k) ELSE bkt
    BY <1>1 DEF evict
  <2> HIDE DEF eitem
  <2> QED
    BY <2>1, <2>2, <2>3, Places, DeletePlaced
<1>2. CASE \E t \in Txs : TxStep(t)
  BY <1>2, TxPlaced
<1>3. CASE Tick \/ managerWait \/ managerLock \/ evictDone \/ invalidate \/ UNCHANGED vars
  <2>1. bkt' = bkt
    BY <1>3 DEF Tick, managerWait, managerLock, evictDone, invalidate, vars
  <2> QED
    BY <2>1
<1> QED
  BY <1>1, <1>2, <1>3 DEF Next, manager

LEMMA PlacedInvariance ==
  ASSUME Apart
  PROVE  Spec => []Placed(bkt)
<1>1. Init => Placed(bkt)
  BY DEF Init, Placed, newBucket, EmptyTree
<1>2. IInv /\ Placed(bkt) /\ [Next]_vars => Placed(bkt)'
  BY NextPlaced
<1> QED
  BY <1>1, <1>2, Invariance, PTL DEF Spec

\* When no two keys share a deadline or a number, every current entry is in the
\* trees of the manager, whatever clients write or roll back and whatever the
\* manager evicts.
THEOREM DeadlinesAreComplete ==
  ASSUME Apart
  PROVE  Spec => []DeadlinesComplete
<1>1. Placed(bkt) => DeadlinesComplete
  BY DEF Placed, PlacedAt, DeadlinesComplete
<1> QED
  BY <1>1, PlacedInvariance, PTL

\* For the same entries, every current entry is in each index over a field it
\* has, indexes that are created, dropped or written through by rollbacks too.
THEOREM IndexesAreComplete ==
  ASSUME Apart
  PROVE  Spec => []IndexesComplete
<1>1. Placed(bkt) => IndexesComplete
  BY DEF Placed, PlacedAt, IndexesComplete
<1> QED
  BY <1>1, PlacedInvariance, PTL
=============================================================================
