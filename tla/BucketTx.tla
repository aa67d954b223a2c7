------------------------------ MODULE BucketTx -------------------------------
(***************************************************************************)
(* One open bucket shared by the transactions of client goroutines (tx.go) *)
(* and the bucket's manager goroutine (bucket.go:384-457).                 *)
(*                                                                         *)
(* Covered: the read/write lock of the bucket, Set, Delete, CreateIndex    *)
(* and DropIndex on all trees, the iterating flag, commit, rollback entry  *)
(* by entry in the random order of a Go map, eviction and invalidation     *)
(* with the clock moving between the steps.                                *)
(*                                                                         *)
(* Not covered: the statements' bytes and the file (logged is what a       *)
(* replay of the statements appended so far gives), the lock of the        *)
(* database, and backwardIndex, which the code fills and never reads.      *)
(* Entry objects are told apart by their values only.                      *)
(*                                                                         *)
(* An operator named x_y, just before the definition x, is x with the      *)
(* mistake y in it: the model checker must notice the exchange.            *)
(***************************************************************************)
EXTENDS BucketTrees

CONSTANTS
  Txs,           \* the client goroutines, one transaction each at a time
  Absent,        \* a key that is not in the map of a rollback context
  MaxTime,       \* bound on the clock
  MaxDepth,      \* bound on nested iterations of one transaction
  Rewrites,      \* may a transaction write a key a second time?
  ViewersWrite   \* may a function passed to View write?

ASSUME TxAssumption ==
  /\ Absent \notin Entries \cup {Nil}
  /\ MaxTime \in Nat
  /\ MaxDepth \in Nat
  /\ Rewrites \in BOOLEAN
  /\ ViewersWrite \in BOOLEAN

VARIABLES
  now,      \* the clock
  bkt,      \* the trees of the bucket
  flagged,  \* the entries whose invalid field the manager has set
  logged,   \* what the key holds once all statements written are replayed
  tx,       \* the transaction of each client
  mgr       \* the manager goroutine

vars == <<now, bkt, flagged, logged, tx, mgr>>

RbCtx == [Keys -> Entries \cup {Nil, Absent}]

NoChanges == [k \in Keys |-> Absent]

\* before is a history variable: the contents the transaction found when it got
\* its lock.  No action reads it.
TxRecords ==
  [pc : {"idle", "open", "rollback"}, mode : {"R", "RW"},
   backward : RbCtx, forward : RbCtx, iterating : BOOLEAN, depth : 0..MaxDepth,
   before : Trees(Keys)]

newTx(mode, b) ==
  [pc |-> "open", mode |-> mode, backward |-> NoChanges, forward |-> NoChanges,
   iterating |-> FALSE, depth |-> 0,
   before |-> b.data]

NoTx == [newTx("R", newBucket) EXCEPT !.pc = "idle"]

\* i is the counter of the eviction loop; n and at are history: the number of
\* entries in the eviction tree, and the time, when the lock was obtained.
Idle == [pc |-> "idle", i |-> 0, n |-> 0, at |-> 0]

TypeOK ==
  /\ now \in Nat
  /\ bkt \in Buckets
  /\ flagged \subseteq Entries
  /\ logged \in Trees(Keys)
  /\ tx \in [Txs -> TxRecords]
  /\ mgr \in [pc : {"idle", "waiting", "evict", "invalidate"}, i : Nat, n : Nat, at : Nat]

-----------------------------------------------------------------------------
(* Time, and what a reader may see *)

IsExpired(e) == e.exp # Never /\ e.exp < now

IsInvalid(e) == e \in flagged \/ (e.inv # Never /\ e.inv < now)

Get(k) ==
  IF bkt.data[k] = Nil \/ IsExpired(bkt.data[k]) \/ IsInvalid(bkt.data[k])
  THEN Nil
  ELSE bkt.data[k]

(* The lock of the bucket is held by every transaction that is not idle and by
   the manager in its loops.  A manager blocked in Lock keeps new readers out
   (sync.RWMutex). *)

Writing(t) == tx[t].pc # "idle" /\ tx[t].mode = "RW"

Reading(t) == tx[t].pc # "idle" /\ tx[t].mode = "R"

LockFree ==
  /\ mgr.pc \in {"idle", "waiting"}
  /\ \A t \in Txs : ~Writing(t) /\ ~Reading(t)

RLockFree_ignoresWriters == mgr.pc = "idle"

RLockFree ==
  /\ mgr.pc = "idle"
  /\ \A t \in Txs : ~Writing(t)

Init ==
  /\ now = 0
  /\ bkt = newBucket
  /\ flagged = {}
  /\ logged = EmptyTree(Keys)
  /\ tx = [t \in Txs |-> NoTx]
  /\ mgr = Idle

Tick ==
  /\ now < MaxTime
  /\ now' = now + 1
  /\ UNCHANGED <<bkt, flagged, logged, tx, mgr>>

-----------------------------------------------------------------------------
(* Transactions *)

startTx(t, mode) ==
  /\ tx[t].pc = "idle"
  /\ IF mode = "R" THEN RLockFree ELSE LockFree
  /\ tx' = [tx EXCEPT ![t] = newTx(mode, bkt)]
  /\ UNCHANGED <<now, bkt, flagged, logged, mgr>>

MayWrite_whileIterating(t, k) ==
  /\ tx[t].pc = "open"
  /\ ViewersWrite \/ tx[t].mode = "RW"
  /\ Rewrites \/ tx[t].backward[k] = Absent

\* What Set and Delete require.  Only the iterating flag is the code's; the two
\* constants restrict what the clients do.
MayWrite(t, k) ==
  /\ tx[t].pc = "open"
  /\ ~tx[t].iterating
  /\ ViewersWrite \/ tx[t].mode = "RW"
  /\ Rewrites \/ tx[t].backward[k] = Absent

Set_recordsReplacedOnly(t, e) ==
  /\ MayWrite(t, e.k)
  /\ bkt' = insert(bkt, e)
  /\ tx' = [tx EXCEPT ![t].backward[e.k] =
                         IF bkt.data[e.k] = Nil THEN @ ELSE bkt.data[e.k],
                      ![t].forward[e.k] = e]
  /\ flagged' = flagged \ {e}
  /\ UNCHANGED <<now, logged, mgr>>

\* A second write of a key overwrites what backward holds for it.
Set(t, e) ==
  /\ MayWrite(t, e.k)
  /\ bkt' = insert(bkt, e)
  /\ tx' = [tx EXCEPT ![t].backward[e.k] = bkt.data[e.k],
                      ![t].forward[e.k] = e]
  /\ flagged' = flagged \ {e}
  /\ UNCHANGED <<now, logged, mgr>>

Delete_unrecorded(t, k) ==
  /\ MayWrite(t, k)
  /\ bkt.data[k] # Nil
  /\ bkt' = delete(bkt, k)
  /\ UNCHANGED <<now, flagged, logged, tx, mgr>>

Delete(t, k) ==
  /\ MayWrite(t, k)
  /\ bkt.data[k] # Nil
  /\ bkt' = delete(bkt, k)
  /\ tx' = [tx EXCEPT ![t].backward[k] = bkt.data[k],
                      ![t].forward[k] = Nil]
  /\ UNCHANGED <<now, flagged, logged, mgr>>

CreateIndex(t, p) ==
  /\ tx[t].pc = "open"
  /\ ViewersWrite \/ tx[t].mode = "RW"
  /\ bkt.indexes[p] = Nil
  /\ bkt' = [bkt EXCEPT !.indexes[p] = build(bkt.data, p)]
  /\ UNCHANGED <<now, flagged, logged, tx, mgr>>

DropIndex(t, p) ==
  /\ tx[t].pc = "open"
  /\ ViewersWrite \/ tx[t].mode = "RW"
  /\ bkt.indexes[p] # Nil
  /\ bkt' = [bkt EXCEPT !.indexes[p] = Nil]
  /\ UNCHANGED <<now, flagged, logged, tx, mgr>>

\* Ascend, Descend and their kin set the flag, call the client's function for
\* each entry, and clear the flag when they return; the client's function may
\* start another iteration.
IterStart(t) ==
  /\ tx[t].pc = "open"
  /\ tx[t].depth < MaxDepth
  /\ tx' = [tx EXCEPT ![t].iterating = TRUE, ![t].depth = @ + 1]
  /\ UNCHANGED <<now, bkt, flagged, logged, mgr>>

IterEnd(t) ==
  /\ tx[t].pc = "open"
  /\ tx[t].depth > 0
  /\ tx' = [tx EXCEPT ![t].iterating = FALSE, ![t].depth = @ - 1]
  /\ UNCHANGED <<now, bkt, flagged, logged, mgr>>

commitTx_insertsOnly(t) ==
  /\ tx[t].pc = "open"
  /\ tx[t].depth = 0
  /\ tx[t].mode = "RW"
  /\ logged' = [k \in Keys |-> IF tx[t].forward[k] \in {Absent, Nil}
                               THEN logged[k] ELSE tx[t].forward[k]]
  /\ tx' = [tx EXCEPT ![t] = NoTx]
  /\ UNCHANGED <<now, bkt, flagged, mgr>>

\* The statements of forward, in any order: there is one for each key.
commitTx(t) ==
  /\ tx[t].pc = "open"
  /\ tx[t].depth = 0
  /\ tx[t].mode = "RW"
  /\ logged' = [k \in Keys |-> IF tx[t].forward[k] = Absent
                               THEN logged[k] ELSE tx[t].forward[k]]
  /\ tx' = [tx EXCEPT ![t] = NoTx]
  /\ UNCHANGED <<now, bkt, flagged, mgr>>

\* A View always ends in a rollback, an Update when the function failed.
startRollback(t) ==
  /\ tx[t].pc = "open"
  /\ tx[t].depth = 0
  /\ tx' = [tx EXCEPT ![t].pc = "rollback"]
  /\ UNCHANGED <<now, bkt, flagged, logged, mgr>>

\* After the delete, an entry with no value is removed from every index; after
\* the insert, the entry is put into every index, whether it has the field or
\* not.
UndoInsert(b, k) ==
  LET c == delete(b, k)
  IN  [c EXCEPT !.indexes = [p \in Patterns |->
                               IF c.indexes[p] = Nil THEN Nil
                               ELSE Remove(c.indexes[p], Rank[NoField])]]

UndoRemove(b, e) ==
  LET c == insert(b, e)
  IN  [c EXCEPT !.indexes = [p \in Patterns |->
                               IF c.indexes[p] = Nil THEN Nil
                               ELSE ReplaceOrInsert(c.indexes[p], Ord(p, e), e)]]

rollbackEntry(t, k) ==
  /\ tx[t].pc = "rollback"
  /\ tx[t].backward[k] # Absent
  /\ bkt' = IF tx[t].backward[k] = Nil
            THEN UndoInsert(bkt, k)
            ELSE UndoRemove(bkt, tx[t].backward[k])
  /\ tx' = [tx EXCEPT ![t].backward[k] = Absent]
  /\ UNCHANGED <<now, flagged, logged, mgr>>

endRollback(t) ==
  /\ tx[t].pc = "rollback"
  /\ tx[t].backward = NoChanges
  /\ tx' = [tx EXCEPT ![t] = NoTx]
  /\ UNCHANGED <<now, bkt, flagged, logged, mgr>>

-----------------------------------------------------------------------------
(* The manager of the bucket *)

managerWait ==
  /\ mgr.pc = "idle"
  /\ mgr' = [mgr EXCEPT !.pc = "waiting"]
  /\ UNCHANGED <<now, bkt, flagged, logged, tx>>

managerLock ==
  /\ mgr.pc = "waiting"
  /\ LockFree
  /\ mgr' = [pc |-> "evict", i |-> 0,
             n |-> Cardinality(Occupied(bkt.eviction)), at |-> now]
  /\ UNCHANGED <<now, bkt, flagged, logged, tx>>

evict_checksInvalid ==
  /\ mgr.pc = "evict"
  /\ mgr.i < Cardinality(Occupied(bkt.eviction))
  /\ bkt' = LET eitem == MinItem(bkt.eviction)
            IN  IF IsInvalid(eitem) THEN delete(bkt, eitem.k) ELSE bkt
  /\ mgr' = [mgr EXCEPT !.i = @ + 1]
  /\ UNCHANGED <<now, flagged, logged, tx>>

\* One round of the loop, whose bound is read again in each round.
evict ==
  /\ mgr.pc = "evict"
  /\ mgr.i < Cardinality(Occupied(bkt.eviction))
  /\ bkt' = LET eitem == MinItem(bkt.eviction)
            IN  IF IsExpired(eitem) THEN delete(bkt, eitem.k) ELSE bkt
  /\ mgr' = [mgr EXCEPT !.i = @ + 1]
  /\ UNCHANGED <<now, flagged, logged, tx>>

evictDone_early ==
  /\ mgr.pc = "evict"
  /\ mgr' = [mgr EXCEPT !.pc = "invalidate"]
  /\ UNCHANGED <<now, bkt, flagged, logged, tx>>

evictDone ==
  /\ mgr.pc = "evict"
  /\ mgr.i >= Cardinality(Occupied(bkt.eviction))
  /\ mgr' = [mgr EXCEPT !.pc = "invalidate"]
  /\ UNCHANGED <<now, bkt, flagged, logged, tx>>

\* Every round of the loop looks at the same first entry, which it flags and
\* leaves in the tree.
invalidate ==
  /\ mgr.pc = "invalidate"
  /\ flagged' = IF Occupied(bkt.invalidation) = {} THEN flagged
                ELSE LET eitem == MinItem(bkt.invalidation)
                     IN  IF IsInvalid(eitem) THEN flagged \cup {eitem}
                                             ELSE flagged
  /\ mgr' = Idle
  /\ UNCHANGED <<now, bkt, logged, tx>>

manager == managerWait \/ managerLock \/ evict \/ evictDone \/ invalidate

-----------------------------------------------------------------------------

TxStep(t) ==
  \/ \E mode \in {"R", "RW"} : startTx(t, mode)
  \/ \E e \in Entries : Set(t, e)
  \/ \E k \in Keys : Delete(t, k)
  \/ \E p \in Patterns : CreateIndex(t, p)
  \/ \E p \in Patterns : DropIndex(t, p)
  \/ IterStart(t)
  \/ IterEnd(t)
  \/ commitTx(t)
  \/ startRollback(t)
  \/ \E k \in Keys : rollbackEntry(t, k)
  \/ endRollback(t)

Next == Tick \/ manager \/ \E t \in Txs : TxStep(t)

Spec == Init /\ [][Next]_vars

(***************************************************************************)
(* The functions clients pass to View and Update return, the steps of a    *)
(* rollback and of a manager cycle are ordinary code, and the ticker keeps *)
(* firing.  WF for the manager's lock is enough, for its wait keeps new    *)
(* readers out.  SF for the end of a transaction: a function that iterates *)
(* again and again still comes to its end.                                 *)
(***************************************************************************)
Fairness ==
  /\ WF_vars(managerWait \/ managerLock)
  /\ WF_vars(evict \/ evictDone \/ invalidate)
  /\ \A t \in Txs :
       /\ SF_vars(commitTx(t) \/ startRollback(t))
       /\ WF_vars(IterEnd(t))
       /\ WF_vars(endRollback(t) \/ \E k \in Keys : rollbackEntry(t, k))

FairSpec == Spec /\ Fairness

-----------------------------------------------------------------------------
(* Properties of every history *)

\* The eviction and invalidation trees hold current entries of the bucket, each
\* at its own deadline: insert and delete never leave a replaced entry behind,
\* which the manager, deleting by key, would take for the entry that replaced it.
DeadlinesSound == SoundDeadlines(bkt)

\* An entry that an index holds and that has the indexed field is current and
\* stands where its field value puts it, through commits and rollbacks.
IndexesSound == SoundIndexes(bkt)

\* The R-tree of a geo bucket holds exactly the current entries with coordinates,
\* so that the searches miss nothing and find nothing deleted.
GeoExact == ExactGeo(bkt)

\* No step of the manager, evicting or flagging, changes what Get answers.
ManagerInvisible == [][mgr' # mgr => \A k \in Keys : Get(k)' = Get(k)]_vars

\* While a View runs nothing changes the bucket, so that it reads one state.
ReadersStable == [][(\E t \in Txs : Reading(t)) => bkt' = bkt]_vars

\* While a transaction iterates over a tree the bucket's entries do not change.
NoWriteWhileIterating ==
  [][(\E t \in Txs : tx[t].depth > 0) => bkt'.data = bkt.data]_vars

\* A cycle of the manager leaves at most half of the entries it found in the
\* eviction tree there when they had all expired, although the loop's bound
\* shrinks as the loop counts up.
PassEvictsHalf ==
  mgr.pc = "invalidate" =>
    2 * Cardinality({d \in Occupied(bkt.eviction) : d < mgr.at}) <= mgr.n

-----------------------------------------------------------------------------
(* Properties of clients that write a key at most once in a transaction *)

Ended(t) == tx[t].pc = "rollback" /\ tx'[t].pc = "idle"

\* A rollback returns the bucket's contents to what they were when the
\* transaction began, whatever the order it visits the keys in.
RollbackRestores ==
  [][\A t \in Txs : Ended(t) => bkt'.data = tx[t].before]_vars

\* When no writer holds the bucket, a replay of the log gives its contents, but
\* for expired entries that were evicted.
LogCovers ==
  (\A t \in Txs : ~Writing(t)) =>
    \A k \in Keys :
      \/ logged[k] = bkt.data[k]
      \/ bkt.data[k] = Nil /\ logged[k] # Nil /\ IsExpired(logged[k])

\* The contents without the changes of the writer that may be under way.
Store ==
  [k \in Keys |->
     IF \E t \in Txs : tx[t].backward[k] # Absent
     THEN tx[CHOOSE t \in Txs : tx[t].backward[k] # Absent].backward[k]
     ELSE bkt.data[k]]

AB == INSTANCE AtomicBucket WITH store <- Store, durable <- logged

\* The bucket implements the atomic one: each transaction takes effect as a
\* whole, in the contents and in the log, at its commit and nowhere else.
Implements == AB!Spec

-----------------------------------------------------------------------------
(* Properties of clients whose entries never meet at one ordinal *)

\* Each entry with a deadline is in the tree the manager looks for it.
DeadlinesComplete ==
  \A k \in Keys : LET e == bkt.data[k] IN
    e # Nil => /\ e.exp # Never => bkt.eviction[e.exp] = e
               /\ e.inv # Never => bkt.invalidation[e.inv] = e

\* Each entry with the field is in the index, where an iteration visits it.
IndexesComplete ==
  \A p \in IndexNames(bkt), k \in Keys : LET e == bkt.data[k] IN
    e # Nil /\ HasField(p, e) => bkt.indexes[p][Ord(p, e)] = e

\* Once no more writer comes, every expired entry leaves the bucket for good.
ExpiredLeave ==
  <>[](\A t \in Txs : ~Writing(t)) =>
    <>[](\A k \in Keys : bkt.data[k] # Nil => ~IsExpired(bkt.data[k]))
=============================================================================
