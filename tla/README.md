# A formal model of StitchDB

StitchDB is an in-memory key-value store with secondary indexes, expiry,
invalidation and geo search, persisted by append-only files. This directory
holds TLA+ modules of its parts, the TLC configurations that check them on small
instances, and proofs of the main safety properties for every instance. File
and line references are to `src/`.

## The system

| Component | State | Operations | Where |
|---|---|---|---|
| Bucket trees | five structures over the same entries: `data` by key, `eviction` by expiry, `invalidation` by invalidation time, one tree per index by field value, the R-tree | `insert`, `delete`, `Index.insert/delete/build` | `bucket.go:247-332`, `index.go`, `entry.go:79-116` |
| Transactions | mode, rollback context (`backward`, `backwardIndex`, `forward`), the iterating flag | `Get`, `Set`, `Delete`, `CreateIndex`, `DropIndex`, the iterations, `commitTx`, `rollbackTx` | `tx.go` |
| Bucket manager | one goroutine for each bucket | at each tick: flush, compaction, eviction, invalidation | `bucket.go:384-457` |
| Database | `open`, the map of buckets, `dblock` | `Open`, `Close`, `View`, `Update`, `CreateBucket`, `DropBucket`, `runManager` | `db.go` |
| Bucket log | `aofbuf`, the `.stitch` file and its offset, the temporary file of a compaction | `writeAOFBuf`, `loadBucketFile`, `compactLog`, `close` | `bucket.go:70-234, 384-421, 460-504` |
| Bucket registry | `sbkt.conf` and its count of statements | `Open`, `readConfigFileBuckets`, `CreateBucket`, `DropBucket`, the rewrite in `runManager` | `db.go:70-174, 215-278, 355-432` |
| Statements and options | none | conversions of entries and options to statements and back | `entry.go:161-217`, `entry_options.go`, `bucket_options.go` |
| Geo search | the R-tree | intersection, radius, nearest neighbours | `tx.go:466-563`, `rtree_util.go` |

How they meet: a client calls `View` or `Update` with a function. The call holds
the read lock of the database to its end, takes the lock of the bucket (shared
for a View, exclusive for an Update), runs the function, then commits or rolls
back. A commit writes one statement for each changed key to the log. Both ends
call `Update` on the bucket `_sysperf` while the first read lock is still held.
The manager of a bucket takes the bucket's lock at each tick; `runManager` takes
that of the database; `CreateBucket`, `DropBucket` and `Close` take the database
lock exclusively and, to close a bucket, its own.

What is hard:

* one logical write touches up to five structures that identify an entry by
  different things, and the manager acts on one structure (the eviction tree)
  by deleting from another (by key);
* a rollback replays saved entries in the random order of a Go map;
* goroutines interleave around two levels of read/write locks, one of which is
  taken twice by the same goroutine;
* flags are read without their lock (`db.open`), and the end of the database is
  noticed by goroutines only at their next tick;
* the log and the registry are written, cut, truncated, removed and renamed in
  steps between which the machine can stop or a call can fail;
* an entry is written to the log with coarser deadlines than it has, again and
  again, over restarts and compactions.

What makes each component correct:

* trees: what a derived tree holds is current and in place; what is in the main
  tree and has a deadline, field or coordinates is in the derived ones;
* transactions: all or nothing, in memory and in the log; readers see one state;
  no change under an iteration;
* manager: invisible to readers; every expired entry leaves in the end;
* database: a transaction never meets a closed bucket; calls return and give
  every lock back; goroutines end after Close;
* log and registry: what was synced is there after a crash, with a beginning of
  what came after; nothing comes back that was never there;
* statements: what is written reads back, no deadline is prolonged;
* geo search: nothing beyond the radius, nothing within it missed.

`PROJECT.json` lists every hazard with its line and the properties aimed at it.

## Modules

```
BucketTrees <-- BucketTx ---implements---> AtomicBucket        one bucket in memory
                   ^-- MCBucketTx (TLC)
                   ^-- BucketTxProofs <-- BucketAtomicProofs

DbLocks <-- MCDbLocks (TLC), DbLocksProofs                     goroutines and locks

AppendFile <--+-- BucketLog ---implements---> DurableMap       one bucket on disk
Statements <--+      ^-- MCBucketLog (TLC)
                     ^-- BucketLogProofs <-- BucketDurableProofs

AppendFile <----- BucketRegistry <-- MCBucketRegistry (TLC),   the set of buckets on disk
                                     BucketRegistryProofs

AppendFile <-- AppendFileProofs     lemmas that BucketLogProofs, BucketRegistryProofs use

GeoRadius <-- MCGeoRadius (TLC), GeoRadiusProofs               the radius search
```

**BucketTrees** has the data structures and the pure operations on them, in the
order the code performs them. A tree is a function from what it is ordered by to
the entry it holds there, or `Nil`: a B-tree with the comparator of
`entry.go:79` can hold only one item per ordering value, which is the whole
of the library's behaviour that matters here. `Rank` is the number `gjson` reads from
a field (`index.go:47-57`: numbers and, with the same comparison, strings
declared STRING; a missing field and a word read as 0), so different values can
stand at one place. Coordinates are a Boolean: whether the value has `coords`,
which is what the code asks before it touches the R-tree. An `Index` of an
unknown type, which compares strings, is an instance with an injective `Rank`.

**BucketTx** has one bucket with its lock, its client goroutines (`tx`), its
manager (`mgr`) and the clock. The actions are named after the functions. A
transaction's writes are steps of their own, so that everything that may
happen between them does; `rollbackTx` is one step for each key, in any order;
the manager's loops are one step for each round, with the clock free to move in
between. `logged` is what a replay of the statements written so far would
give; the bytes and the file are in BucketLog. `before` in a transaction and
`n`, `at` in `mgr` are history variables that no action reads. `backwardIndex`
is left out because no code reads it. Three constants restrict clients, never
the code: `Rewrites` (may a transaction write a key twice), `ViewersWrite` (may a
function passed to `View` write) and `MaxDepth` (nested iterations).

**AtomicBucket** is the specification a user would write: a map that changes as
a whole at a commit, or by losing an expired entry, and a log that covers it.
`BucketTx!Implements` states that the bucket implements it; the refinement
mapping takes the contents without the changes of the writer under way
(`Store`).

**DbLocks** has the goroutines of an open database and the locks they share:
each step is one lock operation or the code between two of them. A
`sync.RWMutex` is modelled with its two phases, since it is the announced writer
that keeps new readers out. A client holds the database lock as `<<client,
level>>`, level 2 being the nested `Update` on `_sysperf`. It begins when `Open`
has returned: no manager runs yet. The goroutine that `Open` has left to start
them (`db.go:155`) ranges over `db.buckets` without a lock (`db.go:268-276`,
`startSystem`, `startBucket`, `startDone`) while clients already call
`CreateBucket`, which starts a manager too (`db.go:397`), or `Close`. A manager
is therefore a pair of a bucket and of who started it, and a bucket may have two.
(Go may notice the race on the map and abort the process, and nothing follows
then.) `SyncAtTicks` stands for `syncFreq = MNGFREQ`, `Calls` for what each client
may call. `_sys` is left out: to the locks it is one more bucket that nobody
drops. `Overlap` says whether a writer may ask for the database lock while a
transaction is under way. One bucket name is enough: buckets of different names
meet in the database lock only. Persistence is on (without it `Bucket.close`
leaves the bucket open, and the properties are weaker claims), and so is the
performance monitor (without it `Close` panics at a nil bucket, `db.go:192`).

**AppendFile** is an `*os.File`: contents, offset, and the set `crash` of the
contents the disk may have if the machine stops now. A write adds the lengths to
which it can be cut, a sync leaves one. A line, of the log or of `sbkt.conf`, is
four units, and is read where the four stand in a row (`Whole`, `WholeStmts`).

**Statements** has the conversions: a key or value is the sequence of its pieces
between tildes, since a statement is taken apart at every tilde, and times are
ticks of which a statement keeps the whole seconds.

**BucketLog** is the file of one bucket and everything that touches it. A
statement is four units long, so that a cut can fall in its length line, after
it, in its body, or between the body and its newline, which are the cases
`loadBucketFile` tells apart; `ReadFrom` says which statements it reads of such a
file, and how the reading ends, out of step too when statements overlap.
`versions` is history: the contents at the last sync and after each statement
since. `damaged` is history as well: which of `Harms` has happened, the events
after which the log may be less than the bucket because the code has no guard
for them. There are seven, and no behaviour is left out for them:

| Harm | What happens | Where |
|---|---|---|
| misplaced | statements are written elsewhere than after the last one: at the beginning, where the offset is after a compaction, or after a part of a statement | `bucket.go:499`, `bucket.go:92` |
| remainder | a compaction removes the file, and the new one lacks the last buffer of at most 1 MiB | `bucket.go:472` |
| leftover | it does, and the new one ends with a part of an earlier temporary file | `bucket.go:463` |
| no file | a crash comes between the removal and the renaming | `bucket.go:487` |
| length | a crash cuts a length off from its newline, and the load gives up its batch | `bucket.go:86` |
| dropped | the manager gives up a buffer whose write has failed | `bucket.go:401` |
| twice | a failing write has taken two statements about a key, and is repeated | `bucket.go:160` |

Each is recorded in the step in which it does its harm, no earlier: a clean close
after a compaction, a commit that a failed compaction precedes, a restart on a
cut log or a short leftover file are not among them.

**DurableMap** is what a log should promise: a crash leaves the contents of the
last sync and a beginning of the statements since. `BucketLog!Implements` maps
`up` to "there is a process", `versions` to itself and `broken` to `damaged # {}`,
so the abstract Crash and Close say what the next process must read. The promise
ends with the first harm (`Breaks`).

**BucketRegistry** is `sbkt.conf`: the lines of CREATE and DROP, the reading in
`Open`, the rewrite of `runManager` write by write, and crashes at every step
and within every line. A line has its last character as a unit of its own, for a
line cut there still parses, as one about a shorter name or with other
dimensions (`Cut`). `stuck` is a process whose Open has returned an error
with the database lock held (`db.go:127`).

**GeoRadius** runs `SearchWithinRadius` over a tree of up to `MaxLeaves` leaves
whose contents and order the library chooses. What the R-tree library does with
a rectangle of another dimension than the square is not in the repository: in a
leaf that has one the search may panic (`searchPanics`), or get to the filter,
which expects such an entry and aborts the leaf (`tx.go:509`).

Operators named `x_y`, defined just before `x`, are `x` with a plausible
mistake `y`; no specification uses them. They are there to be exchanged for
`x`, upon which the property named in `PROJECT.json` must fail.

## Checks

| Run | What it asks | Result |
|---|---|---|
| `meeting` | derived trees hold only current entries, the R-tree is exact, the manager is invisible, an eviction pass removes half of what has expired; 3 keys sharing deadlines and values | holds |
| `isolation` | stable Views, no change under an iteration, rollback restores the contents, the log covers the contents, refinement of AtomicBucket; 2 clients | holds |
| `apart` | no entry is missing from a derived tree when entries do not meet at one ordering value; every expired entry leaves once writers stop | holds, the latter under fairness |
| `locks_safety` | open to the end of a transaction, writers alone in a bucket, no lock held after a call, none in the way after a manager's end; 2 clients, all operations, managers that are still being started | holds |
| `locks_progress` | every View and Update returns while no writer arrives during a transaction; after Close a manager of every bucket ends; CreateBucket and Close | holds under fairness |
| `log` | the log implements DurableMap, some file has the contents at every moment, inside a compaction too, the file with the buffer gives them, nothing acknowledged waits for a sync with EACH, no deadline is later after a restart; 3 processes, 2 statements, 2 failing calls, all sync policies | holds up to the first of `Harms` |
| `registry` | the file gives the buckets, a crash outside a rewrite loses nothing synced, one inside forgets but never invents; 3 processes, 4 calls | holds |
| `radius` | nothing beyond the radius is returned, nothing within it missed but in leaves with another dimension | holds, unless the library panics |
| `rewrite` | RollbackRestores with a key written twice in a transaction | fails: `tx.go:347` |
| `locks_recursion` | calls return, with writers arriving any time | fails: `tx.go:120` |
| `log_compaction` | the file that a compaction leaves has the contents of the bucket | fails: `bucket.go:472` |
| `radius_boundary` | an entry exactly on the radius is found if and only if the inclusive option is not set, as the comment at `tx.go:482-485` says | fails: `tx.go:526` |

A failing run is one whose property a comment of the repository states;
`findings` in `PROJECT.json` quotes it.

### What the constants delimit

Each property above holds within limits that are constants of the modules, and
each limit is one of the code. Changing a constant shows it:

| Constant | Property that fails then | Why |
|---|---|---|
| `Rewrites = TRUE` | `RollbackRestores` | the second write of a key overwrites what is saved for it (`tx.go:347`); run `rewrite` |
| `ViewersWrite = TRUE` | `ReadersStable` | Set and Delete do not look at the mode of the transaction (`tx.go:339`) |
| `MaxDepth = 2` | `NoWriteWhileIterating` | the end of an inner iteration clears the flag of the outer one (`tx.go:173`) |
| entries that share a deadline or field value, in `apart` | `DeadlinesComplete`, `IndexesComplete` | the trees keep one entry at each place (`bucket.go:282`, `index.go:85`) |
| `Overlap = TRUE` | `CallsReturn` | the nested read lock (`tx.go:120`); run `locks_recursion` |
| `SyncAtTicks = TRUE` | `CallsReturn` | after Close the sync of a nil file fails and `runManager` keeps the lock (`db.go:259`) |
| `SplitNames` not empty | `BucketsAreRegistered` | a name with a colon is written and not read back (`bucket_options.go`) |

Two limits are in the properties themselves. `RestartKeeps` allows that a CREATE
or DROP line cut before its last character is read as one about a shorter name
or with other dimensions (`db.go:98-107` counts the parts and no more), and that
`Open` refuses the file. The properties of the log end with the first of
`Harms`; `LogPlusBuffer` and `NeverProlonged` also hold after "twice", which does
no harm without a crash. No harm is there without need: if one of the seven is not
recorded, TLC finds `KeepsCopy`, `LogPlusBuffer` or `Implements` violated, in the
instance of `log`, or for "twice" in one with three statements.

Smaller divergences found while reading, which need no model: `rollbackTx` never
looks at `backwardIndex`, so that a failed transaction leaves the indexes it
created and lacks those it dropped (`tx.go:60-74`, against `tx.go:23-25`);
MNGFREQ does not sync the log, since only a non-empty
buffer leads to a sync and a commit empties it (`bucket.go:396`, against
`config.go:18`); `Close` "waits until all bucket managers have exited"
(`db.go:176`) and does not (`db.go:209`); of two managers of one bucket the second
never ends after Close, for the first has left with the lock (`bucket.go:391`);
`CreateBucket` of a name that exists returns no error, for it
annotates a nil one (`db.go:364`); a STRING_INDEX compares its fields as numbers
(`index.go:57`); `Min` and `Max` of an empty tree panic (`tx.go:430`).

### Bounds

* Keys: 2 or 3. Three in `meeting`, so that one deadline can be taken by a
  second key and given up by a third event. Every derived structure relates an
  entry to at most one other at its place, so two keys meet in all the ways
  there are; the theorems cover the rest.
* Deadlines 0, 1, 2 and the clock up to `MaxTime = 2`: each entry can be alive,
  exactly at its time, and past it (the comparison is strict), except that a
  deadline of 2 stays alive.
* Field values: two numbers, a word (which reads as 0) and a missing field.
* One index pattern; indexes do not affect each other.
* `MaxDepth` 0 or 1: no iteration, or one.
* Clients: one or two. A third adds no kind of conflict to a lock.
* `Bkts`: how many times the bucket's name is created. Two in `locks_safety`, so
  that it is dropped and made again while the manager of the first still runs;
  one in `locks_progress`, which drops none.
* `Calls`: in `locks_safety` one client makes the bucket and the other drops it
  or closes the database, both at any time; in `locks_progress` one makes it and
  the other closes the database. Two managers of one bucket are in both.
* `MaxStatements`: two in `log`, in one transaction or two, so that a transaction
  can be compacted, overwritten and cut in its middle, and a key written and
  deleted; `Chunk = 2`, `Batch = 2` and `CompactFactor = 1` make compactions with
  and without a remainder, and batches, happen within that. `Tears` has every
  place at which a statement can be cut. `Second = 2`, with deadlines on a second
  and between two.
* `MaxStarts`: two processes are a crash and what is read after it; the third, in
  `log` and `registry`, reads what a process that itself began on a cut file has
  left.
* `MaxFailures`: two failing calls, so that the write of a buffer that a failing
  write has left may fail too.
* `UpToHarm`, a constraint of `log`: nothing is explored after the first harm but
  "twice". The properties say nothing there, but for `TypeOK` and `EachDurable`,
  which are proved for all states.
* `rct` saturates where a larger count changes nothing (`Saturate`).
* `registry`: two names and two options, one of each the beginning of the
  other; `FileMultLimit = 2`, four calls: create, drop and create anew with other
  options, around a rewrite.
* `radius`: two leaves and at most four entries of a set with points inside, on
  and outside the circle and in the corner of the square: the filter looks at one
  entry at a time, and only an entry of another dimension acts on others.

Deadlock checking is off where a model ends by its bounds or by what it
describes: the two log runs and `registry` stop when no process may start any
more (or, in `registry`, when Open has failed and holds the lock), and a radius
search ends.

### Fairness

`BucketTx!Fairness`: functions passed to View and Update return (an
assumption on the client, strong because a function may iterate again and
again before it does), rollback and manager steps are ordinary code, and the
ticker fires. The manager's lock needs only weak fairness, because a waiting
writer keeps new readers out. Nothing makes a client begin a transaction.

`DbLocks!Fairness`: a goroutine that is again and again able to go on does.
Where it waits for a lock this is what `sync.RWMutex` provides: readers kept out
by a writer enter when it leaves, before the next writer, and writers queue in
order. The goroutine that starts the managers waits for nothing. Clients need not call
anything. `Overlap = FALSE` is an assumption of `locks_progress`, not of the
code: with `SyncAtTicks = FALSE` it shows that the nested read lock is the only
reason for which a call can hang there, `locks_recursion` being what happens
without it.

The log, the registry and the radius search are checked for safety only.

## Proofs

Every safety property of a passing run is a theorem: invariants, action
properties and both refinements, for every value of the constants but for the
conditions named in the table. `BucketTxProofs` begins with the lemmas about the
trees (`insert`, `delete`, `Displace` and `build` keep types, `SoundDeadlines`,
`SoundIndexes` and `ExactGeo`), `BucketLogProofs` with those about statements;
`AppendFileProofs` has lemmas only.

| Theorem | Property |
|---|---|
| `TypeCorrect` | `BucketTx!TypeOK` |
| `DeadlinesAreSound` | `DeadlinesSound` |
| `IndexesAreSound` | `IndexesSound` |
| `GeoIsExact` | `GeoExact` |
| `LockExcludes` | the lock of the bucket excludes |
| `ManagerIsInvisible` | `ManagerInvisible` |
| `ViewsAreStable` | `ReadersStable`, if functions passed to View do not write |
| `CyclesEvictHalf` | `PassEvictsHalf` |
| `DeadlinesAreComplete`, `IndexesAreComplete` | `DeadlinesComplete`, `IndexesComplete`, if entries of different keys never meet |
| `RollbacksRestore` | `RollbackRestores`, if no key is written twice in a transaction and no View writes |
| `NoWritesUnderIteration` | `NoWriteWhileIterating`, for the same clients, if iterations do not nest |
| `LogIsCovered` | `LogCovers`, for the same clients |
| `BucketIsAtomic` | `Implements`, the refinement of AtomicBucket, for the same clients |
| `LockTypes` | `DbLocks!TypeOK` |
| `TransactionsSeeOpen` | `TxSeesOpen` |
| `WritersAreAlone` | `BucketExclusion` |
| `CallsGiveLocksBack` | `IdleHoldsNothing` |
| `KeptLocksAreUnused` | `EndedInNobodysWay` |
| `RegistryTypes` | `BucketRegistry!TypeOK` |
| `Registration` | `BucketsAreRegistered`, if no name has a colon |
| `NothingInvented` | `NoneInvented` |
| `RestartFindsVersion` | `RestartKeeps` |
| `ResultsAreWithin`, `ResultsAreComplete` | `NothingBeyond`, `NothingMissed` |
| `BoundaryWithOption` | an entry with a tolerance exactly on the radius is found if and only if the inclusive option is set |
| `LogTypes` | `BucketLog!TypeOK` |
| `EveryCommitSynced` | `EachDurable` |
| `FileAndBuffer` | `LogPlusBuffer`, if no text has a tilde (`Plain`) |
| `AlwaysACopy` | `KeepsCopy`, if `Plain` |
| `DeadlinesKept` | `NeverProlonged`, if `Plain` |
| `LogIsDurable` | `Implements`, the refinement of DurableMap, if `Plain` |
| `InsertReadsBack`, `DeleteReadsBack` | a statement is read as what was written, deadlines to the second |
| `DeadlinesNeverLater` | a deadline read back is less than a second early and never late |
| `StoredOnceForAll` | what was read back once does not change when it is written again |

**The bucket.** All but ViewsAreStable rest on `Invariance`, the inductive
invariant `IInv`: the types; that a writer excludes every other transaction and
the manager's loops; that the rollback records and the main tree keep under a
key only entries of that key; and the soundness of the four derived structures.
The key part is needed because eviction and rollback delete by key: without it
the entry that a record puts back could belong to another key. Soundness of the
indexes is stated for entries that have the field only: a rollback forces
entries without the field into the trees (`tx.go:70`), and `Index.delete` does
not find them (`index.go:96`), so the general statement is false.
`ManagerIsInvisible` follows from soundness of the deadlines: the entry at the
front of the eviction tree is the current entry of its key, so what the manager
deletes was already hidden from `Get`. `ViewsAreStable` adds to the invariant
that a View has nothing to roll back.
`CyclesEvictHalf` adds that the rounds made and the entries left are
together no more than what the loop found, unless all that had expired is gone.

*Completeness* (end of `BucketTxProofs`) assumes `Apart`: entries of different keys
have different deadlines and numbers, and no field reads as zero, for zero is
where a rollback puts and removes entries without the field. Then no operation
on one key reaches the place of another, which is an invariant by itself
(`Placed`).

*Atomicity* (`BucketAtomicProofs`) looks at a step only through what it does to
the main tree, the log and the transactions' records: ten effects, `StepEffects`
saying that there are no others. The invariant `AllTx` says that a key not
recorded in `backward` is as the transaction found it, that a recorded one is
recorded as it was found (this is what a second write of the key breaks), and
that `forward` has what the tree has for exactly the recorded keys. The owner of
a record is the writer, and there is one, so that the atomic bucket's contents
(the tree with the writer's records put back) change only when a commit drops
the records and when the manager evicts; no other effect changes them.
`Covered` relates them to the log. The assumptions are those of the run
`isolation`, and the runs `rewrite` and the table above show that none of them
can be dropped.

**The locks.** `LocksAccountedFor` proves the inductive invariant `IInv` of
DbLocks: the label at which a goroutine stands says exactly which locks it holds
or has asked for. `DbReaders` and `DbWriter` account for the database lock,
`BktLocks` for every bucket's (readers, announced and acquired writers, the
manager that ended and kept it), and `Passed` says that a client beyond its
checks still finds the database and its bucket open. `Passed` is the part that
is not local: it lasts because whatever changes `open` or `life` is done by the
writer of the database lock, whom the client's own read lock excludes; the
accounting is what makes this argument inductive. `EndedAfterClose` says that a
manager leaves its loop only when it finds the database closed; with `Passed`
that keeps the lock it leaves with out of every client's way. Nothing is assumed
of how many managers a bucket has. The four properties are read off the
invariant.

**The statements.** A statement of texts without a tilde has one part for each
field (`PartsOfStmt`), options parse back (`OptionsReadBack`), and `Unix` is a
floor (`WholeSeconds`), for deadlines before 1970 too.

**Files of lines** (`AppendFileProofs`). `InStep` says that every unit of a file
is the one that a sequence of lines has at its place. Then `WholeInStep`: what
is read is the statements of its lines, up to the last whole one. A write at the
end keeps a file in step wherever a crash cuts it (`WrittenAtEnd`); a line that
follows a cut one is out of step and stays so (`AfterCut`, `OutOfStepStays`).
A write over what is there, of the same beginning, is a write to the end
(`OverwriteSame`, `WrittenOver`).

**The registry.** The inductive invariant `IInv` of BucketRegistry has six parts:
types, and that lines go to the end of the file (`Typed`); until Open has found
a cut line, all that a crash may leave of the file is in step, and what the
process appends to ends with a newline (`InLines`); the file gives the buckets,
in a rewrite those already written (`FileGives`); the history ends with the
buckets (`LastVersion`); and, for each of the contents a crash may leave, the
buckets found again are of a version or of what a cut leaves of it
(`CrashMentions`, also in a rewrite and after a cut), outside a rewrite a whole
version or one with a single bucket cut (`CrashLeaves`). The last two are the
properties with the file of the next process in place of this one's, which is
what makes them inductive: a crash only picks one of these contents.

**The radius search.** `SearchInvariance`: what should be found has been found,
is left in the current leaf or is in a leaf to come. The step that needs an
argument is `searchLeaf`, which takes from the leaf what overlaps the square: an
entry within the radius is within it in each dimension, for a square is no more
than a sum of squares that has it (`DistanceSquared` is a recursive function,
and this is proved by the least dimension at which it would fail). What has been
found (`Found`) lies within the radius, or on it with the option set;
`BoundaryWithOption` puts the two together. The panic of the library is a step
after which nothing is returned.

**The log.** Three layers:

1. *Operators.* `Applied` is determined by the last statement about each key
   (`AppliedAt`, `AppliedIs`), which gives what the rest needs of it: one
   sequence after another (`AppliedConcat`), the same statements applied again
   (`AppliedAgain`, `AppliedOver`: why a buffer that is written twice does no
   harm, if no key is in it twice), a transaction's statements as the change of
   the primary tree (`AppliedPut`), and a compaction's (`AppliedCompact`).
   `LoadInStep` says what `loadBucketFile` makes of a file in step: all the whole
   statements, whatever batch they are in, unless a length without its newline
   ends it.
2. *Types and syncs.* `TInv` is inductive for any texts, tildes included; it
   adds to TypeOK where the steps of a compaction have which file. `DInv` says
   that without a failing call the file is open wherever it may be written,
   so that with EACH only a transaction about to be synced has unsynced
   statements.
3. *Contents.* `HInv` relates the history to the bucket: its last version is
   what the bucket holds. `CInv` says what the files hold: as long as none of
   `Harms` but "twice" has happened (`Sound`), `Holder` (the bucket's file, or
   the temporary one once `compactLog` has removed the former) has statements
   which with the buffer make the bucket's contents; a temporary file is what a compaction of these contents
   writes, and is synced before the other is touched. `KInv` says that whatever
   a crash can leave of `Holder`, and whatever the statements of the buffer will
   make of it one by one, is in the history. The buffer's part is what makes it
   inductive: the next write adds exactly these contents to what a crash can
   leave. `BucketLog!LogPlusBuffer`, `KeepsCopy` and `NeverProlonged` are read
   off. `StepDurable` is the refinement step by step: an Open reads the one
   version there is (`RecoveredInStep`), a commit extends the history
   (`VersionsGrow`), syncs and renames reduce it to its last version, and a crash
   to one of them (`CrashLeaves`); a step with which the first harm comes is a
   `Breaks`, and harms stay (`HarmsStay`). `LogIsDurable` is the refinement.

The one condition of these theorems is `Plain`: no key or value has a tilde,
where the load would split it (`bucket.go:146`). Compactions of any length, with
and without a last buffer that is not written, statements written after them,
crashes at any step and at any place of a statement, restarts on what is left of
the file and of a temporary file, and failing calls are all among the behaviours
they speak about. What they say ends where the log's own promise does, with the
first of `Harms`: each is recorded in the step that does the damage, and as the
list above shows none is there for the proof's convenience. A proof that dropped
one would prove something that TLC refutes.

Assumptions, all named in the module that declares the constants: keys are
ordered and any group of them has a last one; deadlines are finitely many
integers; a missing field reads as zero; sentinels differ from what they stand
beside; clients, buckets and `runManager` are different goroutines; pieces of
text are not numbers; a second has at least one tick.

Only model-checked: liveness (`ExpiredLeave`, `CallsReturn`, `ManagersEnd`;
fairness and ENABLED are beyond the prover), and the four properties that the
code violates. Where a definition recurs over data (`Whole`, `AllStmts`,
`DistanceSquared`) the prover has no induction to offer: the lemmas take the
least counterexample instead.

## Not modelled

* Methods that only read (`Min`, `Max`, `Has`, `Size`, the order of an
  iteration); `Get` stands for them.
* `SearchIntersect` and the nearest neighbours, which hand the call to the
  R-tree library; the rounding of coordinates and distances.
* Calls of the database from inside a transaction's function, and client calls
  on `_sys` and `_sysperf` by name.
* Writes to the temporary file of a compaction that fail: `compactLog` ignores
  their errors, and the log is then as lost as in `log_compaction`. The loss of
  a directory entry in a crash (no directory is synced).
* Failing calls on the registry file, but for the nil file in DbLocks: each
  leaves `runManager` with the lock, as `SyncAtTicks` shows.
* The old file of a dropped bucket, which a new bucket of the name loads
  (`db.go:414`): one sequence of calls, with nothing concurrent about it.
* An Update that changes nothing: all its commit can do is to write a buffer that
  still waits, as the next commit that changes something does.
* Configuration and system entries: records without behaviour.

## Plan and its state

1. BucketTrees, BucketTx, AtomicBucket and their proofs, the refinement
   included; DbLocks: done.
2. BucketLog, DurableMap, BucketRegistry, Statements, GeoRadius: done.
3. Proofs of DbLocks, BucketRegistry, GeoRadius and BucketLog, the refinement
   of DurableMap included: done.
4. Left: how much of the log is still read after a harm, statements overwritten
   at its beginning (`misplaced`) above all, of which the properties say nothing;
   the file a dropped bucket leaves to the next of its name (a
   composition of BucketRegistry with BucketLog), and failing calls on the
   registry file.
