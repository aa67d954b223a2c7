------------------------------ MODULE BucketLog ------------------------------
(***************************************************************************)
(* The append only file of one bucket (bucket.go): what a commit, the      *)
(* manager, compactLog and close write to it, what a crash of the machine  *)
(* may leave of it, and what loadBucketFile makes of that.                 *)
(*                                                                         *)
(* Covered: the write buffer, the offset of the file, the sync policies,   *)
(* failing writes and syncs, statements cut by a crash, compaction step by *)
(* step with the temporary file, the batches of the load.                  *)
(*                                                                         *)
(* Not covered: the locks (each sequence of steps below that leaves idle   *)
(* and comes back holds the bucket's lock; see BucketTx and DbLocks), the  *)
(* derived trees and eviction (BucketTx), the loss of a directory entry.   *)
(* Persistence is on.                                                      *)
(*                                                                         *)
(* A statement is four units long: the digits of its length, the newline   *)
(* after them, the head and the end of its body, the latter with a newline *)
(* and cut off with more than that newline.                                *)
(*                                                                         *)
(* An operator named x_y, just before the definition x, is x with the      *)
(* mistake y in it: the model checker must notice the exchange.            *)
(***************************************************************************)
EXTENDS AppendFile, Statements, SequencesExt

CONSTANTS
  KeyOrder,        \* the keys, as texts, in the order of the primary tree
  Entries,         \* the entries clients write
  Freqs,           \* the values of syncFreq considered
  CompactFactor,   \* COMPACT_FACTOR
  Chunk,           \* how many statements make more than 1 MiB
  Batch,           \* how many statements are read before they are applied: 1024
  NoFile,          \* no file of that name
  Tears,           \* how many units of a cut statement a crash may leave
  MaxStatements,   \* bound on the statements clients write
  MaxStarts,       \* bound on the processes
  MaxFailures      \* bound on failing calls of the operating system

Keys == ToSet(KeyOrder)

\* A text is a sequence of pieces; the statements are too.
Text == Seq(Pieces)

EntryRecords == [k : Keys, v : Text, opts : EntryOptions, located : BOOLEAN]

ASSUME LogAssumption ==
  /\ KeyOrder \in Seq(Text)
  /\ Entries \subseteq EntryRecords /\ Nil \notin EntryRecords
  /\ NoFile \notin FilesOf(UnitsOf(Text))
  /\ Freqs \subseteq {"EACH", "MNGFREQ", "NONE"}
  /\ {CompactFactor, Chunk, Batch} \subseteq Nat \ {0}

VARIABLES
  freq,      \* config.syncFreq
  pc,        \* where the process is; "down" if there is none
  mem,       \* the primary tree
  aofbuf,    \* the write buffer, as statements
  rct,       \* the row count, up to the largest value that makes a difference
  fd,        \* is b.file open?
  stitch,    \* the file of the bucket
  tmp,       \* the temporary file of a compaction
  versions,  \* history: the contents at the last sync, and after each statement since;
             \* with no process, the contents that the next one will read
  damaged,   \* history: which of Harms has happened
  issued, starts, failures  \* history: what the bounds count

vars == <<freq, pc, mem, aofbuf, rct, fd, stitch, tmp, versions, damaged,
          issued, starts, failures>>

NoEntries == [k \in Keys |-> Nil]

(***************************************************************************)
(* What the code has no guard for, and after what the log may be less than *)
(* the bucket:                                                             *)
(*   "misplaced"  statements are written elsewhere than after the last one *)
(*                of the file: at the beginning, where the offset is after *)
(*                a compaction, or after a part of a statement, which a    *)
(*                crash or a failing write has left;                       *)
(*   "dropped"    the manager gives up a buffer whose write has failed;    *)
(*   "twice"      a failing write has taken two statements about a key,    *)
(*                and is repeated;                                         *)
(*   "remainder"  a compaction removes the file, and the new one lacks the *)
(*                last buffer of at most 1 MiB;                            *)
(*   "leftover"   it does, and the new one ends with a part of an earlier  *)
(*                temporary file;                                          *)
(*   "no file"    a crash comes before the new one is renamed;             *)
(*   "length"     a crash cuts a length off from its newline, and the load *)
(*                gives up its whole batch.                                *)
(* The properties say that these are all: without one of them the log does *)
(* its work.                                                               *)
(***************************************************************************)
Harms == {"misplaced", "dropped", "twice", "remainder", "leftover", "no file", "length"}

-----------------------------------------------------------------------------
(* Statements in the file *)

Units(stmts) ==
  [n \in 1..(4 * Len(stmts)) |-> <<stmts[(n - 1) \div 4 + 1], ((n - 1) % 4) + 1>>]

\* The lengths to which a crash or a failing call may cut a write of n units.
Cuts(n) == {m \in 0..n : m % 4 \in Tears \cup {0}}

IsCut(data) == Len(data) % 4 # 0

Ending_strict(data, p) ==
  CASE p + 3 <= Len(data) -> "lost"
    [] p <= Len(data) -> "bad"
    [] OTHER -> "eof"

\* How reading ends at p when no whole statement follows: with the file, a body that
\* is cut short included; in a line that is cut short; or out of step, where a
\* length is run together with the next one or followed by what is not its body.
Ending(data, p) ==
  CASE p + 3 <= Len(data) -> "lost"
    [] p <= Len(data) /\ \A i \in p..Len(data) : data[i][2] = 1 -> "bad"
    [] OTHER -> "eof"

\* The statements of the file, and how the reading of them ends.
ReadFrom(data) == [stmts |-> WholeStmts(data), end |-> Ending(data, 4 * Whole(data) + 1)]

\* The last statement about a key decides.
Applied(c, stmts) ==
  LET about(k) == {i \in DOMAIN stmts : NewEntryFromStmt(stmts[i]).k = k}
      after(s) == IF s[1] = INSERT THEN NewEntryFromStmt(s) ELSE Nil
  IN  [k \in Keys |-> IF about(k) = {} THEN c[k] ELSE after(stmts[Max(about(k))])]

\* How many statements a load applies.  A batch is dropped when a line of it is no
\* length, as may happen out of step, and applied otherwise, up to its first
\* statement that does not parse.
Counts(r) ==
  LET whole == (Len(r.stmts) \div Batch) * Batch
      reads == CASE r.end = "bad"  -> {whole}
                 [] r.end = "lost" -> {whole, Len(r.stmts)}
                 [] OTHER          -> {Len(r.stmts)}
  IN  {Min({n} \cup {i - 1 : i \in {j \in 1..n : ~Parses(r.stmts[j])}}) : n \in reads}

\* Where the reading may stand: it runs ahead of what is used, by a block.
Offsets(data, r) ==
  IF r.end = "lost" \/ \E s \in ToSet(r.stmts) : ~Parses(s)
  THEN 0..Len(data)
  ELSE {Len(data)}

Contents(stmts, n) == Applied(NoEntries, SubSeq(stmts, 1, n))

\* The contents a load gives, the least of them if there is a choice.
Recovered(file) ==
  LET r == ReadFrom(IF file = NoFile THEN <<>> ELSE file.data)
  IN  Contents(r.stmts, Min(Counts(r)))

\* What the bucket reads back of its entries.
Saved(c) == [k \in Keys |-> IF c[k] = Nil THEN Nil ELSE Stored(c[k])]

-----------------------------------------------------------------------------

Saturate(n) == Min({n, Cardinality(Keys) * CompactFactor + 1})

Length(c) == Cardinality({k \in Keys : c[k] # Nil})

MayFail == failures < MaxFailures

Fails == MayFail /\ failures' = failures + 1

Works == UNCHANGED failures

Harm(cond, what) == IF cond THEN {what} ELSE {}

Init ==
  /\ freq \in Freqs /\ pc = "down"
  /\ mem = NoEntries /\ aofbuf = <<>> /\ rct = 0 /\ fd = FALSE
  /\ stitch = NoFile /\ tmp = NoFile
  /\ versions = <<NoEntries>> /\ damaged = {}
  /\ issued = 0 /\ starts = 0 /\ failures = 0

\* openBucket and loadBucketFile.  Open drops the error of a load that fails, and
\* the bucket is open with what it has read.
openBucket ==
  /\ pc = "down" /\ pc' = "idle"
  /\ starts < MaxStarts /\ starts' = starts + 1
  /\ LET data == IF stitch = NoFile THEN <<>> ELSE stitch.data
         r    == ReadFrom(data)
     IN  \E n \in Counts(r), off \in Offsets(data, r) :
           /\ mem' = Contents(r.stmts, n)
           /\ rct' = Saturate(n)
           /\ stitch' = [Opened(data) EXCEPT !.off = off]
  /\ aofbuf' = <<>> /\ fd' = TRUE
  /\ versions' = <<mem'>>
  /\ UNCHANGED <<freq, tmp, damaged, issued, failures>>

-----------------------------------------------------------------------------
(* Transactions *)

\* What a transaction leaves in its forward map, in an order the map chooses.
Changes ==
  {<<e.k, e>> : e \in Entries} \cup {<<k, Nil>> : k \in Keys}

Forwards == {ch \in BoundedSeq(Changes, Cardinality(Keys)) :
               ch # <<>> /\ \A i, j \in DOMAIN ch : i # j => ch[i][1] # ch[j][1]}

Stmt(c) == IF c[2] = Nil THEN EntryDeleteStmt(c[1]) ELSE EntryInsertStmt(c[2])

Put(c, ch) ==
  [k \in Keys |-> IF \E i \in DOMAIN ch : ch[i][1] = k
                  THEN ch[CHOOSE i \in DOMAIN ch : ch[i][1] = k][2] ELSE c[k]]

Misplaced == stitch.off # Len(stitch.data) \/ IsCut(stitch.data)

\* The write of aofbuf by commitTx, the manager or close succeeds.
BufferWritten(buf) ==
  /\ fd
  /\ stitch' = Written(stitch, Units(buf), Cuts(4 * Len(buf)))
  /\ damaged' = damaged \cup Harm(Misplaced, "misplaced")
  /\ UNCHANGED failures

Twice(stmts) ==
  \E i, j \in DOMAIN stmts : i # j /\ NewEntryFromStmt(stmts[i]).k = NewEntryFromStmt(stmts[j]).k

\* It fails: the file is closed, or takes a part.
WriteFails(buf, kept) ==
  \/ /\ ~fd /\ UNCHANGED <<stitch, failures>>
     /\ damaged' = damaged \cup Harm(~kept, "dropped")
  \/ /\ fd /\ Fails
     /\ \E n \in Cuts(4 * Len(buf)) :
          /\ stitch' = Written(stitch, SubSeq(Units(buf), 1, n), Cuts(n))
          /\ damaged' = damaged \cup Harm(~kept, "dropped") \cup Harm(Misplaced, "misplaced")
                                 \cup Harm(Twice(SubSeq(buf, 1, n \div 4)), "twice")

Commit(ch, keepsBuffer) ==
  LET stmts == [i \in DOMAIN ch |-> Stmt(ch[i])]
      buf   == aofbuf \o stmts
  IN
  /\ pc = "idle"
  /\ issued + Len(ch) <= MaxStatements /\ issued' = issued + Len(ch)
  /\ mem' = Put(mem, ch)
  /\ rct' = Saturate(rct + Len(ch))
  /\ versions' = versions \o [i \in DOMAIN ch |-> Applied(Last(versions), SubSeq(stmts, 1, i))]
  /\ \/ /\ BufferWritten(buf)
        /\ aofbuf' = <<>>
        /\ pc' = IF freq = "EACH" THEN "commitSync" ELSE "idle"
     \/ /\ WriteFails(buf, TRUE)
        /\ aofbuf' = IF keepsBuffer THEN buf ELSE <<>>
        /\ UNCHANGED pc
  /\ UNCHANGED <<freq, fd, tmp, starts>>

commitTx_clearsBuffer(ch) == Commit(ch, FALSE)

\* writeAOFBuf keeps the buffer when its write fails, and commitTx does not look at
\* its error: the transaction has succeeded either way.
commitTx(ch) == Commit(ch, TRUE)

FileSynced ==
  /\ fd /\ Works
  /\ stitch' = Synced(stitch)
  /\ versions' = <<Last(versions)>>

SyncFails == (fd => Fails) /\ (~fd => Works) /\ UNCHANGED <<stitch, versions>>

commitSync_skipped ==
  /\ pc = "commitSync" /\ pc' = "idle" /\ Works
  /\ UNCHANGED <<freq, mem, aofbuf, rct, fd, stitch, tmp, versions, damaged, issued, starts>>

\* The error of the sync is dropped.
commitSync ==
  /\ pc = "commitSync" /\ pc' = "idle"
  /\ FileSynced \/ SyncFails
  /\ UNCHANGED <<freq, mem, aofbuf, rct, fd, tmp, damaged, issued, starts>>

\* A transaction that is rolled back counts n changes and their n reversals.
rollbackTx(n) ==
  /\ pc = "idle"
  /\ rct' = Saturate(rct + 2 * n)
  /\ UNCHANGED <<freq, pc, mem, aofbuf, fd, stitch, tmp, versions, damaged, issued, starts, failures>>

-----------------------------------------------------------------------------
(* The manager, and compactLog *)

\* The buffer is dropped, written or not.
managerFlush ==
  /\ pc = "idle" /\ aofbuf # <<>>
  /\ \/ BufferWritten(aofbuf)
     \/ WriteFails(aofbuf, FALSE)
  /\ aofbuf' = <<>>
  /\ pc' = IF freq \in {"EACH", "MNGFREQ"} THEN "flushSync" ELSE "check"
  /\ UNCHANGED <<freq, mem, rct, fd, tmp, versions, issued, starts>>

flushSync ==
  /\ pc = "flushSync" /\ pc' = "check"
  /\ FileSynced \/ SyncFails
  /\ UNCHANGED <<freq, mem, aofbuf, rct, fd, tmp, damaged, issued, starts>>

CompactionDue == rct > Length(mem) * CompactFactor

noCompaction ==
  /\ pc = "check" /\ ~CompactionDue
  /\ pc' = "idle"
  /\ UNCHANGED <<freq, mem, aofbuf, rct, fd, stitch, tmp, versions, damaged, issued, starts, failures>>

\* The statements of the entries, in the order of their keys.
AllStmts ==
  LET stmts[i \in 0..Len(KeyOrder)] ==
        IF i = 0 THEN <<>>
        ELSE IF mem[KeyOrder[i]] = Nil THEN stmts[i - 1]
        ELSE Append(stmts[i - 1], EntryInsertStmt(mem[KeyOrder[i]]))
  IN  stmts[Len(KeyOrder)]

\* Those that are written: the buffer is, each time it has grown over 1 MiB, and not
\* once more at the end.
CompactStmts == SubSeq(AllStmts, 1, (Len(AllStmts) \div Chunk) * Chunk)

\* The temporary file is opened as it is, and the errors of its writes are dropped.
compactWrite ==
  /\ pc = "check" \/ (pc = "idle" /\ aofbuf = <<>>)
  /\ CompactionDue
  /\ \/ /\ LET stmts == CompactStmts
               old   == IF tmp = NoFile THEN <<>> ELSE tmp.data
           IN  tmp' = Written(Opened(old), Units(stmts), Cuts(4 * Len(stmts)))
        /\ pc' = "tmpSync" /\ Works
     \/ Fails /\ pc' = "idle" /\ UNCHANGED tmp
  /\ UNCHANGED <<freq, mem, aofbuf, rct, fd, stitch, versions, damaged, issued, starts>>

\* A step of compactLog that ends it with an error where it fails.
Step(from, to, failed) ==
  /\ pc = from
  /\ \/ ~failed /\ Works /\ pc' = to
     \/ failed /\ pc' = "idle"
  /\ UNCHANGED <<freq, mem, aofbuf, rct, issued, starts>>

compactSync_skipped ==
  Step("tmpSync", "closeFile", FALSE) /\ UNCHANGED <<fd, stitch, tmp, versions, damaged>>

compactSync ==
  /\ UNCHANGED <<fd, stitch, versions, damaged>>
  /\ \/ Step("tmpSync", "closeFile", FALSE) /\ tmp' = Synced(tmp)
     \/ Step("tmpSync", "closeFile", TRUE) /\ Fails /\ UNCHANGED tmp

\* A file that an earlier compaction has closed cannot be closed again, and none is of
\* use after its Close has failed.
compactClose ==
  /\ UNCHANGED <<stitch, tmp, versions, damaged>>
  /\ fd' = FALSE
  /\ \/ Step("closeFile", "removeFile", FALSE) /\ fd
     \/ Step("closeFile", "removeFile", TRUE) /\ (IF fd THEN Fails ELSE Works)

compactRemove ==
  /\ UNCHANGED <<fd, tmp, versions>>
  /\ \/ /\ Step("removeFile", "rename", FALSE) /\ stitch' = NoFile
        /\ damaged' = damaged \cup Harm(CompactStmts # AllStmts, "remainder")
                              \cup Harm(Len(tmp.data) > 4 * Len(CompactStmts), "leftover")
     \/ Step("removeFile", "rename", TRUE) /\ Fails /\ UNCHANGED <<stitch, damaged>>

compactRename ==
  /\ UNCHANGED <<fd, damaged>>
  /\ \/ Step("rename", "reopen", FALSE) /\ stitch' = tmp /\ tmp' = NoFile
     \/ Step("rename", "reopen", TRUE) /\ Fails /\ UNCHANGED <<stitch, tmp>>
  /\ versions' = IF pc' = "reopen" THEN <<Saved(mem)>> ELSE versions

compactReopen_atOldOffset ==
  /\ UNCHANGED <<tmp, versions, damaged>>
  /\ Step("reopen", "idle", FALSE) /\ fd' = TRUE
  /\ stitch' = [stitch EXCEPT !.off = Len(stitch.data) + 4]

\* The offset is the beginning of the file, and nothing appends to its end.
compactReopen ==
  /\ UNCHANGED <<tmp, versions, damaged>>
  /\ \/ Step("reopen", "idle", FALSE) /\ fd' = TRUE /\ stitch' = [stitch EXCEPT !.off = 0]
     \/ Step("reopen", "idle", TRUE) /\ Fails /\ UNCHANGED <<fd, stitch>>

compactLog ==
  \/ compactWrite \/ compactSync \/ compactClose \/ compactRemove \/ compactRename \/ compactReopen

-----------------------------------------------------------------------------
(* The end of a process *)

close ==
  /\ pc = "idle"
  /\ IF aofbuf = <<>>
     THEN pc' = "closeSync" /\ UNCHANGED <<aofbuf, stitch, damaged, failures>>
     ELSE \/ BufferWritten(aofbuf) /\ aofbuf' = <<>> /\ pc' = "closeSync"
          \/ WriteFails(aofbuf, TRUE) /\ UNCHANGED <<aofbuf, pc>>
  /\ UNCHANGED <<freq, mem, rct, fd, tmp, versions, issued, starts>>

\* Only a file that was synced is closed; the memory is released with it.
closeSync ==
  /\ pc = "closeSync"
  /\ \/ /\ fd /\ Works /\ stitch' = Synced(stitch)
        /\ pc' = "down" /\ fd' = FALSE /\ mem' = NoEntries
        /\ versions' = <<Recovered(stitch')>>
     \/ SyncFails /\ pc' = "idle" /\ UNCHANGED <<fd, mem>>
  /\ UNCHANGED <<freq, aofbuf, rct, tmp, damaged, issued, starts>>

CrashContents(file) == IF file = NoFile THEN {NoFile} ELSE {Opened(d) : d \in file.crash}

\* Of the last statement only a part of the length, with no newline, is there.
CutLength(file) == file # NoFile /\ Len(file.data) % 4 = 1

\* The machine stops: the files are what has reached the disk.
Crash ==
  /\ pc # "down" /\ pc' = "down"
  /\ stitch' \in CrashContents(stitch) /\ tmp' \in CrashContents(tmp)
  /\ mem' = NoEntries /\ aofbuf' = <<>> /\ fd' = FALSE
  /\ versions' = <<Recovered(stitch')>>
  /\ damaged' = damaged \cup Harm(stitch = NoFile, "no file")
                        \cup Harm(CutLength(stitch'), "length")
  /\ UNCHANGED <<freq, rct, issued, starts, failures>>

Next ==
  \/ openBucket
  \/ \E ch \in Forwards : commitTx(ch)
  \/ commitSync
  \/ \E n \in 1..Len(KeyOrder) : rollbackTx(n)
  \/ managerFlush \/ flushSync \/ noCompaction \/ compactLog
  \/ close \/ closeSync
  \/ Crash

Spec == Init /\ [][Next]_vars

-----------------------------------------------------------------------------
(* Properties *)

Files == {stitch, tmp} \ {NoFile}

\* The variables keep their types; an open file's offset lies within it, and the
\* bucket's file is missing only before the first start and after a compaction has
\* removed it.
TypeOK ==
  /\ freq \in Freqs /\ fd \in BOOLEAN /\ damaged \subseteq Harms
  /\ \A k \in Keys : mem[k] # Nil => mem[k].k = k /\ mem[k].opts \in EntryOptions
  /\ \A f \in Files : f.off \in 0..Len(f.data) /\ f.data \in f.crash
  /\ \A s \in ToSet(aofbuf) : IsEntryStmt(s)
  /\ stitch = NoFile => starts = 0 \/ ~fd

\* With every transaction synced (config.go:13), nothing that was acknowledged
\* waits for a sync when the bucket is at rest, unless a system call failed.
EachDurable == freq = "EACH" /\ pc = "idle" /\ failures = 0 => Len(versions) = 1

\* What the statements of a file give, whatever batch they are in.
Salvaged(data) ==
  Applied(NoEntries, WholeStmts(data))

\* Through commits and compactions, crashes, restarts and failing calls, whenever the
\* machine stops there is a file whose statements give everything that was synced and a
\* beginning of what was committed since: the bucket's, or while compactLog has removed
\* that one the temporary file.  One of Harms must have happened where there is none.
KeepsCopy ==
  damaged = {} /\ pc # "down" =>
    \A d \in (IF stitch = NoFile THEN tmp ELSE stitch).crash :
      Salvaged(d) \in ToSet(versions)

\* The buffer can be written to the end of the file.
Appends == pc = "idle" /\ fd /\ (aofbuf # <<>> => ~IsCut(stitch.data))

\* The file and the buffer after it hold the bucket's contents: an entry is never
\* neither written nor waiting, and what a failed write left behind does no harm when
\* the buffer is written again, unless one of Harms is the reason.
LogPlusBuffer ==
  damaged \subseteq {"twice"} /\ Appends =>
    Salvaged(stitch.data \o Units(aofbuf)) = Saved(mem)

\* A deadline read back lies at most a second before the one that was set, and
\* never after it: no restart keeps an entry alive beyond its time.
NeverProlonged ==
  damaged \subseteq {"twice"} /\ Appends =>
    LET c == Salvaged(stitch.data \o Units(aofbuf))
    IN  \A k \in Keys : mem[k] # Nil =>
          /\ c[k].opts.expTime \in (mem[k].opts.expTime - Second + 1)..mem[k].opts.expTime
          /\ c[k].opts.invTime \in (mem[k].opts.invTime - Second + 1)..mem[k].opts.invTime

\* compactLog "rewrites the log resulting in a condensed form" (bucket.go:459): the file
\* that it puts in the place of the log has the contents of the bucket.
Condensed == pc = "reopen" => Salvaged(stitch.data) = Saved(mem)

\* The log keeps the promise of a durable map, up to the first of Harms.
DM == INSTANCE DurableMap WITH
        Initial <- NoEntries, up <- pc # "down", broken <- damaged # {}

\* Up to the first of Harms the bucket reads back, after a close and after a crash in any
\* step of a compaction or anywhere else, what was there at the last sync and a beginning
\* of what was committed since.
Implements == DM!Spec
=============================================================================
