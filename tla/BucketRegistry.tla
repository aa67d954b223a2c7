---------------------------- MODULE BucketRegistry ----------------------------
(***************************************************************************)
(* The bucket configuration file sbkt.conf (db.go): what Open reads from   *)
(* it, what CreateBucket and DropBucket append to it, how runManager       *)
(* writes it anew, and what a crash of the machine may leave of it.        *)
(*                                                                         *)
(* Covered: the map of the buckets, the statements with their last one for *)
(* a name deciding, the sync policies, lines cut by a crash, an Open that  *)
(* fails and keeps the lock, crashes between the writes of a rewrite.      *)
(*                                                                         *)
(* Not covered: the locks (every step but Crash holds the lock of the      *)
(* database; see DbLocks), the buckets' own files (BucketLog), failing     *)
(* calls of the operating system.  Persistence is on.                      *)
(*                                                                         *)
(* A line is four units long: all up to the last character of its last     *)
(* field, in two, that character, and the newline.                         *)
(*                                                                         *)
(* An operator named x_y, just before the definition x, is x with the      *)
(* mistake y in it: the model checker must notice the exchange.            *)
(***************************************************************************)
EXTENDS AppendFile

CONSTANTS
  Names,          \* the names of buckets
  SplitNames,     \* those with a ":" in them
  Options,        \* the options of buckets, as texts
  NoBucket,       \* no bucket of that name, and the parts of a DROP statement
  Shortened,      \* a name's or options' text without its last character
  NoText,         \* the empty text
  Freqs,          \* the values of syncFreq considered
  FileMultLimit,  \* config.bucketFileMultLimit
  MaxCalls,       \* bound on the calls of CreateBucket and DropBucket
  MaxStarts       \* bound on the processes

ASSUME RegistryAssumption ==
  /\ SplitNames \subseteq Names
  /\ NoBucket \notin Options /\ NoText \notin Options \cup {NoBucket}
  /\ DOMAIN Shortened = Names \cup Options
  /\ \A o \in Options : Shortened[o] \in Options \cup {NoText}
  /\ Freqs \subseteq {"EACH", "MNGFREQ", "NONE"}
  /\ FileMultLimit \in Nat

VARIABLES
  freq,       \* config.syncFreq
  pc,         \* where the process is: "stuck" after a failed Open, "down" if there is none
  buckets,    \* db.buckets, as the options of each
  bktcfgfrc,  \* the lines in the file
  bktcfgf,    \* the file
  unwritten,  \* the buckets a rewrite has not written yet
  versions,   \* history: the map at the last sync, and after each statement since
  ragged,     \* history: Open found the last line cut, and no rewrite was synced since
  replacing,  \* history: the file was truncated and not synced since
  starts, calls  \* history: what the bounds count

vars == <<freq, pc, buckets, bktcfgfrc, bktcfgf, unwritten, versions, ragged, replacing, starts, calls>>

NoBuckets == [n \in Names |-> NoBucket]

-----------------------------------------------------------------------------
(* The statements in the file *)

bucketCreateStmt(n, o) == [name |-> n, opts |-> o]

bucketDropStmt(n) == [name |-> n, opts |-> NoBucket]

\* The statement without its last character.
Cut(s) == IF s.opts = NoBucket THEN [s EXCEPT !.name = Shortened[@]]
                               ELSE [s EXCEPT !.opts = Shortened[@]]

\* The number of parts between the colons, and numbers among them, are all a line is
\* tested for.
Parses(s) == s.name \notin SplitNames /\ s.opts # NoText

\* What follows the whole lines is one statement: a line without its newline, or without
\* its last character too, or what does not parse, as what was meant to be two lines
\* where the first lacks its newline.
LastOf(rest) ==
  LET s == rest[1][1]
  IN  CASE rest = <<>>                    -> <<>>
        [] rest = SubSeq(Line(s), 1, 3)   -> <<s>>
        [] rest = SubSeq(Line(s), 1, 2)   -> <<Cut(s)>>
        [] OTHER                          -> <<[name |-> NoText, opts |-> NoText]>>

\* The statements of the file.
StmtsOf(data) ==
  WholeStmts(data) \o LastOf(SubSeq(data, 4 * Whole(data) + 1, Len(data)))

Opens(data) == \A i \in DOMAIN StmtsOf(data) : Parses(StmtsOf(data)[i])

\* The last statement of a name decides.
readConfigFileBuckets(data) ==
  LET stmts == StmtsOf(data)
      of(n) == {i \in DOMAIN stmts : stmts[i].name = n}
  IN  [n \in Names |-> IF of(n) = {} THEN NoBucket ELSE stmts[Max(of(n))].opts]

Registered == {n \in Names : buckets[n] # NoBucket}

-----------------------------------------------------------------------------

Init ==
  /\ freq \in Freqs /\ pc = "down"
  /\ buckets = NoBuckets /\ bktcfgfrc = 0 /\ bktcfgf = Opened(<<>>) /\ unwritten = {}
  /\ versions = <<NoBuckets>> /\ ragged = FALSE /\ replacing = FALSE
  /\ starts = 0 /\ calls = 0

\* An error is returned with the lock of the database held.
Open ==
  /\ pc = "down" /\ starts < MaxStarts /\ starts' = starts + 1
  /\ bktcfgf' = [Opened(bktcfgf.data) EXCEPT !.off = Len(bktcfgf.data)]
  /\ bktcfgfrc' = Len(StmtsOf(bktcfgf.data))
  /\ IF Opens(bktcfgf.data)
     THEN pc' = "idle" /\ buckets' = readConfigFileBuckets(bktcfgf.data) /\ versions' = <<buckets'>>
     ELSE pc' = "stuck" /\ UNCHANGED <<buckets, versions>>
  /\ ragged' = (ragged \/ Len(bktcfgf.data) % 4 # 0)
  /\ UNCHANGED <<freq, unwritten, replacing, calls>>

AppendLine(stmt) ==
  /\ bktcfgf' = Written(bktcfgf, Line(stmt), 0..3)
  /\ bktcfgfrc' = bktcfgfrc + 1
  /\ pc' = IF freq = "EACH" THEN "sync" ELSE "idle"

Call(after) ==
  /\ pc = "idle" /\ calls < MaxCalls /\ calls' = calls + 1
  /\ buckets' = after /\ versions' = versions \o <<after>>
  /\ UNCHANGED <<freq, unwritten, ragged, replacing, starts>>

\* For a name that exists the call returns nil and does nothing.
CreateBucket(n, o) ==
  /\ buckets[n] = NoBucket
  /\ Call([buckets EXCEPT ![n] = o])
  /\ AppendLine(bucketCreateStmt(n, o))

DropBucket_unwritten(n) ==
  /\ buckets[n] # NoBucket
  /\ Call([buckets EXCEPT ![n] = NoBucket])
  /\ UNCHANGED <<pc, bktcfgf, bktcfgfrc>>

DropBucket(n) ==
  /\ buckets[n] # NoBucket
  /\ Call([buckets EXCEPT ![n] = NoBucket])
  /\ AppendLine(bucketDropStmt(n))

syncConfig_skipped ==
  /\ pc = "sync" /\ pc' = "idle"
  /\ versions' = <<buckets>>
  /\ replacing' = FALSE /\ ragged' = (ragged /\ ~replacing)
  /\ UNCHANGED <<freq, buckets, bktcfgfrc, bktcfgf, unwritten, starts, calls>>

\* The Sync of a call, or of the manager after a rewrite.
syncConfig ==
  /\ pc = "sync" /\ pc' = "idle"
  /\ bktcfgf' = Synced(bktcfgf)
  /\ versions' = <<buckets>>
  /\ replacing' = FALSE /\ ragged' = (ragged /\ ~replacing)
  /\ UNCHANGED <<freq, buckets, bktcfgfrc, unwritten, starts, calls>>

-----------------------------------------------------------------------------
(* A tick of runManager *)

\* The file is written anew when it has few lines, not when it has many.
RewriteDue == Cardinality(Registered) * FileMultLimit > bktcfgfrc

rewriteStart_noSeek ==
  /\ pc = "idle" /\ RewriteDue
  /\ pc' = "rewrite"
  /\ bktcfgf' = [Cleared(bktcfgf) EXCEPT !.off = bktcfgf.off]
  /\ unwritten' = Registered /\ replacing' = TRUE
  /\ UNCHANGED <<freq, buckets, bktcfgfrc, versions, ragged, starts, calls>>

rewriteStart ==
  /\ pc = "idle" /\ RewriteDue
  /\ pc' = "rewrite"
  /\ bktcfgf' = Cleared(bktcfgf)
  /\ unwritten' = Registered /\ replacing' = TRUE
  /\ UNCHANGED <<freq, buckets, bktcfgfrc, versions, ragged, starts, calls>>

rewriteBucket(n) ==
  /\ pc = "rewrite" /\ n \in unwritten
  /\ bktcfgf' = Written(bktcfgf, Line(bucketCreateStmt(n, buckets[n])), 0..3)
  /\ unwritten' = unwritten \ {n}
  /\ UNCHANGED <<freq, pc, buckets, bktcfgfrc, versions, ragged, replacing, starts, calls>>

rewriteDone_early ==
  /\ pc = "rewrite"
  /\ bktcfgfrc' = Cardinality(Registered)
  /\ pc' = IF freq = "NONE" THEN "idle" ELSE "sync"
  /\ UNCHANGED <<freq, buckets, bktcfgf, unwritten, versions, ragged, replacing, starts, calls>>

rewriteDone ==
  /\ pc = "rewrite" /\ unwritten = {}
  /\ bktcfgfrc' = Cardinality(Registered)
  /\ pc' = IF freq = "NONE" THEN "idle" ELSE "sync"
  /\ UNCHANGED <<freq, buckets, bktcfgf, unwritten, versions, ragged, replacing, starts, calls>>

managerSync ==
  /\ pc = "idle" /\ ~RewriteDue /\ freq = "MNGFREQ"
  /\ pc' = "sync"
  /\ UNCHANGED <<freq, buckets, bktcfgfrc, bktcfgf, unwritten, versions, ragged, replacing, starts, calls>>

-----------------------------------------------------------------------------
(* The end of a process *)

Exit ==
  /\ pc' = "down" /\ buckets' = NoBuckets /\ unwritten' = {} /\ replacing' = FALSE
  /\ UNCHANGED <<freq, bktcfgfrc, versions, ragged, starts, calls>>

Close == pc = "idle" /\ bktcfgf' = Opened(bktcfgf.data) /\ Exit

\* The machine stops: the file is what has reached the disk.
Crash == pc # "down" /\ (\E d \in bktcfgf.crash : bktcfgf' = Opened(d)) /\ Exit

Next ==
  \/ Open
  \/ \E n \in Names, o \in Options : CreateBucket(n, o)
  \/ \E n \in Names : DropBucket(n)
  \/ syncConfig
  \/ rewriteStart \/ (\E n \in Names : rewriteBucket(n)) \/ rewriteDone \/ managerSync
  \/ Close \/ Crash

Spec == Init /\ [][Next]_vars

-----------------------------------------------------------------------------
(* Properties *)

\* What a cut of the last field makes of a bucket's options.
ShortOpts(v, n) == IF v[n] = NoBucket THEN NoBucket ELSE Shortened[v[n]]

Holds(m, v) == \A n \in Names : m[n] \in {v[n], NoBucket, ShortOpts(v, n)}

\* The map v but for the bucket that a line cut in its last field names: another one
\* is dropped, or one is created with other options.
CutIn(m, v) ==
  \E n \in Names : \E o \in {NoBucket, ShortOpts(v, n)} : m = [v EXCEPT ![n] = o]

\* The variables keep their types, and what is written next goes to the end of the
\* file.
TypeOK ==
  /\ freq \in Freqs
  /\ pc \in {"down", "idle", "sync", "rewrite", "stuck"}
  /\ buckets \in [Names -> Options \cup {NoBucket}]
  /\ bktcfgfrc \in Nat
  /\ unwritten \subseteq Registered
  /\ pc # "down" => bktcfgf.off = Len(bktcfgf.data)

\* Outside a rewrite the file gives the open buckets and their options, unless a
\* crash had cut its last line, to which the next one was then joined.
BucketsAreRegistered ==
  pc \in {"idle", "sync"} /\ ~ragged =>
    Opens(bktcfgf.data) /\ readConfigFileBuckets(bktcfgf.data) = buckets

\* Whenever the machine stops, in the middle of a rewrite too, a bucket that is
\* found again was there at the last sync or since, with the options it had or what a
\* cut has left of them: a bucket that was dropped for good does not come back.
NoneInvented ==
  pc # "down" =>
    \A d \in bktcfgf.crash : Opens(d) =>
      \E i \in DOMAIN versions : Holds(readConfigFileBuckets(d), versions[i])

\* Outside a rewrite that waits for its sync, a process that ends leaves the buckets
\* of the last sync and a beginning of the calls since; where a line is cut before
\* its last character, all but one of them, or a file that Open refuses.
RestartKeeps ==
  [][~replacing /\ ~ragged /\ pc \in {"idle", "sync"} /\ pc' = "down" =>
       LET left == readConfigFileBuckets(bktcfgf'.data)
       IN  \/ \E i \in DOMAIN versions : left = versions[i]
           \/ /\ Len(bktcfgf'.data) % 4 \in {1, 2}
              /\ Opens(bktcfgf'.data) => \E i \in DOMAIN versions : CutIn(left, versions[i])]_vars
=============================================================================
