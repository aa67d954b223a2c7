--------------------------- MODULE BucketLogProofs ---------------------------
(***************************************************************************)
(* Theorems about BucketLog for every set of keys, entries and options,    *)
(* every resolution of the clock and every value of the bounds.            *)
(*                                                                         *)
(* What a statement is after it was written and read back; what a sequence *)
(* of statements makes of a map; what reading makes of a file; then the    *)
(* inductive invariants TInv and DInv, of the types and of what waits for  *)
(* a sync.  BucketDurableProofs goes on to what the log contains.          *)
(***************************************************************************)
EXTENDS BucketLog, AppendFileProofs

-----------------------------------------------------------------------------
(* Statements *)

\* A text without a tilde.
Texts == {<<w>> : w \in Words}

PlainEntries == [k : Texts, v : Texts, opts : EntryOptions, located : BOOLEAN]

\* Seconds times their count, and the part of a second that Unix cuts off.
LEMMA WholeSeconds ==
  ASSUME NEW t \in Int
  PROVE  /\ Unix(t) \in Int
         /\ Second * Unix(t) <= t
         /\ t < Second * Unix(t) + Second
         /\ Unix(Second * Unix(t)) = Unix(t)
  BY StatementsAssumption DEF Unix

\* The options are what follows the first three parts of a statement.
LEMMA OptionsOfStmt ==
  ASSUME NEW s \in Seq(Pieces), Len(s) = 8
  PROVE  /\ SubSeq(s, 4, 8) \in Seq(Pieces) /\ Len(SubSeq(s, 4, 8)) = 5
         /\ \A i \in 1..5 : SubSeq(s, 4, 8)[i] = s[i + 3]
<1>1. \A i \in 4..8 : s[i] \in Pieces
  BY ElementOfSeq
<1>2. /\ SubSeq(s, 4, 8) \in Seq(Pieces) /\ Len(SubSeq(s, 4, 8)) = 5
      /\ \A i \in 1..5 : SubSeq(s, 4, 8)[i] = s[4 + i - 1]
  BY <1>1, SubSeqProperties
<1>3. \A i \in 1..5 : 4 + i - 1 = i + 3
  OBVIOUS
<1> QED
  BY <1>2, <1>3

\* The three parts that are texts, before the five of the options.
Joined(w, x, y, p) == <<w>> \o <<x>> \o <<y>> \o p

\* A statement of one-piece texts has one part for each field.
LEMMA PartsOfStmt ==
  ASSUME NEW w \in Pieces, NEW x \in Pieces, NEW y \in Pieces,
         NEW p \in Seq(Pieces), Len(p) = 5
  PROVE  LET s == Joined(w, x, y, p)
         IN  s[1] = w /\ s[2] = x /\ s[3] = y /\ OptionParts(s) = p
<1> DEFINE head == <<w>> \o <<x>> \o <<y>>
           s == head \o p
<1> DEFINE two == <<w>> \o <<x>>
           last == <<y>>
<1>1. /\ two \in Seq(Pieces) /\ Len(two) = 2 /\ two[1] = w /\ two[2] = x
      /\ last \in Seq(Pieces) /\ Len(last) = 1 /\ last[1] = y
  <2>1. two \in Seq(Pieces) /\ Len(two) = 2 /\ two[1] = w /\ two[2] = x
    BY ConcatProperties
  <2>2. last \in Seq(Pieces) /\ Len(last) = 1 /\ last[1] = y
    OBVIOUS
  <2> QED
    BY <2>1, <2>2
<1>2. head = two \o last
  OBVIOUS
<1> HIDE DEF two, last, head
<1>3. /\ head \in Seq(Pieces) /\ Len(head) = 3
      /\ head[1] = w /\ head[2] = x /\ head[3] = y
  <2>1. /\ two \o last \in Seq(Pieces) /\ Len(two \o last) = Len(two) + Len(last)
        /\ \A i \in 1..(Len(two) + Len(last)) :
             (two \o last)[i] = IF i <= Len(two) THEN two[i] ELSE last[i - Len(two)]
    BY <1>1, ConcatProperties
  <2> QED
    BY <1>1, <1>2, <2>1
<1>4. /\ s \in Seq(Pieces) /\ Len(s) = 8
      /\ \A i \in 1..8 : s[i] = IF i <= 3 THEN head[i] ELSE p[i - 3]
  <2>1. /\ head \o p \in Seq(Pieces) /\ Len(head \o p) = Len(head) + Len(p)
        /\ \A i \in 1..(Len(head) + Len(p)) :
             (head \o p)[i] = IF i <= Len(head) THEN head[i] ELSE p[i - Len(head)]
    BY <1>3, ConcatProperties
  <2> QED
    BY <1>3, <2>1, SMTT(30)
<1> HIDE DEF s
<1>5. s[1] = head[1] /\ s[2] = head[2] /\ s[3] = head[3]
  BY <1>4
<1>6. /\ SubSeq(s, 4, 8) \in Seq(Pieces) /\ Len(SubSeq(s, 4, 8)) = 5
      /\ \A i \in 1..5 : SubSeq(s, 4, 8)[i] = s[i + 3]
  BY <1>4, OptionsOfStmt
<1>7. ASSUME NEW i \in 1..5
      PROVE  SubSeq(s, 4, 8)[i] = p[i]
  <2>1. i + 3 \in 1..8 /\ ~(i + 3 <= 3) /\ i + 3 - 3 = i
    OBVIOUS
  <2>2. s[i + 3] = p[i + 3 - 3]
    BY <1>4, <2>1
  <2> QED
    BY <1>6, <2>1, <2>2
<1>8. SubSeq(s, 4, 8) = p
  BY <1>6, <1>7, SeqEqual
<1> QED
  BY <1>3, <1>4, <1>5, <1>8 DEF s, head, Joined, OptionParts

\* The statement of options parses, to the options with whole seconds.
LEMMA OptionsReadBack ==
  ASSUME NEW o \in EntryOptions
  PROVE  LET p == entryOptionsCreateStmt(o)
         IN  /\ p \in Seq(Pieces) /\ Len(p) = 5 /\ OptionsParse(p)
             /\ NewEntryOptionsFromStmt(p) = StoredOptions(o)
<1> DEFINE p == entryOptionsCreateStmt(o)
<1>1. p = <<boolToInt(o.doesExp), boolToInt(o.doesInv), Unix(o.expTime), Unix(o.invTime), o.tol>>
  BY StatementsAssumption DEF entryOptionsCreateStmt
<1>2. /\ boolToInt(o.doesExp) \in {0, 1} /\ boolToInt(o.doesInv) \in {0, 1}
      /\ Unix(o.expTime) \in Int /\ Unix(o.invTime) \in Int /\ o.tol \in Int
  BY WholeSeconds DEF EntryOptions, boolToInt
<1>3. p \in Seq(Pieces) /\ Len(p) = 5 /\ OptionsParse(p)
  BY <1>1, <1>2 DEF Pieces, OptionsParse
<1>4. (p[1] = 1) = o.doesExp /\ (p[2] = 1) = o.doesInv
  BY <1>1 DEF EntryOptions, boolToInt
<1>5. NewEntryOptionsFromStmt(p) = StoredOptions(o)
  BY <1>1, <1>2, <1>4, StatementsAssumption DEF NewEntryOptionsFromStmt, StoredOptions
<1> QED
  BY <1>3, <1>5

\* loadBucketFile reads what EntryInsertStmt wrote, and has of the entry its key, its
\* value, its flags, and its deadlines to the second.
THEOREM InsertReadsBack ==
  ASSUME NEW e \in PlainEntries
  PROVE  Parses(EntryInsertStmt(e)) /\ NewEntryFromStmt(EntryInsertStmt(e)) = Stored(e)
<1> DEFINE p == entryOptionsCreateStmt(e.opts)
           s == EntryInsertStmt(e)
<1>1. PICK x \in Words, y \in Words : e.k = <<x>> /\ e.v = <<y>>
  BY DEF PlainEntries, Texts
<1>2. /\ p \in Seq(Pieces) /\ Len(p) = 5 /\ OptionsParse(p)
      /\ NewEntryOptionsFromStmt(p) = StoredOptions(e.opts)
  BY OptionsReadBack DEF PlainEntries
<1>3. s = Joined(INSERT, x, y, p)
  BY <1>1 DEF EntryInsertStmt, Joined
<1>4. INSERT \in Pieces /\ x \in Pieces /\ y \in Pieces
  BY StatementsAssumption DEF Pieces
<1> HIDE DEF p, s
<1>5. s[1] = INSERT /\ s[2] = x /\ s[3] = y /\ OptionParts(s) = p
  BY <1>2, <1>3, <1>4, PartsOfStmt
<1>6. Parses(s)
  BY <1>2, <1>5 DEF Parses, IsEntryStmt
<1>7. NewEntryFromStmt(s) = Stored(e)
  <2>1. NewEntryFromStmt(s) = [k |-> <<s[2]>>, v |-> <<s[3]>>,
                               opts |-> StoredOptions(e.opts), located |-> <<s[3]>> \in Coords]
    BY <1>2, <1>5 DEF NewEntryFromStmt
  <2> QED
    BY <1>1, <1>5, <2>1 DEF Stored
<1> QED
  BY <1>6, <1>7 DEF s

\* The statement of a deletion is read as one of the key that was deleted.
THEOREM DeleteReadsBack ==
  ASSUME NEW x \in Words
  PROVE  LET s == EntryDeleteStmt(<<x>>)
         IN  Parses(s) /\ s[1] = DELETE /\ NewEntryFromStmt(s).k = <<x>>
<1> DEFINE p == entryOptionsCreateStmt(NilOptions)
           s == EntryDeleteStmt(<<x>>)
<1>1. p \in Seq(Pieces) /\ Len(p) = 5 /\ OptionsParse(p)
  BY DEF entryOptionsCreateStmt, Pieces, OptionsParse
<1>2. s = Joined(DELETE, x, Empty, p)
  BY DEF EntryDeleteStmt, Joined
<1>3. DELETE \in Pieces /\ x \in Pieces /\ Empty \in Pieces
  BY StatementsAssumption DEF Pieces
<1> HIDE DEF p, s
<1>4. s[1] = DELETE /\ s[2] = x /\ OptionParts(s) = p
  BY <1>1, <1>2, <1>3, PartsOfStmt
<1>5. Parses(s)
  BY <1>1, <1>4 DEF Parses, IsEntryStmt
<1>6. NewEntryFromStmt(s).k = <<x>>
  BY <1>4 DEF NewEntryFromStmt
<1> QED
  BY <1>4, <1>5, <1>6 DEF s

\* A deadline that is read back lies less than a second before the one that was set,
\* and never after it.
THEOREM DeadlinesNeverLater ==
  ASSUME NEW e \in PlainEntries
  PROVE  /\ Stored(e).opts.expTime \in (e.opts.expTime - Second + 1)..e.opts.expTime
         /\ Stored(e).opts.invTime \in (e.opts.invTime - Second + 1)..e.opts.invTime
<1>1. e.opts.expTime \in Int /\ e.opts.invTime \in Int
  BY DEF PlainEntries, EntryOptions
<1>2. /\ Stored(e).opts.expTime = Second * Unix(e.opts.expTime)
      /\ Stored(e).opts.invTime = Second * Unix(e.opts.invTime)
  BY DEF Stored, StoredOptions
<1> QED
  BY <1>1, <1>2, WholeSeconds, StatementsAssumption

\* What a restart reads is written again by the next compaction, and read by the next
\* restart, without a further change: the deadlines do not creep.
THEOREM StoredOnceForAll ==
  ASSUME NEW e \in PlainEntries
  PROVE  Stored(e) \in PlainEntries /\ Stored(Stored(e)) = Stored(e)
<1> DEFINE o == e.opts
<1>1. /\ o.doesExp \in BOOLEAN /\ o.doesInv \in BOOLEAN
      /\ o.expTime \in Int /\ o.invTime \in Int /\ o.tol \in Int
  BY DEF PlainEntries, EntryOptions
<1>2. \A t \in {o.expTime, o.invTime} :
        Second * Unix(t) \in Int /\ Unix(Second * Unix(t)) = Unix(t)
  BY <1>1, WholeSeconds, StatementsAssumption
<1>3. StoredOptions(o) \in EntryOptions
  BY <1>1, <1>2 DEF StoredOptions, EntryOptions
<1>4. StoredOptions(StoredOptions(o)) = StoredOptions(o)
  BY <1>2 DEF StoredOptions
<1>5. /\ Stored(e).k = e.k /\ Stored(e).v = e.v
      /\ Stored(e).opts = StoredOptions(o) /\ Stored(e).located = (e.v \in Coords)
  BY DEF Stored
<1>6. Stored(e) \in PlainEntries
  BY <1>3 DEF Stored, PlainEntries
<1> QED
  BY <1>4, <1>5, <1>6 DEF Stored

-----------------------------------------------------------------------------
(* Statements of the log *)

\* No key or value has a tilde in it.
Plain == Keys \subseteq Texts /\ Entries \subseteq PlainEntries

\* What the bucket holds, the statements that are written, and the files.
Held == {e \in EntryRecords : Plain => e \in PlainEntries}

Maps == [Keys -> Held \cup {Nil}]

Stmts == {EntryInsertStmt(e) : e \in Held} \cup {EntryDeleteStmt(k) : k \in Keys}

Contained == UnitsOf(Stmts)

LogFiles == FilesOf(Contained)

KeyOf(s) == NewEntryFromStmt(s).k

After(s) == IF s[1] = INSERT THEN NewEntryFromStmt(s) ELSE Nil

LEMMA KeysAreTexts == Keys \subseteq Text
<1>1. \A i \in DOMAIN KeyOrder : KeyOrder[i] \in Text
  <2> TAKE i \in DOMAIN KeyOrder
  <2>1. KeyOrder \in Seq(Text)
    BY LogAssumption
  <2>2. i \in 1..Len(KeyOrder)
    BY <2>1
  <2> QED
    BY <2>1, <2>2, ElementOfSeq
<1> QED
  BY <1>1 DEF Keys, ToSet

LEMMA OptionPieces ==
  ASSUME NEW o, o = NilOptions \/ o \in EntryOptions
  PROVE  entryOptionsCreateStmt(o) \in Seq(Pieces)
<1>1. CASE o = NilOptions
  BY <1>1 DEF entryOptionsCreateStmt, Pieces
<1>2. CASE o \in EntryOptions
  BY <1>2, OptionsReadBack
<1> QED
  BY <1>1, <1>2

\* Statements are texts, and begin with what they do.
LEMMA StmtsAreTexts ==
  \A s \in Stmts : s \in Text /\ IsEntryStmt(s)
<1>1. ASSUME NEW w \in {INSERT, DELETE}, NEW x \in Text, NEW y \in Text, NEW z \in Text
      PROVE  <<w>> \o x \o y \o z \in Text /\ (<<w>> \o x \o y \o z)[1] = w
  <2>1. <<w>> \in Text /\ Len(<<w>>) = 1 /\ <<w>>[1] = w
    BY StatementsAssumption DEF Text, Pieces
  <2>2. ASSUME NEW a \in Text, Len(a) > 0, NEW b \in Text
        PROVE  a \o b \in Text /\ Len(a \o b) > 0 /\ (a \o b)[1] = a[1]
    <3>1. a \in Seq(Pieces) /\ b \in Seq(Pieces) /\ Len(a) \in Nat /\ Len(b) \in Nat
      BY DEF Text
    <3>2. 1 \in 1..(Len(a) + Len(b)) /\ 1 <= Len(a) /\ Len(a) + Len(b) > 0
      BY <2>2, <3>1
    <3> QED
      BY <3>1, <3>2, ConcatProperties DEF Text
  <2> DEFINE a == <<w>>
  <2>a. a \in Text /\ Len(a) > 0 /\ a[1] = w
    BY <2>1
  <2> HIDE DEF a
  <2>3. a \o x \in Text /\ Len(a \o x) > 0 /\ (a \o x)[1] = w
    BY <2>a, <2>2
  <2>4. a \o x \o y \in Text /\ Len(a \o x \o y) > 0 /\ (a \o x \o y)[1] = w
    BY <2>2, <2>3
  <2>5. a \o x \o y \o z \in Text /\ (a \o x \o y \o z)[1] = w
    BY <2>2, <2>4
  <2> QED
    BY <2>5 DEF a
<1>2. \A e \in Held : EntryInsertStmt(e) \in Text /\ EntryInsertStmt(e)[1] = INSERT
  <2> TAKE e \in Held
  <2>1. e.k \in Text /\ e.v \in Text /\ e.opts \in EntryOptions
    BY KeysAreTexts DEF Held, EntryRecords
  <2>2. entryOptionsCreateStmt(e.opts) \in Text
    BY <2>1, OptionPieces DEF Text
  <2> QED
    BY <1>1, <2>1, <2>2, ZenonT(40) DEF EntryInsertStmt
<1>3. \A k \in Keys : EntryDeleteStmt(k) \in Text /\ EntryDeleteStmt(k)[1] = DELETE
  <2> TAKE k \in Keys
  <2>1. k \in Text /\ <<Empty>> \in Text
    BY KeysAreTexts, StatementsAssumption DEF Text, Pieces
  <2>2. entryOptionsCreateStmt(NilOptions) \in Text
    BY OptionPieces DEF Text
  <2> QED
    BY <1>1, <2>1, <2>2 DEF EntryDeleteStmt
<1> QED
  BY <1>2, <1>3 DEF Stmts, IsEntryStmt

\* A record of a file of the log is a file.
LEMMA NoFileIsNone == NoFile \notin LogFiles
<1>1. Contained \subseteq UnitsOf(Text)
  BY StmtsAreTexts DEF Contained, UnitsOf
<1>2. Seq(Contained) \subseteq Seq(UnitsOf(Text))
  BY <1>1, SeqMonotonic
<1>3. LogFiles \subseteq FilesOf(UnitsOf(Text))
  BY <1>2 DEF LogFiles, FilesOf
<1> QED
  BY <1>3, LogAssumption

\* How the statements of plain entries are read.
LEMMA InsertRead ==
  ASSUME Plain, NEW e \in Held
  PROVE  LET s == EntryInsertStmt(e)
         IN  Parses(s) /\ s[1] = INSERT /\ KeyOf(s) = e.k /\ After(s) = Stored(e)
<1> DEFINE s == EntryInsertStmt(e)
<1>1. e \in PlainEntries
  BY DEF Held
<1>2. Parses(s) /\ NewEntryFromStmt(s) = Stored(e)
  BY <1>1, InsertReadsBack
<1>3. s[1] = INSERT
  <2>1. PICK x \in Words, y \in Words : e.k = <<x>> /\ e.v = <<y>>
    BY <1>1 DEF PlainEntries, Texts
  <2>2. entryOptionsCreateStmt(e.opts) \in Seq(Pieces) /\ Len(entryOptionsCreateStmt(e.opts)) = 5
    BY <1>1, OptionsReadBack DEF PlainEntries
  <2>3. INSERT \in Pieces /\ x \in Pieces /\ y \in Pieces
    BY StatementsAssumption DEF Pieces
  <2>4. s = Joined(INSERT, x, y, entryOptionsCreateStmt(e.opts))
    BY <2>1 DEF EntryInsertStmt, Joined
  <2> QED
    BY <2>2, <2>3, <2>4, PartsOfStmt
<1> HIDE DEF s
<1>4. KeyOf(s) = e.k
  BY <1>2 DEF KeyOf, Stored
<1>5. After(s) = Stored(e)
  BY <1>2, <1>3 DEF After
<1> QED
  BY <1>2, <1>3, <1>4, <1>5 DEF s

LEMMA DeleteRead ==
  ASSUME Plain, NEW k \in Keys
  PROVE  LET s == EntryDeleteStmt(k)
         IN  Parses(s) /\ s[1] = DELETE /\ KeyOf(s) = k /\ After(s) = Nil
<1>1. PICK x \in Words : k = <<x>>
  BY DEF Plain, Texts
<1>2. /\ Parses(EntryDeleteStmt(k)) /\ EntryDeleteStmt(k)[1] = DELETE
      /\ NewEntryFromStmt(EntryDeleteStmt(k)).k = k
  BY <1>1, DeleteReadsBack
<1> QED
  BY <1>2, StatementsAssumption DEF KeyOf, After

LEMMA PlainStmts ==
  ASSUME Plain, NEW s \in Stmts
  PROVE  /\ Parses(s) /\ KeyOf(s) \in Keys
         /\ s[1] = INSERT => \E e \in Held : After(s) = Stored(e)
<1>1. CASE \E e \in Held : s = EntryInsertStmt(e)
  <2>1. PICK e \in Held : s = EntryInsertStmt(e)
    BY <1>1
  <2>2. e.k \in Keys
    BY DEF Held, EntryRecords
  <2> QED
    BY <2>1, <2>2, InsertRead
<1>2. CASE \E k \in Keys : s = EntryDeleteStmt(k)
  <2>1. PICK k \in Keys : s = EntryDeleteStmt(k)
    BY <1>2
  <2> QED
    BY <2>1, DeleteRead, StatementsAssumption
<1> QED
  BY <1>1, <1>2 DEF Stmts

\* An entry that was read, and what is read of it.
LEMMA StoredHeld ==
  ASSUME Plain, NEW e \in Held
  PROVE  Stored(e) \in Held /\ Stored(Stored(e)) = Stored(e) /\ Stored(e).k = e.k
<1>1. e \in PlainEntries /\ e \in EntryRecords
  BY DEF Held
<1>2. Stored(e) \in PlainEntries /\ Stored(Stored(e)) = Stored(e)
  BY <1>1, StoredOnceForAll
<1>3. Stored(e).k = e.k /\ Stored(e).v = e.v /\ Stored(e).opts \in EntryOptions
      /\ Stored(e).located \in BOOLEAN
  BY <1>2 DEF Stored, PlainEntries
<1>4. Stored(e) = [k |-> Stored(e).k, v |-> Stored(e).v, opts |-> Stored(e).opts,
                   located |-> Stored(e).located]
  BY DEF Stored
<1>5. Stored(e) \in EntryRecords
  BY <1>1, <1>3, <1>4 DEF EntryRecords
<1> QED
  BY <1>2, <1>3, <1>5 DEF Held

\* What is read of an insertion that parses is an entry.
LEMMA ReadEntry ==
  ASSUME NEW s \in Stmts, Parses(s), s[1] = INSERT, KeyOf(s) \in Keys
  PROVE  NewEntryFromStmt(s) \in Held
<1>1. CASE Plain
  <2>1. After(s) = NewEntryFromStmt(s)
    BY DEF After
  <2>2. PICK e \in Held : After(s) = Stored(e)
    BY <1>1, PlainStmts, StatementsAssumption
  <2> QED
    BY <1>1, <2>1, <2>2, StoredHeld
<1>2. CASE ~Plain
  <2> DEFINE p == OptionParts(s)
  <2>1. s \in Seq(Pieces) /\ Len(s) \in Nat
    BY StmtsAreTexts DEF Text
  <2>2. OptionsParse(p)
    BY DEF Parses
  <2>3. Len(p) = (IF 4 <= Len(s) THEN Len(s) - 4 + 1 ELSE 0) /\ p \in Seq(Pieces)
    <3>1. \A i \in 4..Len(s) : s[i] \in Pieces
      BY <2>1, ElementOfSeq
    <3>2. 4 \in Int /\ Len(s) \in Int
      BY <2>1
    <3> QED
      BY <3>1, <3>2, SubSeqProperties DEF OptionParts
  <2>4. Len(p) >= 5
    BY <2>2 DEF OptionsParse
  <2> HIDE DEF p
  <2>5. 3 \in 1..Len(s)
    BY <2>1, <2>3, <2>4
  <2>6. s[3] \in Pieces
    BY <2>1, <2>5, ElementOfSeq
  <2>7. <<s[3]>> \in Text
    BY <2>6 DEF Text
  <2>8. NewEntryOptionsFromStmt(p) \in EntryOptions
    <3>1. \A i \in 3..5 : p[i] \in Int
      BY <2>2 DEF OptionsParse
    <3>2. p[3] \in Int /\ p[4] \in Int /\ p[5] \in Int /\ Second \in Int
      BY <3>1, StatementsAssumption
    <3>3. p[3] * Second \in Int /\ p[4] * Second \in Int
      BY <3>2
    <3>4. (p[1] = 1) \in BOOLEAN /\ (p[2] = 1) \in BOOLEAN
      OBVIOUS
    <3> QED
      BY <3>2, <3>3, <3>4 DEF NewEntryOptionsFromStmt, EntryOptions
  <2>9. NewEntryFromStmt(s) \in EntryRecords
    <3>1. <<s[2]>> \in Keys
      BY DEF KeyOf, NewEntryFromStmt
    <3> QED
      BY <2>7, <2>8, <3>1 DEF NewEntryFromStmt, EntryRecords, p
  <2> QED
    BY <1>2, <2>9 DEF Held
<1> QED
  BY <1>1, <1>2

-----------------------------------------------------------------------------
(* The statements about a key *)

About(stmts, k) == {i \in DOMAIN stmts : KeyOf(stmts[i]) = k}

\* The last statement about a key decides, and where there is none the map before.
LEMMA AppliedAt ==
  ASSUME NEW S, NEW stmts \in Seq(S), NEW c, NEW k \in Keys
  PROVE  /\ About(stmts, k) = {} => Applied(c, stmts)[k] = c[k]
         /\ About(stmts, k) # {} => \E i \in About(stmts, k) :
              /\ \A j \in About(stmts, k) : i >= j
              /\ Applied(c, stmts)[k] = After(stmts[i])
<1> DEFINE A == About(stmts, k)
<1>1. A \subseteq 1..Len(stmts) /\ Len(stmts) \in Nat
  BY DEF About
<1>2. Applied(c, stmts)[k] = IF A = {} THEN c[k] ELSE After(stmts[Max(A)])
  BY DEF Applied, About, After, KeyOf
<1>3. ASSUME A # {} PROVE Max(A) \in A /\ \A j \in A : Max(A) >= j
  <2>1. A \subseteq 0..Len(stmts)
    BY <1>1
  <2> HIDE DEF A
  <2> QED
    BY <1>1, <1>3, <2>1, MaxExists
<1> QED
  BY <1>2, <1>3

\* The place of the last statement is unique.
LEMMA AppliedIs ==
  ASSUME NEW S, NEW stmts \in Seq(S), NEW c, NEW k \in Keys,
         NEW i \in About(stmts, k), \A j \in About(stmts, k) : i >= j
  PROVE  Applied(c, stmts)[k] = After(stmts[i])
<1>1. PICK m \in About(stmts, k) :
        /\ \A j \in About(stmts, k) : m >= j
        /\ Applied(c, stmts)[k] = After(stmts[m])
  BY AppliedAt
<1>2. i \in 1..Len(stmts) /\ m \in 1..Len(stmts)
  BY DEF About
<1>3. m >= i /\ i >= m
  BY <1>1
<1>4. i = m
  BY <1>2, <1>3
<1> QED
  BY <1>1, <1>4

LEMMA AppliedMap ==
  ASSUME NEW c, NEW stmts
  PROVE  /\ Applied(c, stmts) = [k \in Keys |-> Applied(c, stmts)[k]]
         /\ DOMAIN Applied(c, stmts) = Keys
  BY DEF Applied

\* Statements that parse make a map of entries.
LEMMA AppliedType ==
  ASSUME NEW c \in Maps, NEW stmts \in Seq(Stmts), \A i \in 1..Len(stmts) : Parses(stmts[i])
  PROVE  Applied(c, stmts) \in Maps
<1>1. ASSUME NEW k \in Keys PROVE Applied(c, stmts)[k] \in Held \cup {Nil}
  <2>1. CASE About(stmts, k) = {}
    BY <2>1, AppliedAt DEF Maps
  <2>2. CASE About(stmts, k) # {}
    <3>1. PICK i \in About(stmts, k) : Applied(c, stmts)[k] = After(stmts[i])
      BY <2>2, AppliedAt
    <3>2. i \in 1..Len(stmts) /\ KeyOf(stmts[i]) = k
      BY DEF About
    <3>3. stmts[i] \in Stmts
      BY <3>2, ElementOfSeq
    <3>4. stmts[i][1] = INSERT => NewEntryFromStmt(stmts[i]) \in Held
      BY <3>2, <3>3, ReadEntry
    <3> QED
      BY <3>1, <3>4 DEF After
  <2> QED
    BY <2>1, <2>2
<1> QED
  BY <1>1, AppliedMap DEF Maps

LEMMA AppliedNone ==
  ASSUME NEW c \in Maps
  PROVE  Applied(c, <<>>) = c
<1>1. \A k : About(<<>>, k) = {}
  BY DEF About
<1>2. <<>> \in Seq(Stmts)
  OBVIOUS
<1>3. \A k \in Keys : Applied(c, <<>>)[k] = c[k]
  BY <1>1, <1>2, AppliedAt
<1> QED
  BY <1>3, AppliedMap DEF Maps

\* Statements one after the other.
LEMMA AppliedConcat ==
  ASSUME NEW S, NEW s \in Seq(S), NEW t \in Seq(S), NEW c
  PROVE  Applied(c, s \o t) = Applied(Applied(c, s), t)
<1> DEFINE u == s \o t
<1>1. /\ u \in Seq(S) /\ Len(u) = Len(s) + Len(t)
      /\ \A i \in 1..(Len(s) + Len(t)) : u[i] = IF i <= Len(s) THEN s[i] ELSE t[i - Len(s)]
  BY ConcatProperties
<1>2. Len(s) \in Nat /\ Len(t) \in Nat
  OBVIOUS
<1> HIDE DEF u
<1>3. ASSUME NEW k \in Keys
      PROVE  Applied(c, u)[k] = Applied(Applied(c, s), t)[k]
  <2>1. \A i \in 1..Len(s) : i \in About(u, k) <=> i \in About(s, k)
    BY <1>1, <1>2 DEF About
  <2>2. \A i \in 1..Len(t) : Len(s) + i \in About(u, k) <=> i \in About(t, k)
    <3> TAKE i \in 1..Len(t)
    <3>1. Len(s) + i \in 1..Len(u) /\ ~(Len(s) + i <= Len(s)) /\ Len(s) + i - Len(s) = i
      BY <1>1, <1>2
    <3>2. u[Len(s) + i] = t[i]
      BY <1>1, <3>1
    <3> QED
      BY <1>1, <3>1, <3>2 DEF About
  <2>3. \A i \in About(u, k) : i \in 1..Len(s) \/ (i - Len(s) \in 1..Len(t) /\ i = Len(s) + (i - Len(s)))
    BY <1>1, <1>2 DEF About
  <2>4. CASE About(t, k) # {}
    <3>1. PICK i \in About(t, k) :
            /\ \A j \in About(t, k) : i >= j
            /\ Applied(Applied(c, s), t)[k] = After(t[i])
      BY <2>4, AppliedAt
    <3>2. i \in 1..Len(t)
      BY DEF About
    <3>3. Len(s) + i \in About(u, k) /\ u[Len(s) + i] = t[i]
      <4>1. Len(s) + i \in 1..(Len(s) + Len(t)) /\ ~(Len(s) + i <= Len(s)) /\ Len(s) + i - Len(s) = i
        BY <1>2, <3>2
      <4> QED
        BY <1>1, <2>2, <3>2, <4>1
    <3>4. \A j \in About(u, k) : Len(s) + i >= j
      <4> TAKE j \in About(u, k)
      <4>1. CASE j \in 1..Len(s)
        BY <1>2, <3>2, <4>1
      <4>2. CASE j - Len(s) \in 1..Len(t) /\ j = Len(s) + (j - Len(s))
        <5>1. j - Len(s) \in About(t, k)
          BY <2>2, <4>2
        <5>2. i >= j - Len(s)
          BY <3>1, <5>1
        <5> QED
          BY <1>2, <3>2, <4>2, <5>2
      <4> QED
        BY <2>3, <4>1, <4>2
    <3>5. Applied(c, u)[k] = After(u[Len(s) + i])
      BY <1>1, <3>3, <3>4, AppliedIs
    <3> QED
      BY <3>1, <3>3, <3>5
  <2>5. CASE About(t, k) = {} /\ About(s, k) # {}
    <3>1. PICK i \in About(s, k) :
            /\ \A j \in About(s, k) : i >= j
            /\ Applied(c, s)[k] = After(s[i])
      BY <2>5, AppliedAt
    <3>2. i \in 1..Len(s)
      BY DEF About
    <3>3. i \in About(u, k) /\ u[i] = s[i]
      <4>1. i \in 1..(Len(s) + Len(t)) /\ i <= Len(s)
        BY <1>2, <3>2
      <4> QED
        BY <1>1, <2>1, <3>2, <4>1
    <3>4. \A j \in About(u, k) : i >= j
      BY <2>1, <2>2, <2>3, <2>5, <3>1
    <3>5. Applied(c, u)[k] = After(u[i])
      BY <1>1, <3>3, <3>4, AppliedIs
    <3> QED
      BY <2>5, <3>1, <3>3, <3>5, AppliedAt
  <2>6. CASE About(t, k) = {} /\ About(s, k) = {}
    <3>1. About(u, k) = {}
      BY <2>1, <2>2, <2>3, <2>6
    <3>2. Applied(c, u)[k] = c[k] /\ Applied(c, s)[k] = c[k]
      BY <1>1, <2>6, <3>1, AppliedAt
    <3>3. Applied(Applied(c, s), t)[k] = Applied(c, s)[k]
      BY <2>6, AppliedAt
    <3> QED
      BY <3>2, <3>3
  <2> QED
    BY <2>4, <2>5, <2>6
<1>4. Applied(c, u) = Applied(Applied(c, s), t)
  <2>1. Applied(c, u) = [k \in Keys |-> Applied(c, u)[k]]
    BY AppliedMap
  <2>2. Applied(Applied(c, s), t) = [k \in Keys |-> Applied(Applied(c, s), t)[k]]
    BY AppliedMap
  <2> QED
    BY <1>3, <2>1, <2>2, Zenon
<1> QED
  BY <1>4 DEF u

\* What is said about every key that was said anything of before hides it.
LEMMA AppliedOver ==
  ASSUME NEW S, NEW p \in Seq(S), NEW s \in Seq(S), NEW c,
         \A k \in Keys : About(s, k) = {} => About(p, k) = {}
  PROVE  Applied(Applied(c, p), s) = Applied(c, s)
<1>1. ASSUME NEW k \in Keys
      PROVE  Applied(Applied(c, p), s)[k] = Applied(c, s)[k]
  <2>1. CASE About(s, k) = {}
    <3>1. About(p, k) = {}
      BY <2>1
    <3>2. Applied(Applied(c, p), s)[k] = Applied(c, p)[k] /\ Applied(c, s)[k] = c[k]
      BY <2>1, AppliedAt
    <3>3. Applied(c, p)[k] = c[k]
      BY <3>1, AppliedAt
    <3> QED
      BY <3>2, <3>3
  <2>2. CASE About(s, k) # {}
    <3>1. PICK i \in About(s, k) :
            /\ \A j \in About(s, k) : i >= j
            /\ Applied(c, s)[k] = After(s[i])
      BY <2>2, AppliedAt
    <3> QED
      BY <3>1, AppliedIs
  <2> QED
    BY <2>1, <2>2
<1>2. Applied(Applied(c, p), s) = [k \in Keys |-> Applied(Applied(c, p), s)[k]]
  BY AppliedMap
<1>3. Applied(c, s) = [k \in Keys |-> Applied(c, s)[k]]
  BY AppliedMap
<1> QED
  BY <1>1, <1>2, <1>3, Zenon

\* A beginning of some statements, and then all of them.
LEMMA AppliedAgain ==
  ASSUME NEW S, NEW s \in Seq(S), NEW m \in 0..Len(s), NEW n \in m..Len(s), NEW c
  PROVE  Applied(Applied(c, SubSeq(s, 1, m)), SubSeq(s, 1, n)) = Applied(c, SubSeq(s, 1, n))
<1> DEFINE p == SubSeq(s, 1, m)
           q == SubSeq(s, 1, n)
<1>0. n \in 0..Len(s)
  OBVIOUS
<1>1. p \in Seq(S) /\ Len(p) = m /\ \A i \in 1..m : p[i] = s[i]
  BY Beginning
<1>2. q \in Seq(S) /\ Len(q) = n /\ \A i \in 1..n : q[i] = s[i]
  BY <1>0, Beginning
<1> HIDE DEF p, q
<1>3. ASSUME NEW k \in Keys, NEW i \in About(p, k)
      PROVE  i \in About(q, k)
  <2>1. i \in 1..m /\ i \in 1..n /\ KeyOf(p[i]) = k
    BY <1>1 DEF About
  <2> QED
    BY <1>1, <1>2, <2>1 DEF About
<1>4. \A k \in Keys : About(q, k) = {} => About(p, k) = {}
  BY <1>3
<1>5. Applied(Applied(c, p), q) = Applied(c, q)
  BY <1>1, <1>2, <1>4, AppliedOver, ZenonT(40)
<1> QED
  BY <1>5 DEF p, q

\* Statements about different keys, and then a beginning of them.
LEMMA AppliedOnce ==
  ASSUME NEW S, NEW p \in Seq(S), ~Twice(p), NEW j \in 0..Len(p), NEW c
  PROVE  Applied(Applied(c, p), SubSeq(p, 1, j)) = Applied(c, p)
<1> DEFINE q == SubSeq(p, 1, j)
<1>1. q \in Seq(S) /\ Len(q) = j /\ \A i \in 1..j : q[i] = p[i]
  BY Beginning
<1> HIDE DEF q
<1>2. ASSUME NEW k \in Keys
      PROVE  Applied(Applied(c, p), q)[k] = Applied(c, p)[k]
  <2>1. CASE About(q, k) = {}
    BY <1>1, <2>1, AppliedAt
  <2>2. CASE About(q, k) # {}
    <3>1. PICK i \in About(q, k) : Applied(Applied(c, p), q)[k] = After(q[i])
      BY <1>1, <2>2, AppliedAt
    <3>2. i \in 1..j /\ i \in 1..Len(p) /\ KeyOf(q[i]) = k
      BY <1>1 DEF About
    <3>3. i \in About(p, k) /\ q[i] = p[i]
      BY <1>1, <3>2 DEF About
    <3>4. \A n \in About(p, k) : n = i
      BY <3>3 DEF About, Twice, KeyOf
    <3>5. \A n \in About(p, k) : i >= n
      BY <3>2, <3>4
    <3>6. Applied(c, p)[k] = After(p[i])
      BY <3>3, <3>5, AppliedIs
    <3> QED
      BY <3>1, <3>3, <3>6
  <2> QED
    BY <2>1, <2>2
<1>3. Applied(Applied(c, p), q) = [k \in Keys |-> Applied(Applied(c, p), q)[k]]
  BY AppliedMap
<1>4. Applied(c, p) = [k \in Keys |-> Applied(c, p)[k]]
  BY AppliedMap
<1>5. Applied(Applied(c, p), q) = Applied(c, p)
  BY <1>2, <1>3, <1>4, Zenon
<1> QED
  BY <1>5 DEF q

-----------------------------------------------------------------------------
(* Maps as the log holds them *)

LEMMA SavedType ==
  ASSUME NEW m \in Maps
  PROVE  /\ \A k \in Keys : Saved(m)[k] = IF m[k] = Nil THEN Nil ELSE Stored(m[k])
         /\ Plain => Saved(m) \in Maps /\ Saved(Saved(m)) = Saved(m)
<1>1. \A k \in Keys : Saved(m)[k] = IF m[k] = Nil THEN Nil ELSE Stored(m[k])
  BY DEF Saved
<1>2. ASSUME Plain, NEW k \in Keys
      PROVE  /\ Saved(m)[k] \in Held \cup {Nil}
             /\ (IF Saved(m)[k] = Nil THEN Nil ELSE Stored(Saved(m)[k])) = Saved(m)[k]
  <2>1. CASE m[k] = Nil
    BY <1>1, <2>1
  <2>2. CASE m[k] # Nil
    <3>1. m[k] \in Held
      BY <2>2 DEF Maps
    <3>2. Stored(m[k]) \in Held /\ Stored(Stored(m[k])) = Stored(m[k])
      BY <1>2, <3>1, StoredHeld
    <3> QED
      BY <1>1, <2>2, <3>2
  <2> QED
    BY <2>1, <2>2
<1>3. ASSUME Plain PROVE Saved(m) \in Maps
  <2>1. Saved(m) = [k \in Keys |-> Saved(m)[k]]
    BY DEF Saved
  <2>2. \A k \in Keys : Saved(m)[k] \in Held \cup {Nil}
    BY <1>2, <1>3
  <2> QED
    BY <2>1, <2>2 DEF Maps
<1>4. ASSUME Plain PROVE Saved(Saved(m)) = Saved(m)
  <2> DEFINE n == Saved(m)
  <2>1. n = [k \in Keys |-> n[k]]
    BY DEF Saved
  <2>2. Saved(n) = [k \in Keys |-> IF n[k] = Nil THEN Nil ELSE Stored(n[k])]
    BY DEF Saved
  <2>3. \A k \in Keys : (IF n[k] = Nil THEN Nil ELSE Stored(n[k])) = n[k]
    BY <1>2, <1>4
  <2> QED
    BY <2>1, <2>2, <2>3, Zenon
<1> QED
  BY <1>1, <1>3, <1>4

\* A map of what was read is as the log holds it.
LEMMA AppliedSaved ==
  ASSUME Plain, NEW stmts \in Seq(Stmts), NEW c \in Maps, Saved(c) = c
  PROVE  Saved(Applied(c, stmts)) = Applied(c, stmts) /\ Applied(c, stmts) \in Maps
<1> DEFINE n == Applied(c, stmts)
<1>1. n \in Maps
  <2>1. \A i \in 1..Len(stmts) : stmts[i] \in Stmts
    BY ElementOfSeq
  <2>2. \A i \in 1..Len(stmts) : Parses(stmts[i])
    BY <2>1, PlainStmts
  <2> QED
    BY <2>2, AppliedType
<1>2. ASSUME NEW k \in Keys PROVE (IF n[k] = Nil THEN Nil ELSE Stored(n[k])) = n[k]
  <2>1. CASE About(stmts, k) = {}
    <3>1. n[k] = c[k]
      BY <2>1, AppliedAt
    <3>2. Saved(c)[k] = IF c[k] = Nil THEN Nil ELSE Stored(c[k])
      BY SavedType
    <3> QED
      BY <3>1, <3>2
  <2>2. CASE About(stmts, k) # {}
    <3>1. PICK i \in About(stmts, k) : n[k] = After(stmts[i])
      BY <2>2, AppliedAt
    <3>2. stmts[i] \in Stmts
      <4>1. i \in 1..Len(stmts)
        BY DEF About
      <4> QED
        BY <4>1, ElementOfSeq
    <3>3. CASE stmts[i][1] = INSERT
      <4>1. PICK e \in Held : n[k] = Stored(e)
        BY <3>1, <3>2, <3>3, PlainStmts
      <4>2. Stored(Stored(e)) = Stored(e)
        BY StoredHeld
      <4> QED
        BY <4>1, <4>2
    <3>4. CASE stmts[i][1] # INSERT
      BY <3>1, <3>4 DEF After
    <3> QED
      BY <3>3, <3>4
  <2> QED
    BY <2>1, <2>2
<1>3. n = [k \in Keys |-> n[k]]
  BY AppliedMap
<1>4. Saved(n) = [k \in Keys |-> IF n[k] = Nil THEN Nil ELSE Stored(n[k])]
  BY DEF Saved
<1> HIDE DEF n
<1>5. Saved(n) = n
  BY <1>2, <1>3, <1>4, Zenon
<1> QED
  BY <1>1, <1>5 DEF n

LEMMA NoEntriesType == NoEntries \in Maps /\ Saved(NoEntries) = NoEntries
<1>1. NoEntries \in Maps
  BY DEF NoEntries, Maps
<1> QED
  BY <1>1 DEF NoEntries, Saved

-----------------------------------------------------------------------------
(* The statements of a transaction, and of a compaction *)

LEMMA ChangeType ==
  \A x \in Changes :
    /\ x[1] \in Keys /\ x[2] \in Held \cup {Nil} /\ (x[2] # Nil => x[2].k = x[1])
    /\ Stmt(x) \in Stmts
<1> SUFFICES ASSUME NEW x \in Changes
             PROVE  /\ x[1] \in Keys /\ x[2] \in Held \cup {Nil} /\ (x[2] # Nil => x[2].k = x[1])
                    /\ Stmt(x) \in Stmts
  OBVIOUS
<1>1. CASE \E e \in Entries : x = <<e.k, e>>
  <2>1. PICK e \in Entries : x = <<e.k, e>>
    BY <1>1
  <2>2. e \in EntryRecords /\ e # Nil /\ (Plain => e \in PlainEntries)
    BY LogAssumption DEF Plain
  <2>3. e \in Held /\ e.k \in Keys
    BY <2>2 DEF Held, EntryRecords
  <2>4. x[1] = e.k /\ x[2] = e
    BY <2>1
  <2>5. Stmt(x) = EntryInsertStmt(e)
    BY <2>2, <2>4 DEF Stmt
  <2> QED
    BY <2>3, <2>4, <2>5 DEF Stmts
<1>2. CASE \E k \in Keys : x = <<k, Nil>>
  <2>1. PICK k \in Keys : x = <<k, Nil>>
    BY <1>2
  <2>2. x[1] = k /\ x[2] = Nil
    BY <2>1
  <2>3. Stmt(x) = EntryDeleteStmt(k)
    BY <2>2 DEF Stmt
  <2> QED
    BY <2>2, <2>3 DEF Stmts
<1> QED
  BY <1>1, <1>2 DEF Changes

StmtsFor(ch) == [i \in DOMAIN ch |-> Stmt(ch[i])]

LEMMA ForwardType ==
  ASSUME NEW ch \in Forwards
  PROVE  /\ ch \in Seq(Changes) /\ Len(ch) > 0
         /\ \A i, j \in DOMAIN ch : i # j => ch[i][1] # ch[j][1]
         /\ StmtsFor(ch) \in Seq(Stmts) /\ Len(StmtsFor(ch)) = Len(ch)
         /\ \A i \in 1..Len(ch) : StmtsFor(ch)[i] = Stmt(ch[i])
<1>1. ch \in BoundedSeq(Changes, Cardinality(Keys)) /\ ch # <<>>
      /\ \A i, j \in DOMAIN ch : i # j => ch[i][1] # ch[j][1]
  BY DEF Forwards
<1>2. ch \in Seq(Changes)
  <2>1. PICK m \in 0..Cardinality(Keys) : ch \in [1..m -> Changes]
    BY <1>1 DEF BoundedSeq, SeqOf
  <2>2. m \in Nat
    OBVIOUS
  <2> QED
    BY <2>1, <2>2, IsASeq
<1>3. Len(ch) > 0 /\ Len(ch) \in Nat /\ DOMAIN ch = 1..Len(ch)
  BY <1>1, <1>2
<1>4. \A i \in 1..Len(ch) : Stmt(ch[i]) \in Stmts
  <2> TAKE i \in 1..Len(ch)
  <2>1. ch[i] \in Changes
    BY <1>2, ElementOfSeq
  <2> QED
    BY <2>1, ChangeType
<1>5. StmtsFor(ch) = [i \in 1..Len(ch) |-> Stmt(ch[i])]
  BY <1>3 DEF StmtsFor
<1>6. StmtsFor(ch) \in Seq(Stmts) /\ Len(StmtsFor(ch)) = Len(ch)
  BY <1>3, <1>4, <1>5
<1> QED
  BY <1>1, <1>2, <1>3, <1>5, <1>6

\* The map after a transaction.
LEMMA PutType ==
  ASSUME NEW m \in Maps, NEW ch \in Forwards
  PROVE  /\ Put(m, ch) \in Maps
         /\ \A k \in Keys : (\A i \in 1..Len(ch) : ch[i][1] # k) => Put(m, ch)[k] = m[k]
         /\ \A i \in 1..Len(ch) : Put(m, ch)[ch[i][1]] = ch[i][2]
         /\ (\A k \in Keys : m[k] # Nil => m[k].k = k) =>
              \A k \in Keys : Put(m, ch)[k] # Nil => Put(m, ch)[k].k = k
<1>1. /\ ch \in Seq(Changes) /\ DOMAIN ch = 1..Len(ch)
      /\ \A i, j \in DOMAIN ch : i # j => ch[i][1] # ch[j][1]
  BY ForwardType
<1>2. ASSUME NEW i \in 1..Len(ch)
      PROVE  /\ ch[i][1] \in Keys /\ ch[i][2] \in Held \cup {Nil}
             /\ (ch[i][2] # Nil => ch[i][2].k = ch[i][1])
  <2>1. ch[i] \in Changes
    BY <1>1, ElementOfSeq
  <2> QED
    BY <2>1, ChangeType
<1>3. ASSUME NEW k \in Keys, \A i \in 1..Len(ch) : ch[i][1] # k
      PROVE  Put(m, ch)[k] = m[k]
  BY <1>1, <1>3 DEF Put
<1>4. ASSUME NEW i \in 1..Len(ch)
      PROVE  Put(m, ch)[ch[i][1]] = ch[i][2]
  <2> DEFINE k == ch[i][1]
             n == CHOOSE j \in DOMAIN ch : ch[j][1] = k
  <2>1. n \in DOMAIN ch /\ ch[n][1] = k
    BY <1>1
  <2>2. n = i
    BY <1>1, <2>1
  <2>3. k \in Keys /\ Put(m, ch)[k] = ch[n][2]
    BY <1>1, <1>2 DEF Put
  <2> QED
    BY <2>2, <2>3
<1>5. ASSUME NEW k \in Keys
      PROVE  /\ Put(m, ch)[k] \in Held \cup {Nil}
             /\ (\A j \in Keys : m[j] # Nil => m[j].k = j) =>
                  (Put(m, ch)[k] # Nil => Put(m, ch)[k].k = k)
  <2>1. CASE \A i \in 1..Len(ch) : ch[i][1] # k
    BY <1>3, <2>1 DEF Maps
  <2>2. CASE \E i \in 1..Len(ch) : ch[i][1] = k
    BY <1>2, <1>4, <2>2
  <2> QED
    BY <2>1, <2>2
<1>6. Put(m, ch) \in Maps
  <2>1. Put(m, ch) = [k \in Keys |-> Put(m, ch)[k]]
    BY DEF Put, Maps
  <2> QED
    BY <1>5, <2>1 DEF Maps
<1> QED
  BY <1>3, <1>4, <1>5, <1>6

\* The statements of a transaction bring what the log holds to what the bucket holds.
LEMMA AppliedPut ==
  ASSUME Plain, NEW m \in Maps, NEW ch \in Forwards
  PROVE  Applied(Saved(m), StmtsFor(ch)) = Saved(Put(m, ch))
<1> DEFINE s == StmtsFor(ch)
           p == Put(m, ch)
<1>1. /\ s \in Seq(Stmts) /\ Len(s) = Len(ch) /\ Len(s) \in Nat
      /\ \A i \in 1..Len(ch) : s[i] = Stmt(ch[i])
      /\ \A i, j \in 1..Len(ch) : i # j => ch[i][1] # ch[j][1]
  BY ForwardType
<1>2. ASSUME NEW i \in 1..Len(ch)
      PROVE  /\ KeyOf(s[i]) = ch[i][1] /\ ch[i][1] \in Keys
             /\ After(s[i]) = IF ch[i][2] = Nil THEN Nil ELSE Stored(ch[i][2])
  <2>1. ch[i] \in Changes
    BY ForwardType, ElementOfSeq
  <2>2. ch[i][1] \in Keys /\ ch[i][2] \in Held \cup {Nil} /\ (ch[i][2] # Nil => ch[i][2].k = ch[i][1])
    BY <2>1, ChangeType
  <2>3. s[i] = Stmt(ch[i])
    BY <1>1
  <2> HIDE DEF s
  <2> QED
    BY <2>2, <2>3, InsertRead, DeleteRead DEF Stmt
<1>3. /\ p \in Maps
      /\ \A k \in Keys : (\A i \in 1..Len(ch) : ch[i][1] # k) => p[k] = m[k]
      /\ \A i \in 1..Len(ch) : p[ch[i][1]] = ch[i][2]
  BY PutType
<1> HIDE DEF s, p
<1>4. ASSUME NEW k \in Keys
      PROVE  Applied(Saved(m), s)[k] = Saved(p)[k]
  <2>1. CASE \A i \in 1..Len(ch) : ch[i][1] # k
    <3>1. About(s, k) = {}
      BY <1>1, <1>2, <2>1 DEF About
    <3>2. Applied(Saved(m), s)[k] = Saved(m)[k]
      BY <1>1, <3>1, AppliedAt
    <3>3. p[k] = m[k]
      BY <1>3, <2>1
    <3> QED
      BY <1>3, <3>2, <3>3, SavedType
  <2>2. CASE \E i \in 1..Len(ch) : ch[i][1] = k
    <3>1. PICK i \in 1..Len(ch) : ch[i][1] = k
      BY <2>2
    <3>2. i \in About(s, k)
      BY <1>1, <1>2, <3>1 DEF About
    <3>3. \A j \in About(s, k) : j = i
      BY <1>1, <1>2, <3>1 DEF About
    <3>4. \A j \in About(s, k) : i >= j
      BY <3>3
    <3>5. Applied(Saved(m), s)[k] = After(s[i])
      BY <1>1, <3>2, <3>4, AppliedIs
    <3>6. p[k] = ch[i][2]
      BY <1>3, <3>1
    <3> QED
      BY <1>2, <1>3, <3>5, <3>6, SavedType
  <2> QED
    BY <2>1, <2>2
<1>5. Applied(Saved(m), s) = [k \in Keys |-> Applied(Saved(m), s)[k]]
  BY AppliedMap
<1>6. Saved(p) = [k \in Keys |-> Saved(p)[k]]
  BY DEF Saved
<1>7. Applied(Saved(m), s) = Saved(p)
  BY <1>4, <1>5, <1>6, Zenon
<1> QED
  BY <1>7 DEF s, p

\* Induction by the least number for which something would fail.
LEMMA LeastOf ==
  ASSUME NEW S, S \subseteq Nat, S # {}
  PROVE  \E m \in S : \A y \in S : y >= m
<1>1. PICK m \in S : \A y \in S : ~ (<<y, m>> \in OpToRel(<, Nat))
  BY WFMin, NatLessThanWellFounded, Zenon
<1>2. \A y \in S : ~ (y < m)
  BY <1>1, Zenon DEF OpToRel
<1> QED
  BY <1>2

\* The statements of the first keys, as compactLog gathers them.
Gathered(f, m, n) ==
  f = [i \in 0..n |->
         IF i = 0 THEN <<>>
         ELSE IF m[KeyOrder[i]] = Nil THEN f[i - 1]
         ELSE Append(f[i - 1], EntryInsertStmt(m[KeyOrder[i]]))]

LEMMA GatheredExists ==
  ASSUME NEW m
  PROVE  \E f : Gathered(f, m, Len(KeyOrder))
<1> DEFINE N == Len(KeyOrder)
           Bad == {n \in 0..N : ~ \E f : Gathered(f, m, n)}
<1>0. N \in Nat
  <2>1. KeyOrder \in Seq(Text)
    BY LogAssumption
  <2> QED
    BY <2>1
<1>1. SUFFICES ASSUME Bad # {} PROVE FALSE
  <2>1. N \in 0..N
    BY <1>0
  <2> QED
    BY <2>1
<1>2. PICK n \in Bad : \A y \in Bad : y >= n
  <2>1. Bad \subseteq Nat
    OBVIOUS
  <2> HIDE DEF Bad
  <2> QED
    BY <1>1, <2>1, LeastOf
<1>3. n \in Nat /\ n <= N
  BY <1>0
<1>4. CASE n = 0
  <2> DEFINE f == [i \in 0..0 |-> <<>>]
  <2>1. Gathered(f, m, 0)
    BY DEF Gathered
  <2> QED
    BY <1>4, <2>1
<1>5. CASE n # 0
  <2>1. n - 1 \in 0..N /\ ~(n - 1 >= n)
    BY <1>0, <1>3, <1>5
  <2>2. PICK f : Gathered(f, m, n - 1)
    BY <1>2, <2>1
  <2> DEFINE next(g, i) == IF m[KeyOrder[i]] = Nil THEN g[i - 1]
                           ELSE Append(g[i - 1], EntryInsertStmt(m[KeyOrder[i]]))
             g == [i \in 0..n |-> IF i = n THEN next(f, n) ELSE f[i]]
  <2>3. ASSUME NEW i \in 0..n
        PROVE  g[i] = IF i = 0 THEN <<>> ELSE next(g, i)
    <3>1. CASE i = n
      <4>1. n - 1 \in 0..n /\ n - 1 # n
        BY <1>3, <1>5
      <4>2. g[n - 1] = f[n - 1]
        BY <4>1
      <4> QED
        BY <1>5, <3>1, <4>2
    <3>2. CASE i # n
      <4>1. i \in 0..(n - 1)
        BY <1>3, <3>2
      <4>2. f[i] = IF i = 0 THEN <<>> ELSE next(f, i)
        BY <2>2, <4>1 DEF Gathered
      <4>3. i # 0 => g[i - 1] = f[i - 1]
        <5>1. i # 0 => i - 1 \in 0..n /\ i - 1 # n
          BY <1>3, <3>2
        <5> QED
          BY <5>1
      <4>4. g[i] = f[i]
        BY <3>2
      <4> QED
        BY <4>2, <4>3, <4>4
    <3> QED
      BY <3>1, <3>2
  <2>4. g = [i \in 0..n |-> g[i]]
    OBVIOUS
  <2> HIDE DEF g
  <2>5. Gathered(g, m, n)
    BY <2>3, <2>4 DEF Gathered
  <2> QED
    BY <2>5
<1> QED
  BY <1>4, <1>5

\* They are insertions of what the map has, one at least for each key.
LEMMA GatheredStmts ==
  ASSUME NEW m \in Maps, NEW f, Gathered(f, m, Len(KeyOrder)), NEW n \in 0..Len(KeyOrder)
  PROVE  /\ f[n] \in Seq(Stmts)
         /\ \A i \in 1..Len(f[n]) : \E k \in Keys : m[k] # Nil /\ f[n][i] = EntryInsertStmt(m[k])
         /\ \A p \in 1..n : m[KeyOrder[p]] # Nil =>
              \E i \in 1..Len(f[n]) : f[n][i] = EntryInsertStmt(m[KeyOrder[p]])
<1> DEFINE N == Len(KeyOrder)
           A(s) == s \in Seq(Stmts)
           B(s) == \A i \in 1..Len(s) : \E k \in Keys : m[k] # Nil /\ s[i] = EntryInsertStmt(m[k])
           C(s, l) == \A p \in 1..l : m[KeyOrder[p]] # Nil =>
                        \E i \in 1..Len(s) : s[i] = EntryInsertStmt(m[KeyOrder[p]])
           Good(l) == A(f[l]) /\ B(f[l]) /\ C(f[l], l)
           Bad == {l \in 0..N : ~Good(l)}
<1>0. N \in Nat /\ \A i \in 1..N : KeyOrder[i] \in Keys
  <2>1. KeyOrder \in Seq(Text)
    BY LogAssumption
  <2> QED
    BY <2>1 DEF Keys, ToSet
<1>1. \A l \in 0..N : f[l] = IF l = 0 THEN <<>>
                             ELSE IF m[KeyOrder[l]] = Nil THEN f[l - 1]
                             ELSE Append(f[l - 1], EntryInsertStmt(m[KeyOrder[l]]))
  BY DEF Gathered
<1>2. Bad = {}
  <2> SUFFICES ASSUME Bad # {} PROVE FALSE
    OBVIOUS
  <2>1. PICK l \in Bad : \A y \in Bad : y >= l
    <3>1. Bad \subseteq Nat
      OBVIOUS
    <3> HIDE DEF Bad
    <3> QED
      BY <3>1, LeastOf
  <2>2. l \in Nat /\ l <= N /\ ~Good(l) /\ l \in 0..N
    BY <1>0
  <2>3. l # 0
    <3>1. 0 \in 0..N
      BY <1>0
    <3>2. f[0] = <<>>
      BY <1>1, <3>1
    <3>3. A(f[0]) /\ B(f[0])
      BY <3>2
    <3>4. C(f[0], 0)
      OBVIOUS
    <3>5. Good(0)
      BY <3>3, <3>4
    <3> QED
      BY <2>2, <3>5
  <2>4. Good(l - 1)
    <3>1. l - 1 \in 0..N /\ ~(l - 1 >= l)
      BY <2>2, <2>3
    <3> QED
      BY <2>1, <3>1
  <2> DEFINE s == f[l - 1]
             k == KeyOrder[l]
             e == m[k]
  <2>5. k \in Keys /\ \A p \in 1..l : p = l \/ p \in 1..(l - 1)
    BY <1>0, <2>2, <2>3
  <2>6. f[l] = IF e = Nil THEN s ELSE Append(s, EntryInsertStmt(e))
    BY <1>1, <2>2, <2>3
  <2>7. A(s) /\ B(s) /\ C(s, l - 1)
    BY <2>4
  <2>8. CASE e = Nil
    <3>1. C(s, l)
      BY <2>5, <2>7, <2>8
    <3> QED
      BY <2>2, <2>6, <2>7, <2>8, <3>1
  <2>9. CASE e # Nil
    <3> DEFINE x == EntryInsertStmt(e)
               t == Append(s, x)
    <3>1. x \in Stmts
      <4>1. e \in Held
        BY <2>5, <2>9 DEF Maps
      <4> QED
        BY <4>1 DEF Stmts
    <3>2. /\ t \in Seq(Stmts) /\ Len(t) = Len(s) + 1
          /\ \A i \in 1..Len(s) : t[i] = s[i]
          /\ t[Len(s) + 1] = x
      <4>1. s \in Seq(Stmts)
        BY <2>7
      <4> HIDE DEF s, x
      <4> QED
        BY <3>1, <4>1, AppendProperties
    <3>3. Len(s) \in Nat
      BY <2>7
    <3>4. B(t)
      <4> SUFFICES ASSUME NEW i \in 1..Len(t)
                   PROVE  \E q \in Keys : m[q] # Nil /\ t[i] = EntryInsertStmt(m[q])
        OBVIOUS
      <4>1. i \in 1..Len(s) \/ i = Len(s) + 1
        BY <3>2, <3>3
      <4> QED
        BY <2>5, <2>7, <2>9, <3>2, <4>1
    <3>5. C(t, l)
      <4> SUFFICES ASSUME NEW p \in 1..l, m[KeyOrder[p]] # Nil
                   PROVE  \E i \in 1..Len(t) : t[i] = EntryInsertStmt(m[KeyOrder[p]])
        OBVIOUS
      <4>1. Len(s) + 1 \in 1..Len(t) /\ \A i \in 1..Len(s) : i \in 1..Len(t)
        BY <3>2, <3>3
      <4> QED
        BY <2>5, <2>7, <3>2, <4>1, SMTT(30)
    <3>6. f[l] = t
      BY <2>6, <2>9
    <3>7. Good(l)
      <4>1. A(t) /\ B(t) /\ C(t, l)
        BY <3>2, <3>4, <3>5
      <4> HIDE DEF A, B, C, t
      <4> QED
        BY <3>6, <4>1
    <3> QED
      BY <2>2, <3>7
  <2> QED
    BY <2>8, <2>9
<1>3. Good(n)
  BY <1>2
<1> QED
  BY <1>3

LEMMA Multiple ==
  ASSUME NEW x \in Nat, NEW d \in Nat, d > 0
  PROVE  (x \div d) * d \in 0..x
<1>1. x \div d \in Nat
  OBVIOUS
<1>2. (x \div d) * d \in Nat
  BY <1>1
<1>3. (x \div d) * d <= x
  BY SMTT(20)
<1> QED
  BY <1>2, <1>3

\* The statements of the entries: one at least for each key that has an entry.
LEMMA AllType ==
  ASSUME mem \in Maps
  PROVE  /\ AllStmts \in Seq(Stmts)
         /\ \A i \in 1..Len(AllStmts) :
              \E k \in Keys : mem[k] # Nil /\ AllStmts[i] = EntryInsertStmt(mem[k])
         /\ \A k \in Keys : mem[k] # Nil =>
              \E i \in 1..Len(AllStmts) : AllStmts[i] = EntryInsertStmt(mem[k])
<1> DEFINE f == CHOOSE g : Gathered(g, mem, Len(KeyOrder))
           all == f[Len(KeyOrder)]
<1>1. Gathered(f, mem, Len(KeyOrder))
  BY GatheredExists
<1>2. AllStmts = all
  BY DEF AllStmts, Gathered
<1> HIDE DEF f
<1>3. Len(KeyOrder) \in 0..Len(KeyOrder)
  <2>1. KeyOrder \in Seq(Text)
    BY LogAssumption
  <2> QED
    BY <2>1
<1>4. /\ all \in Seq(Stmts)
      /\ \A i \in 1..Len(all) : \E k \in Keys : mem[k] # Nil /\ all[i] = EntryInsertStmt(mem[k])
      /\ \A p \in 1..Len(KeyOrder) : mem[KeyOrder[p]] # Nil =>
           \E i \in 1..Len(all) : all[i] = EntryInsertStmt(mem[KeyOrder[p]])
  BY <1>1, <1>3, GatheredStmts
<1> HIDE DEF all
<1>5. \A k \in Keys : \E p \in 1..Len(KeyOrder) : k = KeyOrder[p]
  <2>1. KeyOrder \in Seq(Text)
    BY LogAssumption
  <2> QED
    BY <2>1 DEF Keys, ToSet
<1> QED
  BY <1>2, <1>4, <1>5

\* A compaction writes a beginning of them.
LEMMA CompactType ==
  ASSUME mem \in Maps
  PROVE  /\ CompactStmts \in Seq(Stmts)
         /\ \E n \in 0..Len(AllStmts) : CompactStmts = SubSeq(AllStmts, 1, n)
<1>1. PICK all : all = AllStmts
  OBVIOUS
<1>2. PICK n : n = (Len(all) \div Chunk) * Chunk
  OBVIOUS
<1>3. all \in Seq(Stmts)
  BY <1>1, AllType
<1>4. n \in 0..Len(all)
  <2>1. Len(all) \in Nat /\ Chunk \in Nat /\ Chunk > 0
    <3>1. Chunk \in Nat \ {0}
      BY LogAssumption
    <3> QED
      BY <1>3, <3>1
  <2> QED
    BY <1>2, <2>1, Multiple, Zenon
<1>5. CompactStmts = SubSeq(all, 1, n)
  BY <1>1, <1>2 DEF CompactStmts
<1>6. SubSeq(all, 1, n) \in Seq(Stmts)
  BY <1>3, <1>4, Beginning
<1> QED
  BY <1>1, <1>4, <1>5, <1>6

\* Together they give what the bucket holds.
LEMMA AppliedAll ==
  ASSUME Plain, mem \in Maps, \A k \in Keys : mem[k] # Nil => mem[k].k = k
  PROVE  Applied(NoEntries, AllStmts) = Saved(mem)
<1> DEFINE s == AllStmts
<1>1. /\ s \in Seq(Stmts)
      /\ \A i \in 1..Len(s) : \E k \in Keys : mem[k] # Nil /\ s[i] = EntryInsertStmt(mem[k])
      /\ \A k \in Keys : mem[k] # Nil => \E i \in 1..Len(s) : s[i] = EntryInsertStmt(mem[k])
  BY AllType
<1> HIDE DEF s
<1>2. ASSUME NEW k \in Keys, mem[k] # Nil
      PROVE  KeyOf(EntryInsertStmt(mem[k])) = k /\ After(EntryInsertStmt(mem[k])) = Stored(mem[k])
  <2>1. mem[k] \in Held
    BY <1>2 DEF Maps
  <2> QED
    BY <1>2, <2>1, InsertRead
<1>3. ASSUME NEW k \in Keys, NEW i \in About(s, k)
      PROVE  mem[k] # Nil /\ After(s[i]) = Stored(mem[k])
  <2>1. i \in 1..Len(s) /\ KeyOf(s[i]) = k
    BY <1>1 DEF About
  <2>2. PICK j \in Keys : mem[j] # Nil /\ s[i] = EntryInsertStmt(mem[j])
    BY <1>1, <2>1
  <2>3. j = k
    BY <1>2, <2>1, <2>2
  <2> QED
    BY <1>2, <2>2, <2>3
<1>4. ASSUME NEW k \in Keys
      PROVE  Applied(NoEntries, s)[k] = Saved(mem)[k]
  <2>1. CASE mem[k] = Nil
    <3>1. About(s, k) = {}
      BY <1>3, <2>1
    <3>2. Applied(NoEntries, s)[k] = NoEntries[k]
      BY <1>1, <3>1, AppliedAt
    <3> QED
      BY <2>1, <3>2, SavedType DEF NoEntries
  <2>2. CASE mem[k] # Nil
    <3>1. PICK i \in 1..Len(s) : s[i] = EntryInsertStmt(mem[k])
      BY <1>1, <2>2
    <3>2. i \in About(s, k)
      BY <1>1, <1>2, <2>2, <3>1 DEF About
    <3>3. PICK j \in About(s, k) : Applied(NoEntries, s)[k] = After(s[j])
      BY <1>1, <3>2, AppliedAt
    <3> QED
      BY <1>3, <2>2, <3>3, SavedType
  <2> QED
    BY <2>1, <2>2
<1>5. Applied(NoEntries, s) = [k \in Keys |-> Applied(NoEntries, s)[k]]
  BY AppliedMap
<1>6. Saved(mem) = [k \in Keys |-> Saved(mem)[k]]
  BY DEF Saved
<1>7. Applied(NoEntries, s) = Saved(mem)
  BY <1>4, <1>5, <1>6, Zenon
<1> QED
  BY <1>7 DEF s

-----------------------------------------------------------------------------
(* The file of the log *)

LEMMA UnitsType ==
  ASSUME NEW T, NEW stmts \in Seq(T)
  PROVE  /\ Units(stmts) \in Seq(UnitsOf(T)) /\ Len(Units(stmts)) = 4 * Len(stmts)
         /\ \A n \in 1..(4 * Len(stmts)) :
              Units(stmts)[n] = <<stmts[(n - 1) \div 4 + 1], ((n - 1) % 4) + 1>>
<1>1. 4 * Len(stmts) \in Nat
  OBVIOUS
<1>2. \A n \in 1..(4 * Len(stmts)) :
        (n - 1) \div 4 + 1 \in 1..Len(stmts) /\ ((n - 1) % 4) + 1 \in 1..4
  OBVIOUS
<1>3. \A n \in 1..(4 * Len(stmts)) :
        <<stmts[(n - 1) \div 4 + 1], ((n - 1) % 4) + 1>> \in UnitsOf(T)
  BY <1>2, ElementOfSeq DEF UnitsOf
<1>4. \A n \in 1..(4 * Len(stmts)) :
        Units(stmts)[n] = <<stmts[(n - 1) \div 4 + 1], ((n - 1) % 4) + 1>>
  BY DEF Units
<1>5. Units(stmts) \in [1..(4 * Len(stmts)) -> UnitsOf(T)]
  BY <1>3 DEF Units
<1>6. Units(stmts) \in Seq(UnitsOf(T))
  BY <1>1, <1>5
<1>7. Len(Units(stmts)) = 4 * Len(stmts)
  BY <1>1 DEF Units
<1> QED
  BY <1>4, <1>6, <1>7

\* Places in lines.
LEMMA LineCount ==
  ASSUME NEW k \in Nat, NEW n \in Nat
  PROVE  (4 * k + n) \div 4 = k + n \div 4 /\ n \div 4 \in Nat
  OBVIOUS

LEMMA LineStart ==
  ASSUME NEW k \in Nat, NEW p \in Nat \ {0}
  PROVE  LET q == p - ((p - 1) % 4)
         IN  /\ q \in 1..p /\ (q - 1) \div 4 = (p - 1) \div 4
             /\ (4 * k + p - 1) % 4 = (p - 1) % 4
             /\ 4 * k + p - ((4 * k + p - 1) % 4) = 4 * k + q
  OBVIOUS

LEMMA LineEnd ==
  ASSUME NEW n \in Nat, NEW j \in 1..(n \div 4)
  PROVE  4 * j \in 1..n /\ (4 * j - 1) \div 4 + 1 = j
  OBVIOUS

\* What is written to the end of a file of whole lines, as far as it is written.
LEMMA UnitsAfter ==
  ASSUME NEW T, NEW data \in Seq(UnitsOf(T)), Clean(data),
         NEW stmts \in Seq(T), NEW n \in 0..(4 * Len(stmts))
  PROVE  LET d == data \o SubSeq(Units(stmts), 1, n)
         IN  /\ d \in Seq(UnitsOf(T)) /\ Len(d) = Len(data) + n /\ InStep(d)
             /\ LineStmts(d) = LineStmts(data) \o SubSeq(stmts, 1, n \div 4)
<1> DEFINE u == SubSeq(Units(stmts), 1, n)
           d == data \o u
           k == Len(data) \div 4
           m == n \div 4
<1>0. k \in Nat /\ Len(data) = 4 * k /\ Len(data) \in Nat
  BY DEF Clean
<1>1. /\ u \in Seq(UnitsOf(T)) /\ Len(u) = n /\ n \in Nat
      /\ \A p \in 1..n : u[p] = <<stmts[(p - 1) \div 4 + 1], ((p - 1) % 4) + 1>>
  <2>1. Units(stmts) \in Seq(UnitsOf(T)) /\ Len(Units(stmts)) = 4 * Len(stmts)
    BY UnitsType
  <2>2. n \in 0..Len(Units(stmts))
    BY <2>1
  <2>3. u \in Seq(UnitsOf(T)) /\ Len(u) = n /\ \A p \in 1..n : u[p] = Units(stmts)[p]
    BY <2>1, <2>2, Beginning
  <2>4. n \in Nat /\ \A p \in 1..n : p \in 1..(4 * Len(stmts))
    OBVIOUS
  <2> HIDE DEF u
  <2> QED
    BY <2>3, <2>4, UnitsType
<1> HIDE DEF u
<1>2. /\ d \in Seq(UnitsOf(T)) /\ Len(d) = 4 * k + n
      /\ \A p \in 1..Len(data) : d[p] = data[p]
      /\ \A p \in 1..n : d[4 * k + p] = u[p]
      /\ \A p \in 1..(4 * k) : InStepAt(d, p)
  <2>1. /\ d \in Seq(UnitsOf(T)) /\ Len(d) = Len(data) + Len(u)
        /\ \A p \in 1..Len(data) : d[p] = data[p]
        /\ \A p \in 1..Len(u) : d[Len(data) + p] = u[p]
        /\ \A p \in 1..Len(data) : InStepAt(d, p) <=> InStepAt(data, p)
    BY <1>1, Longer, Zenon
  <2> HIDE DEF d
  <2> QED
    BY <1>0, <1>1, <2>1 DEF Clean, InStep
<1> HIDE DEF d
<1>3. ASSUME NEW p \in 1..n PROVE InStepAt(d, 4 * k + p)
  <2> DEFINE q == p - ((p - 1) % 4)
  <2>1. /\ q \in 1..n /\ (q - 1) \div 4 = (p - 1) \div 4
        /\ (4 * k + p - 1) % 4 = (p - 1) % 4
        /\ 4 * k + p - ((4 * k + p - 1) % 4) = 4 * k + q
    <3>1. p \in Nat \ {0} /\ \A x \in 1..p : x \in 1..n
      BY <1>1
    <3> QED
      BY <1>0, <3>1, LineStart, Zenon
  <2>2. d[4 * k + p] = <<stmts[(p - 1) \div 4 + 1], ((p - 1) % 4) + 1>>
    BY <1>1, <1>2
  <2>3. d[4 * k + q] = <<stmts[(q - 1) \div 4 + 1], ((q - 1) % 4) + 1>>
    BY <1>1, <1>2, <2>1
  <2>4. d[4 * k + q][1] = stmts[(p - 1) \div 4 + 1]
    BY <2>1, <2>3
  <2>5. InStepAt(d, 4 * k + p) <=>
          d[4 * k + p] = <<d[4 * k + q][1], ((p - 1) % 4) + 1>>
    BY <2>1 DEF InStepAt
  <2> QED
    BY <2>2, <2>4, <2>5
<1>4. InStep(d)
  <2> SUFFICES ASSUME NEW p \in 1..Len(d) PROVE InStepAt(d, p)
    BY DEF InStep
  <2>1. p \in 1..(4 * k) \/ (p - 4 * k \in 1..n /\ p = 4 * k + (p - 4 * k))
    BY <1>0, <1>1, <1>2
  <2> QED
    BY <1>2, <1>3, <2>1
<1>5. LineStmts(d) = LineStmts(data) \o SubSeq(stmts, 1, m)
  <2> DEFINE a == LineStmts(d)
             b == LineStmts(data)
             c == SubSeq(stmts, 1, m)
  <2> HIDE DEF k
  <2>0. m \in Nat /\ m \in 0..Len(stmts) /\ (4 * k + n) \div 4 = k + m
    <3>1. (4 * k + n) \div 4 = k + m
      BY <1>0, <1>1, LineCount, Zenon
    <3>2. m \in 0..Len(stmts)
      OBVIOUS
    <3> QED
      BY <3>1, <3>2
  <2>9. Len(d) \div 4 = k + m
    BY <1>2, <2>0
  <2>1. a \in Seq(T) /\ Len(a) = k + m
    <3>1. a \in Seq(T) /\ Len(a) = Len(d) \div 4
      BY <1>2, LineStmtsType, Zenon
    <3> QED
      BY <2>9, <3>1
  <2>2. b \in Seq(T) /\ Len(b) = k
    BY LineStmtsType DEF k
  <2>3. c \in Seq(T) /\ Len(c) = m /\ \A i \in 1..m : c[i] = stmts[i]
    BY <2>0, Beginning
  <2>4. \A i \in 1..(k + m) : a[i] = d[4 * i][1]
    BY <2>9 DEF LineStmts
  <2>5. \A i \in 1..k : b[i] = data[4 * i][1]
    BY DEF LineStmts, k
  <2> HIDE DEF a, b, c
  <2>6. /\ b \o c \in Seq(T) /\ Len(b \o c) = k + m
        /\ \A i \in 1..(k + m) : (b \o c)[i] = IF i <= k THEN b[i] ELSE c[i - k]
    <3>0. b \in Seq(T) /\ c \in Seq(T)
      BY <2>2, <2>3
    <3>1. b \o c \in Seq(T) /\ Len(b \o c) = Len(b) + Len(c)
      BY <3>0, ConcatProperties, Zenon
    <3>2. \A i \in 1..(Len(b) + Len(c)) :
             (b \o c)[i] = IF i <= Len(b) THEN b[i] ELSE c[i - Len(b)]
      BY <3>0, ConcatProperties, Zenon
    <3> QED
      BY <2>2, <2>3, <3>1, <3>2
  <2>7. ASSUME NEW i \in 1..(k + m) PROVE a[i] = (b \o c)[i]
    <3>1. CASE i <= k
      <4>1. i \in 1..k /\ 4 * i \in 1..Len(data)
        BY <1>0, <2>0, <3>1
      <4>2. d[4 * i] = data[4 * i]
        BY <1>2, <4>1
      <4> QED
        BY <2>4, <2>5, <2>6, <3>1, <4>1, <4>2
    <3>2. CASE ~(i <= k)
      <4> DEFINE j == i - k
      <4>1. /\ j \in 1..m /\ 4 * j \in 1..n /\ (4 * j - 1) \div 4 + 1 = j
            /\ 4 * i = 4 * k + 4 * j
        <5>1. j \in 1..m /\ 4 * i = 4 * k + 4 * j
          BY <1>0, <2>0, <3>2
        <5> QED
          BY <1>1, <5>1, LineEnd, Zenon
      <4>2. u[4 * j] = <<stmts[(4 * j - 1) \div 4 + 1], ((4 * j - 1) % 4) + 1>>
        BY <1>1, <4>1, Zenon
      <4>3. u[4 * j][1] = stmts[j]
        <5>1. u[4 * j][1] = stmts[(4 * j - 1) \div 4 + 1]
          <6> HIDE DEF j
          <6> QED
            BY <4>2
        <5> QED
          BY <4>1, <5>1
      <4>4. d[4 * i] = u[4 * j]
        BY <1>2, <4>1
      <4>5. a[i] = stmts[j]
        BY <2>4, <4>3, <4>4
      <4> QED
        BY <2>3, <2>6, <3>2, <4>1, <4>5
    <3> QED
      BY <3>1, <3>2
  <2>8. a = b \o c
    BY <2>1, <2>6, <2>7, SeqEqual
  <2> QED
    BY <2>8 DEF a, b, c
<1> QED
  BY <1>0, <1>2, <1>4, <1>5 DEF d, u

\* Whole lines are clean, and after clean ones remain so.
LEMMA UnitsClean ==
  ASSUME NEW T, NEW data \in Seq(UnitsOf(T)), Clean(data), NEW stmts \in Seq(T)
  PROVE  /\ data \o Units(stmts) \in Seq(UnitsOf(T)) /\ Clean(data \o Units(stmts))
         /\ Len(data \o Units(stmts)) = Len(data) + 4 * Len(stmts)
         /\ LineStmts(data \o Units(stmts)) = LineStmts(data) \o stmts
<1> DEFINE n == 4 * Len(stmts)
<1>1. n \in 0..(4 * Len(stmts)) /\ n \div 4 = Len(stmts) /\ n % 4 = 0 /\ n \in Nat
  OBVIOUS
<1>2. SubSeq(Units(stmts), 1, n) = Units(stmts)
  BY UnitsType, SubSeqFull
<1>3. SubSeq(stmts, 1, n \div 4) = stmts
  BY <1>1, SubSeqFull
<1>4. /\ data \o SubSeq(Units(stmts), 1, n) \in Seq(UnitsOf(T))
      /\ Len(data \o SubSeq(Units(stmts), 1, n)) = Len(data) + n
      /\ InStep(data \o SubSeq(Units(stmts), 1, n))
      /\ LineStmts(data \o SubSeq(Units(stmts), 1, n)) = LineStmts(data) \o SubSeq(stmts, 1, n \div 4)
  BY <1>1, UnitsAfter, ZenonT(40)
<1>5. Len(data) \in Nat /\ Len(data) % 4 = 0
  BY DEF Clean
<1>6. (Len(data) + n) % 4 = 0
  BY <1>1, <1>5
<1> QED
  BY <1>2, <1>3, <1>4, <1>6 DEF Clean

\* The contents of a file in step, and of one that is written to.
LEMMA SalvagedAfter ==
  ASSUME NEW data \in Seq(Contained), Clean(data), NEW stmts \in Seq(Stmts)
  PROVE  /\ Salvaged(data \o Units(stmts)) = Applied(Salvaged(data), stmts)
         /\ \A n \in 0..(4 * Len(stmts)) :
              /\ data \o SubSeq(Units(stmts), 1, n) \in Seq(Contained)
              /\ InStep(data \o SubSeq(Units(stmts), 1, n))
              /\ Len(data \o SubSeq(Units(stmts), 1, n)) = Len(data) + n
              /\ Salvaged(data \o SubSeq(Units(stmts), 1, n)) =
                   Applied(Salvaged(data), SubSeq(stmts, 1, n \div 4))
<1>1. data \in Seq(UnitsOf(Stmts)) /\ InStep(data)
  BY DEF Contained, Clean
<1>2. LineStmts(data) \in Seq(Stmts) /\ Salvaged(data) = Applied(NoEntries, LineStmts(data))
  BY <1>1, LineStmtsType, WholeInStep DEF Salvaged
<1>3. ASSUME NEW d \in Seq(UnitsOf(Stmts)), InStep(d), NEW s \in Seq(Stmts),
             LineStmts(d) = LineStmts(data) \o s
      PROVE  Salvaged(d) = Applied(Salvaged(data), s)
  <2>1. Salvaged(d) = Applied(NoEntries, LineStmts(d))
    BY <1>3, WholeInStep DEF Salvaged
  <2> QED
    BY <1>2, <1>3, <2>1, AppliedConcat
<1>4. Salvaged(data \o Units(stmts)) = Applied(Salvaged(data), stmts)
  <2>1. /\ data \o Units(stmts) \in Seq(UnitsOf(Stmts)) /\ Clean(data \o Units(stmts))
        /\ LineStmts(data \o Units(stmts)) = LineStmts(data) \o stmts
    BY <1>1, UnitsClean
  <2> QED
    BY <1>3, <2>1 DEF Clean
<1>5. ASSUME NEW n \in 0..(4 * Len(stmts))
      PROVE  /\ data \o SubSeq(Units(stmts), 1, n) \in Seq(Contained)
             /\ InStep(data \o SubSeq(Units(stmts), 1, n))
             /\ Len(data \o SubSeq(Units(stmts), 1, n)) = Len(data) + n
             /\ Salvaged(data \o SubSeq(Units(stmts), 1, n)) =
                  Applied(Salvaged(data), SubSeq(stmts, 1, n \div 4))
  <2> DEFINE d == data \o SubSeq(Units(stmts), 1, n)
             s == SubSeq(stmts, 1, n \div 4)
  <2>1. /\ d \in Seq(UnitsOf(Stmts)) /\ Len(d) = Len(data) + n /\ InStep(d)
        /\ LineStmts(d) = LineStmts(data) \o s
    BY <1>1, UnitsAfter, Zenon
  <2>2. s \in Seq(Stmts)
    <3>1. n \div 4 \in 0..Len(stmts)
      OBVIOUS
    <3> QED
      BY <3>1, Beginning
  <2> HIDE DEF d, s
  <2>3. Salvaged(d) = Applied(Salvaged(data), s)
    BY <1>3, <2>1, <2>2
  <2> QED
    BY <2>1, <2>3 DEF d, s, Contained
<1> QED
  BY <1>4, <1>5

LEMMA EmptyLog ==
  <<>> \in Seq(Contained) /\ Clean(<<>>) /\ Salvaged(<<>>) = NoEntries
<1>1. <<>> \in Seq(UnitsOf(Stmts)) /\ InStep(<<>>) /\ Len(<<>>) = 0
  BY DEF InStep
<1>2. Clean(<<>>)
  BY <1>1 DEF Clean
<1>3. LineStmts(<<>>) = <<>>
  <2>1. LineStmts(<<>>) \in Seq(Stmts) /\ Len(LineStmts(<<>>)) = 0 \div 4
    BY <1>1, LineStmtsType
  <2> QED
    BY <2>1
<1>4. WholeStmts(<<>>) = LineStmts(<<>>)
  BY <1>1, WholeInStep
<1>5. Salvaged(<<>>) = NoEntries
  BY <1>3, <1>4, NoEntriesType, AppliedNone DEF Salvaged
<1> QED
  BY <1>1, <1>2, <1>5 DEF Contained

LEMMA SalvagedUnits ==
  ASSUME NEW stmts \in Seq(Stmts)
  PROVE  /\ Units(stmts) \in Seq(Contained) /\ Clean(Units(stmts))
         /\ Salvaged(Units(stmts)) = Applied(NoEntries, stmts)
<1>1. <<>> \o Units(stmts) = Units(stmts)
  BY UnitsType, ConcatEmptySeq
<1>2. <<>> \in Seq(UnitsOf(Stmts)) /\ Clean(<<>>) /\ Salvaged(<<>>) = NoEntries
  BY EmptyLog DEF Contained
<1>3. <<>> \o Units(stmts) \in Seq(UnitsOf(Stmts)) /\ Clean(<<>> \o Units(stmts))
  BY <1>2, UnitsClean
<1>4. Salvaged(<<>> \o Units(stmts)) = Applied(NoEntries, stmts)
  BY <1>2, SalvagedAfter DEF Contained
<1> QED
  BY <1>1, <1>3, <1>4 DEF Contained

LEMMA SalvagedType ==
  ASSUME NEW data \in Seq(Contained)
  PROVE  /\ WholeStmts(data) \in Seq(Stmts)
         /\ Plain => Salvaged(data) \in Maps /\ Saved(Salvaged(data)) = Salvaged(data)
<1>1. WholeStmts(data) \in Seq(Stmts)
  BY WholeLines DEF Contained
<1> QED
  BY <1>1, NoEntriesType, AppliedSaved DEF Salvaged

-----------------------------------------------------------------------------
(* The load *)

LEMMA MinExists ==
  ASSUME NEW S, S \subseteq Nat, S # {}
  PROVE  Min(S) \in S /\ \A x \in S : Min(S) <= x
<1>1. PICK m \in S : \A y \in S : y >= m
  BY LeastOf
<1>2. \A y \in S : m <= y
  BY <1>1
<1> QED
  BY <1>1, <1>2 DEF Min

\* The statements that are applied parse; where all do, all are.
LEMMA CountsType ==
  ASSUME NEW r, r.stmts \in Seq(Stmts), NEW n \in Counts(r)
  PROVE  /\ n \in 0..Len(r.stmts)
         /\ \A j \in 1..n : Parses(r.stmts[j])
         /\ Plain /\ r.end = "eof" => n = Len(r.stmts)
<1> DEFINE stmts == r.stmts
           whole == (Len(stmts) \div Batch) * Batch
           Q(m) == {m} \cup {i - 1 : i \in {j \in 1..m : ~Parses(stmts[j])}}
<1>1. Len(stmts) \in Nat /\ whole \in 0..Len(stmts)
  <2>1. Len(stmts) \in Nat /\ Batch \in Nat /\ Batch > 0
    <3>1. Batch \in Nat \ {0}
      BY LogAssumption
    <3> QED
      BY <3>1
  <2> QED
    BY <2>1, Multiple, Zenon
<1> HIDE DEF whole
<1>2. PICK m \in 0..Len(stmts) : n = Min(Q(m)) /\ (r.end = "eof" => m = Len(stmts))
  <2> DEFINE reads == CASE r.end = "bad"  -> {whole}
                        [] r.end = "lost" -> {whole, Len(stmts)}
                        [] OTHER          -> {Len(stmts)}
  <2>1. Counts(r) = {Min(Q(m)) : m \in reads}
    BY DEF Counts, whole
  <2>2. reads \subseteq 0..Len(stmts)
    BY <1>1
  <2>3. r.end = "eof" => reads = {Len(stmts)}
    OBVIOUS
  <2> HIDE DEF reads
  <2>4. PICK m \in reads : n = Min(Q(m))
    BY <2>1
  <2> QED
    BY <2>2, <2>3, <2>4
<1>3. Q(m) \subseteq Nat /\ Q(m) # {}
  OBVIOUS
<1>4. Min(Q(m)) \in Q(m) /\ \A x \in Q(m) : Min(Q(m)) <= x
  BY <1>3, MinExists, Zenon
<1>5. n \in 0..m
  <2>1. n \in Nat /\ n <= m
    BY <1>2, <1>3, <1>4
  <2> QED
    BY <2>1
<1>6. ASSUME NEW j \in 1..n, ~Parses(stmts[j]) PROVE FALSE
  <2>1. j \in 1..m
    BY <1>5
  <2>2. j - 1 \in Q(m)
    BY <1>6, <2>1
  <2>3. n <= j - 1
    BY <1>2, <1>4, <2>2
  <2> QED
    BY <1>5, <2>3
<1>7. ASSUME Plain, r.end = "eof" PROVE n = Len(stmts)
  <2>1. \A j \in 1..m : stmts[j] \in Stmts
    BY ElementOfSeq
  <2>2. \A j \in 1..m : Parses(stmts[j])
    BY <1>7, <2>1, PlainStmts
  <2>3. Q(m) = {m}
    BY <2>2
  <2>4. n \in {m}
    BY <1>2, <1>4, <2>3
  <2> QED
    BY <1>2, <1>7, <2>4
<1> QED
  BY <1>1, <1>5, <1>6, <1>7

LEMMA LoadType ==
  ASSUME NEW data \in Seq(Contained)
  PROVE  /\ \A n \in Counts(ReadFrom(data)) : Contents(ReadFrom(data).stmts, n) \in Maps
         /\ Offsets(data, ReadFrom(data)) \subseteq 0..Len(data)
<1> DEFINE r == ReadFrom(data)
<1>1. r.stmts = WholeStmts(data) /\ r.stmts \in Seq(Stmts)
  BY SalvagedType DEF ReadFrom
<1> HIDE DEF r
<1>2. ASSUME NEW n \in Counts(r) PROVE Contents(r.stmts, n) \in Maps
  <2>1. n \in 0..Len(r.stmts) /\ \A j \in 1..n : Parses(r.stmts[j])
    BY <1>1, CountsType
  <2> DEFINE s == SubSeq(r.stmts, 1, n)
  <2>2. s \in Seq(Stmts) /\ Len(s) = n /\ \A i \in 1..n : s[i] = r.stmts[i]
    BY <1>1, <2>1, Beginning
  <2> HIDE DEF s
  <2>3. Applied(NoEntries, s) \in Maps
    BY <2>1, <2>2, NoEntriesType, AppliedType
  <2> QED
    BY <2>3 DEF Contents, s
<1>3. Offsets(data, r) \subseteq 0..Len(data)
  BY DEF Offsets
<1> QED
  BY <1>2, <1>3 DEF r

\* A log of lines is read up to the last of them that is whole, unless what a cut has
\* left of the next one is a length without its newline.
LEMMA LoadInStep ==
  ASSUME Plain, NEW data \in Seq(Contained), InStep(data), Len(data) % 4 # 1
  PROVE  /\ ReadFrom(data).end = "eof"
         /\ \A n \in Counts(ReadFrom(data)) : Contents(ReadFrom(data).stmts, n) = Salvaged(data)
<1> DEFINE r == ReadFrom(data)
           n == Len(data)
           p == 4 * Whole(data) + 1
<1>1. r.stmts = WholeStmts(data) /\ r.stmts \in Seq(Stmts)
  BY SalvagedType DEF ReadFrom
<1>2. n \in Nat /\ Whole(data) = n \div 4
  BY WholeInStep DEF Contained
<1>3. p \in Nat /\ p - 1 <= n /\ n < p + 3 /\ n # p
  BY <1>2
<1>4. ASSUME p <= n PROVE p + 1 \in p..n /\ data[p + 1][2] # 1
  <2>1. p + 1 \in p..n /\ p + 1 \in 1..n
    BY <1>2, <1>3, <1>4
  <2>2. data[p + 1][2] = (p % 4) + 1
    <3>1. InStepAt(data, p + 1)
      BY <2>1 DEF InStep
    <3>2. (p + 1) - 1 = p
      BY <1>3
    <3> QED
      BY <3>1, <3>2 DEF InStepAt
  <2>3. p % 4 = 1
    BY <1>2
  <2> QED
    BY <2>1, <2>2, <2>3
<1>5. r.end = "eof"
  <2>1. r.end = Ending(data, p)
    BY DEF ReadFrom
  <2> HIDE DEF p, r
  <2>2. ~(p + 3 <= n)
    BY <1>2, <1>3
  <2>3. ~(p <= n /\ \A i \in p..n : data[i][2] = 1)
    BY <1>4
  <2> QED
    BY <2>1, <2>2, <2>3 DEF Ending
<1> HIDE DEF r
<1>6. ASSUME NEW m \in Counts(r) PROVE Contents(r.stmts, m) = Salvaged(data)
  <2>1. m = Len(r.stmts)
    BY <1>1, <1>5, CountsType
  <2>2. SubSeq(r.stmts, 1, m) = r.stmts
    BY <1>1, <2>1, SubSeqFull
  <2> QED
    BY <1>1, <2>2 DEF Contents, Salvaged
<1> QED
  BY <1>5, <1>6 DEF r

\* A log of whole lines is read whole.
LEMMA LoadClean ==
  ASSUME Plain, NEW data \in Seq(Contained), Clean(data)
  PROVE  /\ \A n \in Counts(ReadFrom(data)) : Contents(ReadFrom(data).stmts, n) = Salvaged(data)
         /\ Offsets(data, ReadFrom(data)) = {Len(data)}
<1> DEFINE r == ReadFrom(data)
<1>1. r.stmts \in Seq(Stmts)
  BY SalvagedType DEF ReadFrom
<1>2. r.end = "eof" /\ \A n \in Counts(r) : Contents(r.stmts, n) = Salvaged(data)
  BY LoadInStep DEF Clean
<1> HIDE DEF r
<1>3. \A s \in ToSet(r.stmts) : Parses(s)
  <2>1. \A i \in 1..Len(r.stmts) : r.stmts[i] \in Stmts
    BY <1>1, ElementOfSeq
  <2> QED
    BY <1>1, <2>1, PlainStmts DEF ToSet
<1>4. Offsets(data, r) = {Len(data)}
  BY <1>2, <1>3 DEF Offsets
<1> QED
  BY <1>2, <1>4 DEF r

-----------------------------------------------------------------------------
(* Types *)

Pcs == {"down", "idle", "commitSync", "flushSync", "check", "tmpSync", "closeFile",
        "removeFile", "rename", "reopen", "closeSync"}

Compacting == {"tmpSync", "closeFile", "removeFile", "rename"}

\* Every entry stands under its key.
Keyed(m) == \A k \in Keys : m[k] # Nil => m[k].k = k

IsFile(f) == f \in LogFiles /\ f.off <= Len(f.data) /\ f.data \in f.crash

\* The variables keep their types, and files exist where the steps need them.
TInv ==
  /\ freq \in Freqs /\ pc \in Pcs /\ fd \in BOOLEAN /\ damaged \subseteq Harms
  /\ mem \in Maps /\ Keyed(mem)
  /\ aofbuf \in Seq(Stmts)
  /\ stitch = NoFile \/ IsFile(stitch)
  /\ tmp = NoFile \/ IsFile(tmp)
  /\ starts \in Nat /\ failures \in Nat
  /\ fd => stitch # NoFile
  /\ pc \in {"down", "removeFile", "rename", "reopen"} => ~fd
  /\ pc \in Compacting => tmp # NoFile
  /\ pc = "reopen" => stitch # NoFile

LEMMA FileIsSome == \A f : IsFile(f) => f # NoFile
  BY NoFileIsNone DEF IsFile

LEMMA AppliedKeyed ==
  ASSUME NEW S, NEW stmts \in Seq(S), NEW c, Keyed(c)
  PROVE  Keyed(Applied(c, stmts))
<1> SUFFICES ASSUME NEW k \in Keys, Applied(c, stmts)[k] # Nil
             PROVE  Applied(c, stmts)[k].k = k
  BY DEF Keyed
<1>1. CASE About(stmts, k) = {}
  BY <1>1, AppliedAt DEF Keyed
<1>2. CASE About(stmts, k) # {}
  <2>1. PICK i \in About(stmts, k) : Applied(c, stmts)[k] = After(stmts[i])
    BY <1>2, AppliedAt
  <2>2. KeyOf(stmts[i]) = k
    BY DEF About
  <2> QED
    BY <2>1, <2>2 DEF After, KeyOf
<1> QED
  BY <1>1, <1>2

LEMMA NoEntriesKeyed == Keyed(NoEntries)
  BY DEF Keyed, NoEntries

\* The write of a buffer, whole or in part.
LEMMA BufferFile ==
  ASSUME NEW f, IsFile(f), NEW stmts \in Seq(Stmts)
  PROVE  /\ IsFile(Written(f, Units(stmts), Cuts(4 * Len(stmts))))
         /\ \A n \in Cuts(4 * Len(stmts)) : IsFile(Written(f, SubSeq(Units(stmts), 1, n), Cuts(n)))
<1> DEFINE u == Units(stmts)
           U == Contained
<1>1. u \in Seq(U) /\ Len(u) = 4 * Len(stmts) /\ 4 * Len(stmts) \in Nat
  BY UnitsType DEF Contained
<1>2. \A n \in Nat : Cuts(n) \in SUBSET (0..n)
  BY DEF Cuts
<1>3. f \in FilesOf(U) /\ f.off <= Len(f.data)
  BY DEF IsFile, LogFiles
<1> HIDE DEF u, U
<1>4. /\ Written(f, u, Cuts(4 * Len(stmts))) \in FilesOf(U)
      /\ Written(f, u, Cuts(4 * Len(stmts))).off <= Len(Written(f, u, Cuts(4 * Len(stmts))).data)
      /\ Written(f, u, Cuts(4 * Len(stmts))).data \in Written(f, u, Cuts(4 * Len(stmts))).crash
  <2>1. Cuts(4 * Len(stmts)) \in SUBSET (0..Len(u))
    BY <1>1, <1>2
  <2> QED
    BY <1>1, <1>3, <2>1, WrittenType, Zenon
<1>5. ASSUME NEW n \in Cuts(4 * Len(stmts))
      PROVE  IsFile(Written(f, SubSeq(u, 1, n), Cuts(n)))
  <2>1. n \in 0..Len(u) /\ n \in Nat
    <3>1. n \in 0..(4 * Len(stmts))
      BY <1>1, <1>2
    <3> QED
      BY <1>1, <3>1
  <2>2. SubSeq(u, 1, n) \in Seq(U) /\ Len(SubSeq(u, 1, n)) = n
    BY <1>1, <2>1, Beginning
  <2>3. Cuts(n) \in SUBSET (0..Len(SubSeq(u, 1, n)))
    BY <1>2, <2>1, <2>2
  <2>4. /\ Written(f, SubSeq(u, 1, n), Cuts(n)) \in FilesOf(U)
        /\ Written(f, SubSeq(u, 1, n), Cuts(n)).off <= Len(Written(f, SubSeq(u, 1, n), Cuts(n)).data)
        /\ Written(f, SubSeq(u, 1, n), Cuts(n)).data \in Written(f, SubSeq(u, 1, n), Cuts(n)).crash
    BY <1>3, <2>2, <2>3, WrittenType, Zenon
  <2> QED
    BY <2>4 DEF IsFile, LogFiles, U
<1> QED
  BY <1>4, <1>5 DEF IsFile, LogFiles, u, U

LEMMA HarmType ==
  \A set, cond, what : set \subseteq Harms /\ what \in Harms => set \cup Harm(cond, what) \subseteq Harms
  BY DEF Harm

LEMMA HarmsAre ==
  /\ "misplaced" \in Harms /\ "dropped" \in Harms /\ "twice" \in Harms
  /\ "remainder" \in Harms /\ "leftover" \in Harms /\ "no file" \in Harms /\ "length" \in Harms
  BY DEF Harms

LEMMA FailsType ==
  ASSUME TInv, Fails \/ Works
  PROVE  failures' \in Nat
  BY DEF TInv, Fails, Works

LEMMA WriteTypes ==
  ASSUME TInv, NEW buf \in Seq(Stmts), NEW kept,
         BufferWritten(buf) \/ WriteFails(buf, kept)
  PROVE  /\ stitch' = NoFile \/ IsFile(stitch')
         /\ stitch # NoFile => stitch' # NoFile
         /\ damaged' \subseteq Harms /\ failures' \in Nat
<1>1. CASE BufferWritten(buf)
  <2>1. IsFile(stitch) /\ fd
    BY <1>1 DEF BufferWritten, TInv
  <2>2. IsFile(stitch')
    BY <1>1, <2>1, BufferFile DEF BufferWritten
  <2>3. damaged' \subseteq Harms
    BY <1>1, HarmType, HarmsAre DEF BufferWritten, TInv
  <2> QED
    BY <1>1, <2>2, <2>3, FileIsSome DEF BufferWritten, TInv
<1>2. CASE ~fd /\ UNCHANGED <<stitch, failures>> /\ damaged' = damaged \cup Harm(~kept, "dropped")
  BY <1>2, HarmType, HarmsAre DEF TInv
<1>3. ASSUME NEW n \in Cuts(4 * Len(buf)), fd, Fails,
             stitch' = Written(stitch, SubSeq(Units(buf), 1, n), Cuts(n)),
             damaged' = damaged \cup Harm(~kept, "dropped") \cup Harm(Misplaced, "misplaced")
                                \cup Harm(Twice(SubSeq(buf, 1, n \div 4)), "twice")
      PROVE  /\ IsFile(stitch') /\ stitch' # NoFile
             /\ damaged' \subseteq Harms /\ failures' \in Nat
  <2>1. IsFile(stitch)
    BY <1>3 DEF TInv
  <2>2. IsFile(stitch')
    BY <1>3, <2>1, BufferFile
  <2>3. damaged' \subseteq Harms
    <3>1. damaged \subseteq Harms
      BY DEF TInv
    <3>2. damaged \cup Harm(~kept, "dropped") \subseteq Harms
      BY <3>1, HarmType, HarmsAre
    <3>3. damaged \cup Harm(~kept, "dropped") \cup Harm(Misplaced, "misplaced") \subseteq Harms
      BY <3>2, HarmType, HarmsAre
    <3> DEFINE two == damaged \cup Harm(~kept, "dropped") \cup Harm(Misplaced, "misplaced")
    <3>4. damaged' = two \cup Harm(Twice(SubSeq(buf, 1, n \div 4)), "twice") /\ two \subseteq Harms
      BY <1>3, <3>3
    <3> HIDE DEF two
    <3>5. Harm(Twice(SubSeq(buf, 1, n \div 4)), "twice") \subseteq {"twice"}
      BY DEF Harm
    <3> QED
      BY <3>4, <3>5, HarmsAre
  <2> QED
    BY <1>3, <2>2, <2>3, FileIsSome, FailsType
<1> QED
  BY <1>1, <1>2, <1>3 DEF WriteFails

LEMMA InitTypes == Init => TInv
<1> SUFFICES ASSUME Init PROVE TInv
  OBVIOUS
<1>1. mem \in Maps /\ Keyed(mem)
  BY NoEntriesType, NoEntriesKeyed DEF Init
<1>2. aofbuf \in Seq(Stmts)
  BY DEF Init
<1> QED
  BY <1>1, <1>2 DEF Init, TInv, Pcs, Compacting

\* The data of the file that is loaded.
DataOf(f) == IF f = NoFile THEN <<>> ELSE f.data

LEMMA DataType ==
  ASSUME NEW f, f = NoFile \/ IsFile(f)
  PROVE  DataOf(f) \in Seq(Contained)
  BY EmptyLog DEF DataOf, IsFile, LogFiles, FilesOf

LEMMA OpenTypes ==
  ASSUME TInv, openBucket
  PROVE  TInv'
<1> DEFINE data == DataOf(stitch)
           r == ReadFrom(data)
<1>1. data \in Seq(Contained)
  BY DataType DEF TInv
<1>2. PICK n \in Counts(r), off \in Offsets(data, r) :
        mem' = Contents(r.stmts, n) /\ stitch' = [Opened(data) EXCEPT !.off = off]
  BY DEF openBucket, DataOf
<1>3. mem' \in Maps /\ off \in 0..Len(data)
  BY <1>1, <1>2, LoadType
<1>4. Keyed(mem')
  <2>1. r.stmts \in Seq(Stmts) /\ n \in 0..Len(r.stmts)
    <3>1. r.stmts = WholeStmts(data) /\ r.stmts \in Seq(Stmts)
      BY <1>1, SalvagedType DEF ReadFrom
    <3> HIDE DEF r
    <3> QED
      BY <1>2, <3>1, CountsType
  <2>2. SubSeq(r.stmts, 1, n) \in Seq(Stmts)
    BY <2>1, Beginning
  <2> HIDE DEF r
  <2> QED
    BY <1>2, <2>2, AppliedKeyed, NoEntriesKeyed DEF Contents
<1>5. IsFile(stitch')
  <2>1. stitch' = [data |-> data, off |-> off, crash |-> {data}]
    BY <1>2 DEF Opened
  <2> HIDE DEF data
  <2> QED
    BY <1>1, <1>3, <2>1 DEF IsFile, LogFiles, FilesOf
<1>6. damaged' \subseteq Harms
  BY DEF openBucket, TInv
<1>7. /\ pc' = "idle" /\ starts' = starts + 1 /\ aofbuf' = <<>> /\ fd' = TRUE
      /\ tmp' = tmp /\ freq' = freq /\ failures' = failures
  BY DEF openBucket
<1>8. starts' \in Nat
  BY <1>7 DEF TInv
<1>9. aofbuf' \in Seq(Stmts)
  BY <1>7
<1>10. tmp' = NoFile \/ IsFile(tmp')
  BY <1>7 DEF TInv
<1> QED
  BY <1>3, <1>4, <1>5, <1>6, <1>7, <1>8, <1>9, <1>10, FileIsSome DEF TInv, Pcs, Compacting

LEMMA CommitTypes ==
  ASSUME TInv, NEW ch \in Forwards, commitTx(ch)
  PROVE  TInv'
<1>0. PICK buf : buf = aofbuf \o StmtsFor(ch)
  OBVIOUS
<1>1. buf \in Seq(Stmts)
  BY <1>0, ForwardType, ConcatProperties DEF TInv
<1>2. /\ pc = "idle" /\ mem' = Put(mem, ch)
      /\ UNCHANGED <<freq, fd, tmp, starts>>
      /\ \/ BufferWritten(buf) /\ aofbuf' = <<>> /\ pc' \in {"commitSync", "idle"}
         \/ WriteFails(buf, TRUE) /\ aofbuf' = buf /\ pc' = pc
  BY <1>0 DEF commitTx, Commit, StmtsFor
<1>3. mem' \in Maps /\ Keyed(mem')
  BY <1>2, PutType DEF TInv, Keyed
<1>4. /\ stitch' = NoFile \/ IsFile(stitch')
      /\ stitch # NoFile => stitch' # NoFile
      /\ damaged' \subseteq Harms /\ failures' \in Nat
  <2>1. BufferWritten(buf) \/ WriteFails(buf, TRUE)
    BY <1>2
  <2> QED
    BY <1>1, <2>1, WriteTypes
<1>5. aofbuf' \in Seq(Stmts)
  <2>1. aofbuf' = <<>> \/ aofbuf' = buf
    BY <1>2
  <2>2. <<>> \in Seq(Stmts)
    OBVIOUS
  <2> QED
    BY <1>1, <2>1, <2>2, Zenon
<1>6. pc' \in {"idle", "commitSync"}
  BY <1>2
<1> QED
  BY <1>2, <1>3, <1>4, <1>5, <1>6 DEF TInv, Pcs, Compacting

\* The syncs of a commit and of the manager.
LEMMA SyncTypes ==
  ASSUME TInv, commitSync \/ flushSync
  PROVE  TInv'
<1>1. /\ pc \in {"commitSync", "flushSync"} /\ pc' \in {"idle", "check"}
      /\ FileSynced \/ SyncFails
      /\ UNCHANGED <<freq, mem, aofbuf, fd, tmp, damaged, starts>>
  BY DEF commitSync, flushSync
<1>2. failures' \in Nat
  BY <1>1, FailsType DEF FileSynced, SyncFails
<1>3. (stitch' = NoFile \/ IsFile(stitch')) /\ (stitch # NoFile => stitch' # NoFile)
  <2>1. CASE FileSynced
    <3>1. IsFile(stitch) /\ stitch' = Synced(stitch)
      BY <2>1 DEF FileSynced, TInv
    <3>2. IsFile(stitch')
      BY <3>1, SyncedType DEF IsFile, LogFiles
    <3> QED
      BY <3>2, FileIsSome
  <2>2. CASE SyncFails
    BY <2>2 DEF SyncFails, TInv
  <2> QED
    BY <1>1, <2>1, <2>2
<1> QED
  BY <1>1, <1>2, <1>3 DEF TInv, Pcs, Compacting, Maps, Keyed, IsFile

LEMMA FlushTypes ==
  ASSUME TInv, managerFlush
  PROVE  TInv'
<1>1. /\ pc' \in {"flushSync", "check"} /\ aofbuf' = <<>>
      /\ BufferWritten(aofbuf) \/ WriteFails(aofbuf, FALSE)
      /\ UNCHANGED <<freq, mem, fd, tmp, starts>>
  BY DEF managerFlush
<1>2. /\ stitch' = NoFile \/ IsFile(stitch')
      /\ stitch # NoFile => stitch' # NoFile
      /\ damaged' \subseteq Harms /\ failures' \in Nat
  BY <1>1, WriteTypes DEF TInv
<1>3. aofbuf' \in Seq(Stmts)
  BY <1>1
<1> QED
  BY <1>1, <1>2, <1>3 DEF TInv, Pcs, Compacting, Maps, Keyed, IsFile

LEMMA CompactTypes ==
  ASSUME TInv, compactLog
  PROVE  TInv'
<1>1. CASE compactWrite
  <2> DEFINE old == DataOf(tmp)
  <2>1. /\ pc # "down" /\ UNCHANGED <<freq, mem, aofbuf, fd, stitch, starts>>
        /\ damaged' = damaged
        /\ \/ /\ tmp' = Written(Opened(old), Units(CompactStmts), Cuts(4 * Len(CompactStmts)))
              /\ pc' = "tmpSync" /\ Works
           \/ Fails /\ pc' = "idle" /\ UNCHANGED tmp
    BY <1>1 DEF compactWrite, DataOf
  <2>2. failures' \in Nat
    BY <2>1, FailsType
  <2>3. old \in Seq(Contained)
    BY DataType DEF TInv
  <2>4. IsFile(Opened(old))
    BY <2>3, OpenedType DEF IsFile, LogFiles
  <2>5. CompactStmts \in Seq(Stmts)
    BY CompactType DEF TInv
  <2>6. IsFile(Written(Opened(old), Units(CompactStmts), Cuts(4 * Len(CompactStmts))))
    BY <2>4, <2>5, BufferFile
  <2> HIDE DEF old
  <2>8. (tmp' = NoFile \/ IsFile(tmp')) /\ (pc' = "tmpSync" => tmp' # NoFile)
    BY <2>1, <2>6, FileIsSome DEF TInv
  <2>9. damaged' \subseteq Harms
    BY <2>1 DEF TInv
  <2>10. pc' \in {"tmpSync", "idle"}
    BY <2>1
  <2> QED
    BY <2>1, <2>2, <2>8, <2>9, <2>10 DEF TInv, Pcs, Compacting, Maps, Keyed, IsFile
<1>2. CASE compactSync
  <2>1. /\ pc = "tmpSync" /\ pc' \in {"closeFile", "idle"} /\ (Works \/ Fails)
        /\ tmp' = Synced(tmp) \/ (tmp' = tmp /\ pc' = "idle")
        /\ UNCHANGED <<freq, mem, aofbuf, fd, stitch, damaged, starts>>
    BY <1>2 DEF compactSync, Step
  <2>2. IsFile(tmp)
    BY <2>1 DEF TInv, Compacting
  <2>3. IsFile(Synced(tmp))
    BY <2>2, SyncedType DEF IsFile, LogFiles
  <2>4. IsFile(tmp') /\ tmp' # NoFile
    BY <2>1, <2>2, <2>3, FileIsSome
  <2>5. failures' \in Nat
    BY <2>1, FailsType
  <2> QED
    BY <2>1, <2>4, <2>5 DEF TInv, Pcs, Compacting, Maps, Keyed, IsFile
<1>3. CASE compactClose
  <2>1. /\ pc = "closeFile" /\ pc' \in {"removeFile", "idle"} /\ (Works \/ Fails)
        /\ fd' = FALSE
        /\ UNCHANGED <<freq, mem, aofbuf, stitch, tmp, damaged, starts>>
    BY <1>3 DEF compactClose, Step
  <2>2. failures' \in Nat
    BY <2>1, FailsType
  <2>3. tmp' # NoFile /\ fd' \in BOOLEAN
    BY <2>1 DEF TInv, Compacting
  <2>4. (pc' = "removeFile" => ~fd') /\ (fd' => stitch' # NoFile)
    BY <1>3 DEF compactClose, Step, TInv
  <2> QED
    BY <2>1, <2>2, <2>3, <2>4 DEF TInv, Pcs, Maps, Keyed, IsFile
<1>4. CASE compactRemove
  <2>1. /\ pc = "removeFile" /\ pc' \in {"rename", "idle"} /\ (Works \/ Fails)
        /\ stitch' = NoFile \/ stitch' = stitch
        /\ UNCHANGED <<freq, mem, aofbuf, fd, tmp, starts>>
    BY <1>4 DEF compactRemove, Step
  <2>2. failures' \in Nat
    BY <2>1, FailsType
  <2>3. tmp' # NoFile /\ ~fd'
    BY <2>1 DEF TInv, Compacting
  <2>4. damaged' \subseteq Harms
    <3>1. damaged \subseteq Harms
      BY DEF TInv
    <3>2. CASE damaged' = damaged
      BY <3>1, <3>2
    <3>3. CASE damaged' = damaged \cup Harm(CompactStmts # AllStmts, "remainder")
                                 \cup Harm(Len(tmp.data) > 4 * Len(CompactStmts), "leftover")
      <4>1. damaged \cup Harm(CompactStmts # AllStmts, "remainder") \subseteq Harms
        BY <3>1, HarmType, HarmsAre
      <4> DEFINE one == damaged \cup Harm(CompactStmts # AllStmts, "remainder")
      <4>2. damaged' = one \cup Harm(Len(tmp.data) > 4 * Len(CompactStmts), "leftover")
            /\ one \subseteq Harms
        BY <3>3, <4>1
      <4> HIDE DEF one
      <4> QED
        BY <4>2, HarmType, HarmsAre, ZenonT(60)
    <3> QED
      BY <1>4, <3>2, <3>3 DEF compactRemove
  <2> QED
    BY <2>1, <2>2, <2>3, <2>4 DEF TInv, Pcs, Maps, Keyed, IsFile
<1>5. CASE compactRename
  <2>1. /\ pc = "rename" /\ pc' \in {"reopen", "idle"} /\ (Works \/ Fails)
        /\ \/ stitch' = tmp /\ tmp' = NoFile
           \/ stitch' = stitch /\ tmp' = tmp /\ pc' = "idle"
        /\ UNCHANGED <<freq, mem, aofbuf, fd, damaged, starts>>
    BY <1>5 DEF compactRename, Step
  <2>2. failures' \in Nat
    BY <2>1, FailsType
  <2>3. tmp # NoFile /\ ~fd'
    BY <2>1 DEF TInv, Compacting
  <2> QED
    BY <2>1, <2>2, <2>3 DEF TInv, Pcs, Compacting, Maps, Keyed, IsFile
<1>6. CASE compactReopen
  <2>1. /\ pc = "reopen" /\ pc' = "idle" /\ (Works \/ Fails)
        /\ stitch' = [stitch EXCEPT !.off = 0] \/ stitch' = stitch
        /\ fd' = TRUE \/ fd' = fd
        /\ UNCHANGED <<freq, mem, aofbuf, tmp, damaged, starts>>
    BY <1>6 DEF compactReopen, Step
  <2>2. failures' \in Nat
    BY <2>1, FailsType
  <2>3. IsFile(stitch) /\ fd' \in BOOLEAN
    BY <2>1 DEF TInv
  <2>4. IsFile([stitch EXCEPT !.off = 0])
    BY <2>3 DEF IsFile, LogFiles, FilesOf
  <2>5. IsFile(stitch') /\ stitch' # NoFile
    BY <2>1, <2>3, <2>4, FileIsSome
  <2> QED
    BY <2>1, <2>2, <2>3, <2>5 DEF TInv, Pcs, Compacting, Maps, Keyed, IsFile
<1> QED
  BY <1>1, <1>2, <1>3, <1>4, <1>5, <1>6 DEF compactLog

LEMMA CloseTypes ==
  ASSUME TInv, close \/ closeSync
  PROVE  TInv'
<1>1. CASE close
  <2>1. /\ pc' \in {"closeSync", "idle"}
        /\ \/ aofbuf' = aofbuf /\ UNCHANGED <<stitch, damaged, failures>>
           \/ BufferWritten(aofbuf) /\ aofbuf' = <<>>
           \/ WriteFails(aofbuf, TRUE) /\ aofbuf' = aofbuf
        /\ UNCHANGED <<freq, mem, fd, tmp, starts>>
    <3>1. CASE aofbuf = <<>>
      BY <1>1, <3>1 DEF close
    <3>2. CASE aofbuf # <<>>
      BY <1>1, <3>2 DEF close
    <3> QED
      BY <3>1, <3>2
  <2>2. aofbuf' \in Seq(Stmts)
    <3>1. aofbuf \in Seq(Stmts) /\ <<>> \in Seq(Stmts)
      BY DEF TInv
    <3> QED
      BY <2>1, <3>1
  <2>3. /\ stitch' = NoFile \/ IsFile(stitch')
        /\ stitch # NoFile => stitch' # NoFile
        /\ damaged' \subseteq Harms /\ failures' \in Nat
    <3>1. CASE UNCHANGED <<stitch, damaged, failures>>
      BY <3>1 DEF TInv
    <3>2. CASE BufferWritten(aofbuf) \/ WriteFails(aofbuf, TRUE)
      BY <3>2, WriteTypes DEF TInv
    <3> QED
      BY <2>1, <3>1, <3>2
  <2> QED
    BY <2>1, <2>2, <2>3 DEF TInv, Pcs, Compacting, Maps, Keyed, IsFile
<1>2. CASE closeSync
  <2>1. CASE fd /\ Works /\ stitch' = Synced(stitch) /\ pc' = "down" /\ fd' = FALSE /\ mem' = NoEntries
    <3>1. IsFile(stitch)
      BY <2>1 DEF TInv
    <3>2. IsFile(stitch')
      BY <2>1, <3>1, SyncedType DEF IsFile, LogFiles
    <3>3. mem' \in Maps /\ Keyed(mem')
      BY <2>1, NoEntriesType, NoEntriesKeyed
    <3>4. failures' \in Nat /\ UNCHANGED <<freq, aofbuf, tmp, damaged, starts>>
      BY <1>2, <2>1, FailsType DEF closeSync
    <3> QED
      BY <2>1, <3>2, <3>3, <3>4 DEF TInv, Pcs, Compacting, Maps, IsFile
  <2>2. CASE SyncFails /\ pc' = "idle" /\ UNCHANGED <<fd, mem>>
    <3>1. /\ failures' \in Nat
          /\ UNCHANGED <<freq, aofbuf, tmp, damaged, starts, stitch, fd, mem>>
      BY <1>2, <2>2, FailsType DEF closeSync, SyncFails
    <3> QED
      BY <2>2, <3>1 DEF TInv, Pcs, Compacting, Maps, Keyed, IsFile
  <2> QED
    BY <1>2, <2>1, <2>2 DEF closeSync
<1> QED
  BY <1>1, <1>2

LEMMA CrashTypes ==
  ASSUME TInv, Crash
  PROVE  TInv'
<1>1. ASSUME NEW f, f = NoFile \/ IsFile(f), NEW g \in CrashContents(f)
      PROVE  g = NoFile \/ IsFile(g)
  <2>1. CASE f = NoFile
    BY <2>1 DEF CrashContents
  <2>2. CASE f # NoFile
    <3>1. PICK d \in f.crash : g = Opened(d)
      BY <2>2 DEF CrashContents
    <3>2. d \in Seq(Contained)
      BY <1>1, <2>2, <3>1 DEF IsFile, LogFiles, FilesOf
    <3> QED
      BY <3>1, <3>2, OpenedType DEF IsFile, LogFiles
  <2> QED
    BY <2>1, <2>2
<1>2. (stitch' = NoFile \/ IsFile(stitch')) /\ (tmp' = NoFile \/ IsFile(tmp'))
  BY <1>1 DEF TInv, Crash
<1>3. mem' \in Maps /\ Keyed(mem')
  BY NoEntriesType, NoEntriesKeyed DEF Crash
<1>4. /\ pc' = "down" /\ aofbuf' = <<>> /\ fd' = FALSE
      /\ UNCHANGED <<freq, starts, failures>>
  BY DEF Crash
<1>5. aofbuf' \in Seq(Stmts)
  BY <1>4
<1>6. damaged' \subseteq Harms
  <2>1. damaged \subseteq Harms
    BY DEF TInv
  <2>2. damaged \cup Harm(stitch = NoFile, "no file") \subseteq Harms
    BY <2>1, HarmType, HarmsAre
  <2>3. damaged' = damaged \cup Harm(stitch = NoFile, "no file") \cup Harm(CutLength(stitch'), "length")
    BY DEF Crash
  <2> QED
    BY <2>2, <2>3, HarmType, HarmsAre
<1> QED
  BY <1>2, <1>3, <1>4, <1>5, <1>6 DEF TInv, Pcs, Compacting

\* What no step of the model changes.
LEMMA StutterTypes ==
  ASSUME TInv, UNCHANGED <<freq, mem, aofbuf, fd, stitch, tmp, damaged, starts, failures>>,
         pc' = pc \/ (pc = "check" /\ pc' = "idle")
  PROVE  TInv'
  BY DEF TInv, Pcs, Compacting, Maps, Keyed, IsFile

LEMMA NextTypes == TInv /\ [Next]_vars => TInv'
<1> SUFFICES ASSUME TInv, [Next]_vars PROVE TInv'
  OBVIOUS
<1>1. ASSUME NEW n \in 1..Len(KeyOrder), rollbackTx(n) PROVE TInv'
  BY <1>1, StutterTypes DEF rollbackTx
<1>2. CASE noCompaction
  BY <1>2, StutterTypes DEF noCompaction
<1>3. CASE UNCHANGED vars
  BY <1>3, StutterTypes DEF vars
<1> QED
  BY <1>1, <1>2, <1>3, OpenTypes, CommitTypes, SyncTypes, FlushTypes, CompactTypes, CloseTypes,
     CrashTypes DEF Next

\* The variables keep their types, through every load, write, compaction, failing call
\* and crash: an open file's offset lies within it, and only compactLog takes the file
\* of an open bucket away.
THEOREM LogTypes == Spec => []TypeOK
<1>1. TInv => TypeOK
  <2> SUFFICES ASSUME TInv PROVE TypeOK
    OBVIOUS
  <2>1. \A k \in Keys : mem[k] # Nil => mem[k].k = k /\ mem[k].opts \in EntryOptions
    BY DEF TInv, Maps, Keyed, Held, EntryRecords
  <2>2. \A f \in Files : f.off \in 0..Len(f.data) /\ f.data \in f.crash
    <3> TAKE f \in Files
    <3>1. IsFile(f)
      BY DEF TInv, Files
    <3>2. f.off \in Nat /\ Len(f.data) \in Nat
      BY <3>1 DEF IsFile, LogFiles, FilesOf
    <3> QED
      BY <3>1, <3>2 DEF IsFile
  <2>3. \A s \in ToSet(aofbuf) : IsEntryStmt(s)
    <3>1. \A i \in DOMAIN aofbuf : aofbuf[i] \in Stmts
      <4> TAKE i \in DOMAIN aofbuf
      <4>1. aofbuf \in Seq(Stmts)
        BY DEF TInv
      <4>2. i \in 1..Len(aofbuf)
        BY <4>1
      <4> QED
        BY <4>1, <4>2, ElementOfSeq
    <3> QED
      BY <3>1, StmtsAreTexts DEF ToSet
  <2> QED
    BY <2>1, <2>2, <2>3 DEF TInv, TypeOK
<1> QED
  BY <1>1, InitTypes, NextTypes, PTL DEF Spec

-----------------------------------------------------------------------------
(* Every transaction synced *)

Open == {"idle", "commitSync", "flushSync", "check", "tmpSync", "closeFile", "closeSync"}

\* As long as no call of the operating system has failed, the file is open whenever
\* something may be written to it, and only a transaction that is about to be synced
\* waits for that.
DInv ==
  failures = 0 =>
    /\ pc \in Open => fd
    /\ freq = "EACH" /\ pc # "commitSync" => Len(versions) = 1

LEMMA WriteWorks ==
  ASSUME TInv, NEW buf, NEW kept, BufferWritten(buf) \/ WriteFails(buf, kept), failures' = 0
  PROVE  failures = 0 /\ (fd => BufferWritten(buf))
  BY DEF TInv, BufferWritten, WriteFails, Fails

LEMMA NextDurable == TInv /\ DInv /\ [Next]_vars => DInv'
<1> SUFFICES ASSUME TInv, DInv, [Next]_vars, failures' = 0
             PROVE  /\ pc' \in Open => fd'
                    /\ freq' = "EACH" /\ pc' # "commitSync" => Len(versions') = 1
  BY DEF DInv
<1>0. /\ Fails => FALSE
      /\ Works => failures = 0
  BY DEF TInv, Fails, Works
<1>1. CASE openBucket
  BY <1>1 DEF openBucket
<1>2. ASSUME NEW ch \in Forwards, commitTx(ch)
      PROVE  /\ pc' \in Open => fd'
             /\ freq' = "EACH" /\ pc' # "commitSync" => Len(versions') = 1
  <2>0. PICK buf : buf = aofbuf \o StmtsFor(ch)
    OBVIOUS
  <2>1. /\ pc = "idle" /\ fd' = fd /\ freq' = freq
        /\ \/ BufferWritten(buf) /\ pc' = IF freq = "EACH" THEN "commitSync" ELSE "idle"
           \/ WriteFails(buf, TRUE) /\ pc' = pc
    BY <1>2, <2>0 DEF commitTx, Commit, StmtsFor
  <2>2. failures = 0
    <3>1. BufferWritten(buf) \/ WriteFails(buf, TRUE)
      BY <2>1
    <3> QED
      BY <3>1, WriteWorks
  <2>3. fd
    BY <2>1, <2>2 DEF DInv, Open
  <2>4. ~WriteFails(buf, TRUE)
    BY <1>0, <2>3 DEF WriteFails
  <2> QED
    BY <2>1, <2>3, <2>4
<1>3. CASE commitSync \/ flushSync
  <2>1. /\ pc \in {"commitSync", "flushSync"} /\ UNCHANGED <<freq, fd>>
        /\ FileSynced \/ SyncFails
    BY <1>3 DEF commitSync, flushSync
  <2>2. failures = 0
    BY <1>0, <2>1 DEF FileSynced, SyncFails
  <2>3. fd
    BY <1>3, <2>1, <2>2 DEF DInv, Open, commitSync, flushSync
  <2>4. versions' = <<Last(versions)>>
    BY <1>0, <1>3, <2>1, <2>3 DEF FileSynced, SyncFails, commitSync, flushSync
  <2>5. Len(versions') = 1 /\ fd' = fd
    BY <1>3, <2>4 DEF commitSync, flushSync
  <2> QED
    BY <2>3, <2>5
<1>4. ASSUME NEW n \in 1..Len(KeyOrder), rollbackTx(n)
      PROVE  /\ pc' \in Open => fd'
             /\ freq' = "EACH" /\ pc' # "commitSync" => Len(versions') = 1
  BY <1>4 DEF rollbackTx, DInv
<1>5. CASE managerFlush
  <2>1. /\ pc = "idle" /\ UNCHANGED <<freq, fd, versions>>
        /\ BufferWritten(aofbuf) \/ WriteFails(aofbuf, FALSE)
    BY <1>5 DEF managerFlush
  <2>2. failures = 0
    BY <2>1, WriteWorks
  <2> QED
    BY <2>1, <2>2 DEF DInv, Open
<1>6. CASE noCompaction
  BY <1>6 DEF noCompaction, DInv, Open
<1>7. CASE compactWrite
  <2>1. /\ pc \in {"idle", "check"} /\ UNCHANGED <<freq, fd, versions>> /\ failures = 0
    BY <1>0, <1>7 DEF compactWrite
  <2> QED
    BY <2>1 DEF DInv, Open
<1>8. CASE compactSync
  <2>1. /\ pc = "tmpSync" /\ UNCHANGED <<freq, fd, versions>> /\ failures = 0
    BY <1>0, <1>8 DEF compactSync, Step
  <2> QED
    BY <2>1 DEF DInv, Open
<1>9. CASE compactClose
  <2>1. /\ pc = "closeFile" /\ UNCHANGED <<freq, versions>> /\ failures = 0
    BY <1>0, <1>9 DEF compactClose, Step
  <2>2. fd
    BY <2>1 DEF DInv, Open
  <2>3. pc' = "removeFile"
    BY <1>0, <1>9, <2>2 DEF compactClose, Step
  <2> QED
    BY <2>1, <2>3 DEF DInv, Open
<1>10. CASE compactRemove
  <2>1. /\ pc = "removeFile" /\ pc' = "rename" /\ UNCHANGED <<freq, versions>> /\ failures = 0
    BY <1>0, <1>10 DEF compactRemove, Step
  <2> QED
    BY <2>1 DEF DInv, Open
<1>11. CASE compactRename
  <2>1. /\ pc' = "reopen" /\ versions' = <<Saved(mem)>>
    BY <1>0, <1>11 DEF compactRename, Step
  <2> QED
    BY <2>1 DEF Open
<1>12. CASE compactReopen
  <2>1. /\ pc = "reopen" /\ fd' = TRUE /\ UNCHANGED <<freq, versions>> /\ failures = 0
    BY <1>0, <1>12 DEF compactReopen, Step
  <2> QED
    BY <2>1 DEF DInv, Open
<1>13. CASE close
  <2>1. pc = "idle" /\ UNCHANGED <<freq, fd, versions>>
    BY <1>13 DEF close
  <2>2. failures = 0
    <3>1. CASE aofbuf = <<>>
      BY <1>13, <3>1 DEF close
    <3>2. CASE aofbuf # <<>>
      <4>1. BufferWritten(aofbuf) \/ WriteFails(aofbuf, TRUE)
        BY <1>13, <3>2 DEF close
      <4> QED
        BY <4>1, WriteWorks
    <3> QED
      BY <3>1, <3>2
  <2> QED
    BY <2>1, <2>2 DEF DInv, Open
<1>14. CASE closeSync
  <2>1. pc = "closeSync" /\ UNCHANGED freq /\ failures = 0
    BY <1>0, <1>14 DEF closeSync, SyncFails
  <2>2. fd
    BY <2>1 DEF DInv, Open
  <2>3. pc' = "down" /\ versions' = <<Recovered(stitch')>>
    BY <1>0, <1>14, <2>2 DEF closeSync, SyncFails
  <2> QED
    BY <2>3 DEF Open
<1>15. CASE Crash
  BY <1>15 DEF Crash, Open
<1>16. CASE UNCHANGED vars
  BY <1>16 DEF vars, DInv
<1> QED
  BY <1>1, <1>2, <1>3, <1>4, <1>5, <1>6, <1>7, <1>8, <1>9, <1>10, <1>11, <1>12, <1>13, <1>14,
     <1>15, <1>16 DEF Next, compactLog

\* With the sync policy EACH, commitTx leaves nothing behind that waits for a sync, unless
\* a call of the operating system has failed.
THEOREM EveryCommitSynced == Spec => []EachDurable
<1>1. Init => DInv
  BY DEF Init, DInv, Open
<1>2. DInv => EachDurable
  BY DEF DInv, EachDurable
<1> QED
  BY <1>1, <1>2, InitTypes, NextTypes, NextDurable, PTL DEF Spec
=============================================================================
