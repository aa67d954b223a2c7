----------------------------- MODULE Statements ------------------------------
(***************************************************************************)
(* Entries as statements of the log and back (entry.go:161-217,            *)
(* entry_options.go:62-122, bucket.go:145-151).                            *)
(*                                                                         *)
(* The parts of a statement are joined with "~" and taken apart at every   *)
(* "~", those inside a key or a value included: a text is the sequence of  *)
(* the pieces between its tildes, and joining is concatenation.  Times are *)
(* counted in ticks, Second of them to a second, which is the resolution   *)
(* of a statement.                                                         *)
(***************************************************************************)
EXTENDS Integers, Sequences

CONSTANTS
  Words,       \* pieces of text that are not numbers
  INSERT, DELETE,
  Empty,       \* the empty text
  Coords,      \* values with a "coords" field
  Second,      \* ticks of the clock in a second
  NilOptions,  \* the nil *EntryOptions of the entry a deletion is written from
  Nil          \* no entry

EntryOptions ==
  [doesExp : BOOLEAN, doesInv : BOOLEAN, expTime : Int, invTime : Int, tol : Int]

ASSUME StatementsAssumption ==
  /\ Words \cap Int = {} /\ Empty \in Words
  /\ {INSERT, DELETE} \subseteq Words /\ INSERT # DELETE
  /\ NilOptions \notin EntryOptions
  /\ Second \in Nat \ {0}

Pieces == Words \cup Int

boolToInt(b) == IF b THEN 1 ELSE 0

Unix_rounded(t) == (t + Second - 1) \div Second

Unix(t) == t \div Second

\* The tolerance of nil options, 0.01, is never read back: it counts as 0 here.
entryOptionsCreateStmt(o) ==
  IF o = NilOptions
  THEN <<0, 0, 0, 0, 0>>
  ELSE <<boolToInt(o.doesExp), boolToInt(o.doesInv), Unix(o.expTime), Unix(o.invTime), o.tol>>

EntryInsertStmt(e) == <<INSERT>> \o e.k \o e.v \o entryOptionsCreateStmt(e.opts)

\* A deletion is written from &Entry{k: key}.
EntryDeleteStmt(k) == <<DELETE>> \o k \o <<Empty>> \o entryOptionsCreateStmt(NilOptions)

-----------------------------------------------------------------------------

IsEntryStmt(s) == s[1] \in {INSERT, DELETE}

\* What the parsers of the five options accept.
OptionsParse(p) ==
  /\ Len(p) >= 5
  /\ p[1] \in {0, 1} /\ p[2] \in {0, 1}
  /\ \A i \in 3..5 : p[i] \in Int

NewEntryOptionsFromStmt(p) ==
  [doesExp |-> p[1] = 1, doesInv |-> p[2] = 1,
   expTime |-> p[3] * Second, invTime |-> p[4] * Second, tol |-> p[5]]

OptionParts(s) == SubSeq(s, 4, Len(s))

Parses(s) == IsEntryStmt(s) /\ OptionsParse(OptionParts(s))

\* Whether the entry gets a location depends on its value alone, not on what the
\* client asked for when it made the entry.
NewEntryFromStmt(s) ==
  [k |-> <<s[2]>>, v |-> <<s[3]>>,
   opts |-> NewEntryOptionsFromStmt(OptionParts(s)),
   located |-> <<s[3]>> \in Coords]

\* What a statement keeps of an entry: whole seconds, and the location.
StoredOptions(o) ==
  [doesExp |-> o.doesExp, doesInv |-> o.doesInv,
   expTime |-> Second * Unix(o.expTime), invTime |-> Second * Unix(o.invTime),
   tol |-> o.tol]

Stored(e) ==
  [k |-> e.k, v |-> e.v, opts |-> StoredOptions(e.opts), located |-> e.v \in Coords]
=============================================================================
