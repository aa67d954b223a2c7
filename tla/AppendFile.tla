----------------------------- MODULE AppendFile ------------------------------
(***************************************************************************)
(* An *os.File as the log of a bucket and the bucket configuration file    *)
(* use it: a sequence of units that are read and written at an offset, and *)
(* the contents that a crash of the machine may leave of it.  Writes reach *)
(* the disk in their order; those since the last Sync may be lost, from    *)
(* any unit on at which a write can be cut.  Both write lines of four      *)
(* units; a line is read where its four units stand in a row.              *)
(***************************************************************************)
EXTENDS Integers, Sequences, FiniteSetsExt

FilesOf(U) == [data : Seq(U), off : Nat, crash : SUBSET Seq(U)]

Opened(data) == [data |-> data, off |-> 0, crash |-> {data}]

Overwrite(data, off, units) ==
  SubSeq(data, 1, off) \o units \o SubSeq(data, off + Len(units) + 1, Len(data))

\* The file after a Write; cuts are the lengths a crash may cut the write to.
Written(f, units, cuts) ==
  [data  |-> Overwrite(f.data, f.off, units),
   off   |-> f.off + Len(units),
   crash |-> f.crash \cup {Overwrite(f.data, f.off, SubSeq(units, 1, n)) : n \in cuts}
                     \cup {Overwrite(f.data, f.off, units)}]

Synced(f) == [f EXCEPT !.crash = {f.data}]

\* The file after Truncate(0) and Seek(0, 0).
Cleared(f) == [data |-> <<>>, off |-> 0, crash |-> f.crash \cup {<<>>}]
-----------------------------------------------------------------------------
(* Lines *)

\* The units of the lines of statements in T.
UnitsOf(T) == T \X (1..4)

Line(s) == <<<<s, 1>>, <<s, 2>>, <<s, 3>>, <<s, 4>>>>

IsWhole(data, i) == SubSeq(data, 4 * i - 3, 4 * i) = Line(data[4 * i][1])

\* How many whole lines the file begins with.
Whole(data) == Max({n \in 0..(Len(data) \div 4) : \A i \in 1..n : IsWhole(data, i)})

\* The statements of these lines.
WholeStmts(data) == [i \in 1..Whole(data) |-> data[4 * i][1]]

=============================================================================
