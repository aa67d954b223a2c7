--------------------------- MODULE AppendFileProofs ---------------------------
(***************************************************************************)
(* Lemmas about files of lines, for statements of any kind: what is read   *)
(* of whole lines, of one whose last line is cut, and of lines that follow *)
(* a cut one.                                                              *)
(***************************************************************************)
EXTENDS AppendFile, FiniteSetTheorems, SequenceTheorems, TLAPS

\* A set of numbers with a bound has a greatest one.
LEMMA MaxExists ==
  ASSUME NEW S, NEW k \in Nat, S \subseteq 0..k, S # {}
  PROVE  Max(S) \in S /\ \A x \in S : Max(S) >= x
<1> DEFINE T == {k - x : x \in S}
<1>1. T \subseteq Nat /\ T # {}
  <2>1. \A x \in S : k - x \in Nat
    OBVIOUS
  <2>2. PICK x \in S : TRUE
    OBVIOUS
  <2> QED
    BY <2>1, <2>2, Zenon
<1>2. PICK m \in T : \A y \in T : ~ (<<y, m>> \in OpToRel(<, Nat))
  BY <1>1, WFMin, NatLessThanWellFounded, Zenon
<1>3. \A y \in T : ~ (y < m)
  BY <1>1, <1>2, Zenon DEF OpToRel
<1>4. PICK x \in S : m = k - x
  BY <1>2
<1>5. \A y \in S : x >= y
  BY <1>3, <1>4
<1> QED
  BY <1>5 DEF Max

\* The beginning of a sequence.
LEMMA Beginning ==
  ASSUME NEW S, NEW s \in Seq(S), NEW n \in 0..Len(s)
  PROVE  /\ SubSeq(s, 1, n) \in Seq(S) /\ Len(SubSeq(s, 1, n)) = n
         /\ \A i \in 1..n : SubSeq(s, 1, n)[i] = s[i]
<1>1. \A i \in 1..n : s[i] \in S
  BY ElementOfSeq
<1>2. 1 \in Int /\ n \in Int
  OBVIOUS
<1>3. /\ SubSeq(s, 1, n) \in Seq(S) /\ Len(SubSeq(s, 1, n)) = IF 1 <= n THEN n - 1 + 1 ELSE 0
      /\ \A i \in 1..(n - 1 + 1) : SubSeq(s, 1, n)[i] = s[1 + i - 1]
  BY <1>1, <1>2, SubSeqProperties
<1>4. n - 1 + 1 = n /\ (~(1 <= n) => n = 0) /\ \A i \in 1..n : 1 + i - 1 = i
  OBVIOUS
<1>5. \A i \in 1..n : SubSeq(s, 1, n)[i] = s[i]
  BY <1>3, <1>4
<1> QED
  BY <1>3, <1>4, <1>5

\* The beginning of a beginning.
LEMMA BeginningOf ==
  ASSUME NEW S, NEW s \in Seq(S), NEW n \in 0..Len(s), NEW m \in 0..n
  PROVE  SubSeq(SubSeq(s, 1, n), 1, m) = SubSeq(s, 1, m)
<1>1. /\ SubSeq(s, 1, n) \in Seq(S) /\ Len(SubSeq(s, 1, n)) = n
      /\ \A i \in 1..n : SubSeq(s, 1, n)[i] = s[i]
  BY Beginning
<1>2. m \in 0..Len(s) /\ m \in 0..Len(SubSeq(s, 1, n))
  BY <1>1
<1>3. /\ SubSeq(s, 1, m) \in Seq(S) /\ Len(SubSeq(s, 1, m)) = m
      /\ \A i \in 1..m : SubSeq(s, 1, m)[i] = s[i]
  BY <1>2, Beginning
<1> DEFINE u == SubSeq(s, 1, n)
<1>4. /\ SubSeq(u, 1, m) \in Seq(S) /\ Len(SubSeq(u, 1, m)) = m
      /\ \A i \in 1..m : SubSeq(u, 1, m)[i] = u[i]
  BY <1>1, <1>2, Beginning
<1>5. \A i \in 1..m : SubSeq(u, 1, m)[i] = SubSeq(s, 1, m)[i]
  BY <1>1, <1>3, <1>4
<1> HIDE DEF u
<1>6. SubSeq(u, 1, m) = SubSeq(s, 1, m)
  BY <1>3, <1>4, <1>5, SeqEqual
<1> QED
  BY <1>6 DEF u

-----------------------------------------------------------------------------
(* Files of lines *)

\* The unit at p is the one that a file of lines has there.
InStepAt(data, p) == data[p] = <<data[p - ((p - 1) % 4)][1], ((p - 1) % 4) + 1>>

\* The file consists of lines, of which the last may be cut.
InStep(data) == \A p \in 1..Len(data) : InStepAt(data, p)

\* The statements of the lines of such a file.
LineStmts(data) == [i \in 1..(Len(data) \div 4) |-> data[4 * i][1]]

LEMMA LineStmtsType ==
  ASSUME NEW T, NEW data \in Seq(UnitsOf(T))
  PROVE  LineStmts(data) \in Seq(T) /\ Len(LineStmts(data)) = Len(data) \div 4
<1>1. Len(data) \div 4 \in Nat
  OBVIOUS
<1>2. \A i \in 1..(Len(data) \div 4) : data[4 * i] \in UnitsOf(T)
  <2> TAKE i \in 1..(Len(data) \div 4)
  <2>1. 4 * i \in 1..Len(data)
    OBVIOUS
  <2> QED
    BY <2>1, ElementOfSeq
<1>3. \A i \in 1..(Len(data) \div 4) : data[4 * i][1] \in T
  BY <1>2 DEF UnitsOf
<1> QED
  BY <1>1, <1>3 DEF LineStmts

\* The place of unit j of line i.
LEMMA PlaceOf ==
  ASSUME NEW i \in Nat \ {0}, NEW j \in 1..4
  PROVE  LET p == 4 * i - 4 + j
         IN  p \in Nat \ {0} /\ (p - 1) % 4 = j - 1 /\ p - ((p - 1) % 4) = 4 * i - 3
  OBVIOUS

\* Every place is one of a unit of a line.
LEMMA UnitAt ==
  ASSUME NEW p \in Nat \ {0}
  PROVE  \E i \in Nat \ {0}, j \in 1..4 : p = 4 * i - 4 + j
<1>1. ((p - 1) \div 4) + 1 \in Nat \ {0} /\ ((p - 1) % 4) + 1 \in 1..4
  OBVIOUS
<1>2. p = 4 * (((p - 1) \div 4) + 1) - 4 + ((p - 1) % 4) + 1
  OBVIOUS
<1> QED
  BY <1>1, <1>2

\* A line, and the beginning of one.
LEMMA LineUnits ==
  ASSUME NEW T, NEW s \in T
  PROVE  /\ Line(s) \in Seq(T \X (1..4))
         /\ Len(Line(s)) = 4
         /\ \A j \in 1..4 : Line(s)[j] = <<s, j>>
  BY DEF Line

LEMMA LineCut ==
  ASSUME NEW T, NEW s \in T, NEW n \in 0..4
  PROVE  /\ SubSeq(Line(s), 1, n) \in Seq(T \X (1..4))
         /\ Len(SubSeq(Line(s), 1, n)) = n
         /\ \A j \in 1..n : SubSeq(Line(s), 1, n)[j] = <<s, j>>
<1> DEFINE l == Line(s)
           U == T \X (1..4)
<1>0. \A j \in 1..4 : l[j] = <<s, j>>
  BY LineUnits
<1> HIDE DEF l
<1>1. \A j \in 1..n : l[j] \in U /\ l[j] = <<s, j>>
  <2> TAKE j \in 1..n
  <2>1. j \in 1..4
    OBVIOUS
  <2> QED
    BY <1>0, <2>1
<1> HIDE DEF U
<1>2. /\ SubSeq(l, 1, n) \in Seq(U)
      /\ Len(SubSeq(l, 1, n)) = IF 1 <= n THEN n - 1 + 1 ELSE 0
      /\ \A j \in 1..(n - 1 + 1) : SubSeq(l, 1, n)[j] = l[1 + j - 1]
  <2>1. 1 \in Int /\ n \in Int
    OBVIOUS
  <2> QED
    BY <1>1, <2>1, SubSeqProperties
<1>3. n - 1 + 1 = n /\ (~(1 <= n) => n = 0) /\ \A j \in 1..n : 1 + j - 1 = j
  OBVIOUS
<1>4. SubSeq(l, 1, n) \in Seq(U) /\ Len(SubSeq(l, 1, n)) = n
  BY <1>2, <1>3
<1>5. \A j \in 1..n : SubSeq(l, 1, n)[j] = <<s, j>>
  BY <1>1, <1>2, <1>3
<1> QED
  BY <1>4, <1>5 DEF l, U

\* A line is whole if its units are those of a line.
LEMMA WholeLine ==
  ASSUME NEW T, NEW data \in Seq(UnitsOf(T)), NEW i \in 1..(Len(data) \div 4)
  PROVE  IsWhole(data, i) <=> \A j \in 1..4 : InStepAt(data, 4 * i - 4 + j)
<1> DEFINE u == SubSeq(data, 4 * i - 3, 4 * i)
<1>1. 4 * i - 3 \in 1..Len(data) /\ 4 * i \in 1..Len(data) /\ 4 * i - 3 \in Int /\ 4 * i \in Int
  OBVIOUS
<1>2. \A p \in (4 * i - 3)..(4 * i) : data[p] \in UnitsOf(T)
  BY <1>1, ElementOfSeq
<1>3. u \in Seq(UnitsOf(T)) /\ Len(u) = 4 /\ \A j \in 1..4 : u[j] = data[4 * i - 4 + j]
  <2>1. /\ u \in Seq(UnitsOf(T)) /\ Len(u) = IF 4 * i - 3 <= 4 * i THEN 4 * i - (4 * i - 3) + 1 ELSE 0
        /\ \A j \in 1..(4 * i - (4 * i - 3) + 1) : u[j] = data[4 * i - 3 + j - 1]
    BY <1>1, <1>2, SubSeqProperties
  <2>2. /\ 4 * i - (4 * i - 3) + 1 = 4 /\ 4 * i - 3 <= 4 * i
        /\ \A j \in 1..4 : 4 * i - 3 + j - 1 = 4 * i - 4 + j
    OBVIOUS
  <2> QED
    BY <2>1, <2>2
<1>4. PICK s \in T, j4 \in 1..4 : data[4 * i] = <<s, j4>>
  <2>1. data[4 * i] \in T \X (1..4)
    BY <1>1, <1>2 DEF UnitsOf
  <2> QED
    BY <2>1
<1>5. data[4 * i][1] = s
  BY <1>4
<1>6. Line(s) \in Seq(UnitsOf(T)) /\ Len(Line(s)) = 4 /\ \A j \in 1..4 : Line(s)[j] = <<s, j>>
  BY <1>4, LineUnits DEF UnitsOf
<1>7. \A j \in 1..4 : InStepAt(data, 4 * i - 4 + j) <=> data[4 * i - 4 + j] = <<data[4 * i - 3][1], j>>
  <2> TAKE j \in 1..4
  <2> DEFINE p == 4 * i - 4 + j
  <2>1. (p - 1) % 4 = j - 1 /\ p - ((p - 1) % 4) = 4 * i - 3
    BY PlaceOf
  <2>2. j - 1 + 1 = j
    OBVIOUS
  <2> HIDE DEF p
  <2>3. InStepAt(data, p) <=> data[p] = <<data[4 * i - 3][1], j>>
    BY <2>1, <2>2 DEF InStepAt
  <2> QED
    BY <2>3 DEF p
<1> HIDE DEF u
<1>8. u = Line(s) <=> \A j \in 1..4 : u[j] = <<s, j>>
  <2>1. ASSUME \A j \in 1..4 : u[j] = <<s, j>> PROVE u = Line(s)
    <3>1. Len(u) = Len(Line(s)) /\ \A j \in 1..Len(u) : u[j] = Line(s)[j]
      BY <1>3, <1>6, <2>1
    <3> QED
      BY <1>3, <1>6, <3>1, SeqEqual
  <2> QED
    BY <1>6, <2>1
<1>9. 4 * i - 4 + 1 = 4 * i - 3 /\ 4 * i - 4 + 4 = 4 * i
  OBVIOUS
<1>10. IsWhole(data, i) <=> \A j \in 1..4 : data[4 * i - 4 + j] = <<s, j>>
  BY <1>3, <1>5, <1>8 DEF IsWhole, u
<1>11. (\A j \in 1..4 : data[4 * i - 4 + j] = <<s, j>>) => data[4 * i - 3][1] = s
  BY <1>9
<1>12. (\A j \in 1..4 : data[4 * i - 4 + j] = <<data[4 * i - 3][1], j>>) => data[4 * i - 3][1] = s
  BY <1>4, <1>9
<1> QED
  BY <1>7, <1>10, <1>11, <1>12

\* Every beginning of a file of lines is whole lines.
LEMMA WholeInStep ==
  ASSUME NEW T, NEW data \in Seq(UnitsOf(T)), InStep(data)
  PROVE  /\ Whole(data) = Len(data) \div 4
         /\ WholeStmts(data) = LineStmts(data)
         /\ \A i \in 1..(Len(data) \div 4) : IsWhole(data, i)
<1> DEFINE k == Len(data) \div 4
           S == {n \in 0..k : \A i \in 1..n : IsWhole(data, i)}
<1>1. k \in Nat
  OBVIOUS
<1>2. \A i \in 1..k : IsWhole(data, i)
  <2> TAKE i \in 1..k
  <2>1. \A j \in 1..4 : 4 * i - 4 + j \in 1..Len(data)
    OBVIOUS
  <2> QED
    BY <2>1, WholeLine DEF InStep
<1>3. k \in S /\ S \subseteq 0..k
  BY <1>1, <1>2
<1>4. Max(S) \in S /\ Max(S) >= k
  BY <1>1, <1>3, MaxExists
<1> QED
  BY <1>1, <1>2, <1>3, <1>4 DEF Whole, WholeStmts, LineStmts

\* How many whole lines a file begins with, and what stands there.
LEMMA WholeLines ==
  ASSUME NEW T, NEW data \in Seq(UnitsOf(T))
  PROVE  /\ Whole(data) \in Nat /\ Whole(data) \in 0..(Len(data) \div 4)
         /\ \A i \in 1..Whole(data) : IsWhole(data, i)
         /\ WholeStmts(data) \in Seq(T) /\ Len(WholeStmts(data)) = Whole(data)
<1> DEFINE k == Len(data) \div 4
           S == {n \in 0..k : \A i \in 1..n : IsWhole(data, i)}
<1>1. k \in Nat /\ 0 \in S /\ S \subseteq 0..k
  OBVIOUS
<1>2. Max(S) \in S
  BY <1>1, MaxExists
<1>3. Whole(data) \in 0..k /\ \A i \in 1..Whole(data) : IsWhole(data, i)
  BY <1>2 DEF Whole
<1>4. \A i \in 1..Whole(data) : data[4 * i][1] \in T
  <2> TAKE i \in 1..Whole(data)
  <2>1. 4 * i \in 1..Len(data)
    BY <1>3
  <2>2. data[4 * i] \in UnitsOf(T)
    BY <2>1, ElementOfSeq
  <2> QED
    BY <2>2 DEF UnitsOf
<1>5. Whole(data) \in Nat
  BY <1>3
<1>6. WholeStmts(data) \in Seq(T)
  BY <1>4, <1>5 DEF WholeStmts
<1>7. Len(WholeStmts(data)) = Whole(data)
  BY <1>5 DEF WholeStmts
<1> QED
  BY <1>3, <1>5, <1>6, <1>7, Zenon

\* A file with more units after it.
LEMMA Longer ==
  ASSUME NEW T, NEW data \in Seq(UnitsOf(T)), NEW u \in Seq(UnitsOf(T))
  PROVE  /\ data \o u \in Seq(UnitsOf(T)) /\ Len(data \o u) = Len(data) + Len(u)
         /\ \A p \in 1..Len(data) : (data \o u)[p] = data[p]
         /\ \A p \in 1..Len(u) : (data \o u)[Len(data) + p] = u[p]
         /\ \A p \in 1..Len(data) : InStepAt(data \o u, p) <=> InStepAt(data, p)
<1> DEFINE d == data \o u
<1>1. /\ d \in Seq(UnitsOf(T)) /\ Len(d) = Len(data) + Len(u)
      /\ \A p \in 1..(Len(data) + Len(u)) :
           d[p] = IF p <= Len(data) THEN data[p] ELSE u[p - Len(data)]
  BY ConcatProperties
<1> HIDE DEF d
<1>2. \A p \in 1..Len(data) : d[p] = data[p]
  BY <1>1, SMTT(30)
<1>3. \A p \in 1..Len(u) : d[Len(data) + p] = u[p]
  <2> TAKE p \in 1..Len(u)
  <2>1. /\ Len(data) + p \in 1..(Len(data) + Len(u)) /\ ~(Len(data) + p <= Len(data))
        /\ Len(data) + p - Len(data) = p
    OBVIOUS
  <2> QED
    BY <1>1, <2>1
<1>4. \A p \in 1..Len(data) : p - ((p - 1) % 4) \in 1..Len(data)
  OBVIOUS
<1>5. \A p \in 1..Len(data) : InStepAt(d, p) <=> InStepAt(data, p)
  BY <1>2, <1>4 DEF InStepAt
<1> QED
  BY <1>1, <1>2, <1>3, <1>5 DEF d

\* What is out of step stays so.
LEMMA OutOfStepStays ==
  ASSUME NEW T, NEW data \in Seq(UnitsOf(T)), NEW u \in Seq(UnitsOf(T)), ~InStep(data)
  PROVE  ~InStep(data \o u)
<1>1. PICK p \in 1..Len(data) : ~InStepAt(data, p)
  BY DEF InStep
<1>2. ~InStepAt(data \o u, p) /\ p \in 1..Len(data \o u)
  BY <1>1, Longer
<1> QED
  BY <1>2 DEF InStep

\* A line after a cut one is out of step.
LEMMA AfterCut ==
  ASSUME NEW T, NEW data \in Seq(UnitsOf(T)), Len(data) % 4 # 0,
         NEW u \in Seq(UnitsOf(T)), Len(u) > 0, u[1][2] = 1
  PROVE  ~InStep(data \o u)
<1> DEFINE p == Len(data) + 1
           d == data \o u
<1>1. p \in 1..Len(d) /\ d[p] = u[1]
  BY Longer
<1>2. ((p - 1) % 4) + 1 # 1
  OBVIOUS
<1>3. ~InStepAt(d, p)
  <2> HIDE DEF d, p
  <2> QED
    BY <1>1, <1>2 DEF InStepAt
<1> QED
  BY <1>1, <1>3 DEF InStep

\* The file consists of whole lines.
Clean(data) == InStep(data) /\ Len(data) % 4 = 0

-----------------------------------------------------------------------------
(* Writing *)

\* A write at an offset within the file, at its end, and over all of it.
LEMMA OverwriteType ==
  ASSUME NEW U, NEW data \in Seq(U), NEW off \in 0..Len(data), NEW u \in Seq(U)
  PROVE  /\ Overwrite(data, off, u) \in Seq(U)
         /\ off + Len(u) <= Len(Overwrite(data, off, u))
         /\ off = Len(data) => Overwrite(data, off, u) = data \o u
         /\ off = 0 /\ Len(data) <= Len(u) => Overwrite(data, off, u) = u
<1> DEFINE a == SubSeq(data, 1, off)
           z == SubSeq(data, off + Len(u) + 1, Len(data))
<1>1. Len(data) \in Nat /\ Len(u) \in Nat /\ off \in Nat
  OBVIOUS
<1>2. a \in Seq(U) /\ Len(a) = off /\ (off = 0 => a = <<>>) /\ (off = Len(data) => a = data)
  <2>1. \A i \in 1..off : data[i] \in U
    BY ElementOfSeq
  <2>2. a \in Seq(U) /\ Len(a) = IF 1 <= off THEN off - 1 + 1 ELSE 0
    BY <1>1, <2>1, SubSeqProperties
  <2>3. off = 0 => a = <<>>
    BY SubSeqEmpty
  <2>4. off = Len(data) => a = data
    BY SubSeqFull
  <2> HIDE DEF a
  <2> QED
    BY <1>1, <2>2, <2>3, <2>4
<1>3. z \in Seq(U) /\ (Len(data) < off + Len(u) + 1 => z = <<>>)
  <2>1. \A i \in (off + Len(u) + 1)..Len(data) : data[i] \in U
    BY <1>1, ElementOfSeq
  <2>2. off + Len(u) + 1 \in Int /\ Len(data) \in Int
    BY <1>1
  <2> QED
    BY <2>1, <2>2, SubSeqProperties, SubSeqEmpty
<1>4. Overwrite(data, off, u) = a \o u \o z
  BY DEF Overwrite
<1> HIDE DEF a, z
<1>5. a \o u \in Seq(U) /\ Len(a \o u) = off + Len(u)
  BY <1>2, ConcatProperties
<1>6. a \o u \o z \in Seq(U) /\ Len(a \o u \o z) = off + Len(u) + Len(z)
  BY <1>3, <1>5, ConcatProperties, ZenonT(40)
<1>7. Len(z) \in Nat
  BY <1>3
<1>8. z = <<>> => a \o u \o z = a \o u
  BY <1>5, ConcatEmptySeq
<1>9. off = Len(data) => a \o u \o z = data \o u
  BY <1>1, <1>2, <1>3, <1>8
<1>10. ASSUME off = 0, Len(data) <= Len(u) PROVE a \o u \o z = u
  <2>1. a = <<>> /\ z = <<>>
    BY <1>1, <1>2, <1>3, <1>10
  <2>2. a \o u = u
    BY <2>1, ConcatEmptySeq
  <2> QED
    BY <1>8, <2>1, <2>2
<1>11. off + Len(u) <= Len(a \o u \o z)
  BY <1>1, <1>6, <1>7
<1> QED
  BY <1>4, <1>6, <1>9, <1>10, <1>11

\* A write at the end of the file.
LEMMA OverwriteEnd ==
  ASSUME NEW U, NEW data \in Seq(U), NEW x \in Seq(U)
  PROVE  Overwrite(data, Len(data), x) = data \o x
<1>1. Len(data) \in 0..Len(data)
  OBVIOUS
<1>2. PICK off \in 0..Len(data) : off = Len(data)
  BY <1>1
<1>3. /\ Overwrite(data, off, x) \in Seq(U)
      /\ off + Len(x) <= Len(Overwrite(data, off, x))
      /\ off = Len(data) => Overwrite(data, off, x) = data \o x
      /\ off = 0 /\ Len(data) <= Len(x) => Overwrite(data, off, x) = x
  BY OverwriteType
<1> QED
  BY <1>2, <1>3

LEMMA WrittenType ==
  ASSUME NEW U, NEW f \in FilesOf(U), f.off <= Len(f.data), NEW u \in Seq(U),
         NEW cuts \in SUBSET (0..Len(u))
  PROVE  LET w == Written(f, u, cuts)
         IN  /\ w \in FilesOf(U) /\ w.off <= Len(w.data) /\ w.data \in w.crash
             /\ w.data = Overwrite(f.data, f.off, u) /\ w.off = f.off + Len(u)
             /\ \A d \in w.crash : \/ d \in f.crash
                                   \/ d = Overwrite(f.data, f.off, u)
                                   \/ \E n \in cuts : d = Overwrite(f.data, f.off, SubSeq(u, 1, n))
<1> DEFINE w == Written(f, u, cuts)
<1>1. f.data \in Seq(U) /\ f.off \in 0..Len(f.data) /\ f.crash \subseteq Seq(U)
  BY DEF FilesOf
<1>2. /\ w.data = Overwrite(f.data, f.off, u) /\ w.off = f.off + Len(u)
      /\ w.crash = f.crash \cup {Overwrite(f.data, f.off, SubSeq(u, 1, n)) : n \in cuts}
                           \cup {Overwrite(f.data, f.off, u)}
      /\ w = [data |-> w.data, off |-> w.off, crash |-> w.crash]
  BY DEF Written
<1> HIDE DEF w
<1>3. w.data \in Seq(U) /\ w.off <= Len(w.data) /\ w.off \in Nat
  <2>1. Overwrite(f.data, f.off, u) \in Seq(U) /\ f.off + Len(u) <= Len(Overwrite(f.data, f.off, u))
    BY <1>1, OverwriteType
  <2> QED
    BY <1>1, <1>2, <2>1
<1>4. ASSUME NEW n \in cuts PROVE Overwrite(f.data, f.off, SubSeq(u, 1, n)) \in Seq(U)
  <2>1. n \in 0..Len(u)
    OBVIOUS
  <2>2. \A i \in 1..n : u[i] \in U
    BY <2>1, ElementOfSeq
  <2>3. SubSeq(u, 1, n) \in Seq(U)
    BY <2>1, <2>2, SubSeqProperties
  <2> QED
    BY <1>1, <2>3, OverwriteType
<1>5. w.crash \subseteq Seq(U)
  BY <1>1, <1>2, <1>3, <1>4
<1>6. w \in FilesOf(U)
  BY <1>2, <1>3, <1>5 DEF FilesOf
<1>7. w.data \in w.crash
  BY <1>2
<1> QED
  BY <1>2, <1>3, <1>6, <1>7 DEF w

\* The next write extends the file.
Extends(f) == f.off = Len(f.data)

\* What a crash may leave of units that were written to the end.
Extended(data, u, cuts) == {data \o SubSeq(u, 1, m) : m \in cuts}

\* The beginning of a sequence of units that is written to the end of a file.
LEMMA WrittenAtEnd ==
  ASSUME NEW U, NEW f \in FilesOf(U), Extends(f), NEW u \in Seq(U),
         NEW n \in 0..Len(u), NEW cuts \in SUBSET (0..n)
  PROVE  LET g == Written(f, SubSeq(u, 1, n), cuts)
         IN  /\ g.data = f.data \o SubSeq(u, 1, n)
             /\ \A d \in g.crash : \/ d \in f.crash
                                   \/ d = f.data \o SubSeq(u, 1, n)
                                   \/ d \in Extended(f.data, u, cuts)
<1> DEFINE w == SubSeq(u, 1, n)
           g == Written(f, w, cuts)
<1>1. f.data \in Seq(U)
  BY DEF FilesOf
<1>2. w \in Seq(U) /\ Len(w) = n
  BY Beginning
<1>3. \A x \in Seq(U) : Overwrite(f.data, f.off, x) = f.data \o x
  BY <1>1, OverwriteEnd DEF Extends
<1>4. \A m \in cuts : SubSeq(w, 1, m) = SubSeq(u, 1, m) /\ SubSeq(u, 1, m) \in Seq(U)
  <2> TAKE m \in cuts
  <2>1. m \in 0..n /\ m \in 0..Len(u)
    OBVIOUS
  <2> QED
    BY <2>1, Beginning, BeginningOf
<1> HIDE DEF w
<1>5. /\ g.data = Overwrite(f.data, f.off, w)
      /\ \A d \in g.crash : \/ d \in f.crash
                            \/ d = Overwrite(f.data, f.off, w)
                            \/ \E m \in cuts : d = Overwrite(f.data, f.off, SubSeq(w, 1, m))
  BY DEF Written
<1>6. Overwrite(f.data, f.off, w) = f.data \o w
  BY <1>2, <1>3
<1>7. \A m \in cuts : Overwrite(f.data, f.off, SubSeq(w, 1, m)) = f.data \o SubSeq(u, 1, m)
  <2> TAKE m \in cuts
  <2>1. SubSeq(w, 1, m) = SubSeq(u, 1, m) /\ SubSeq(u, 1, m) \in Seq(U)
    BY <1>4
  <2> QED
    BY <1>3, <2>1, Zenon
<1> HIDE DEF g
<1> QED
  BY <1>5, <1>6, <1>7 DEF w, g, Extended

\* A write over all of a file, and one of what the file holds already.
LEMMA OverwriteAll ==
  ASSUME NEW U, NEW data \in Seq(U), NEW u \in Seq(U), Len(data) <= Len(u)
  PROVE  Overwrite(data, 0, u) = u
<1>1. PICK off \in 0..Len(data) : off = 0
  OBVIOUS
<1>2. /\ Overwrite(data, off, u) \in Seq(U)
      /\ off + Len(u) <= Len(Overwrite(data, off, u))
      /\ off = Len(data) => Overwrite(data, off, u) = data \o u
      /\ off = 0 /\ Len(data) <= Len(u) => Overwrite(data, off, u) = u
  BY OverwriteType
<1> QED
  BY <1>1, <1>2

LEMMA OverwriteSame ==
  ASSUME NEW U, NEW u \in Seq(U), NEW n \in 0..Len(u)
  PROVE  Overwrite(u, 0, SubSeq(u, 1, n)) = u
<1> DEFINE p == SubSeq(u, 1, n)
           z == SubSeq(u, n + 1, Len(u))
<1>1. p \in Seq(U) /\ Len(p) = n
  BY Beginning
<1>2. p \o z = u
  <2>1. SubSeq(u, 1, n) \o SubSeq(u, n + 1, Len(u)) = SubSeq(u, 1, Len(u))
    <3>1. 1 \in 1..(Len(u) + 1) /\ n \in (1 - 1)..Len(u) /\ Len(u) \in n..Len(u)
      OBVIOUS
    <3> QED
      BY <3>1, ConcatAdjacentSubSeq, Zenon
  <2> QED
    BY <2>1, SubSeqFull
<1>3. SubSeq(u, 1, 0) = <<>>
  BY SubSeqEmpty
<1> HIDE DEF p
<1>4. <<>> \o p = p
  BY <1>1, ConcatEmptySeq
<1>5. Overwrite(u, 0, p) = SubSeq(u, 1, 0) \o p \o SubSeq(u, 0 + n + 1, Len(u))
  BY <1>1 DEF Overwrite
<1>6. 0 + n + 1 = n + 1
  OBVIOUS
<1>7. Overwrite(u, 0, p) = p \o z
  BY <1>3, <1>4, <1>5, <1>6
<1> QED
  BY <1>2, <1>7 DEF p

LEMMA WrittenOver ==
  ASSUME NEW U, NEW old \in Seq(U), NEW u \in Seq(U), Len(old) <= Len(u),
         NEW cuts \in SUBSET (0..Len(u))
  PROVE  LET g == Written(Opened(old), u, cuts)
         IN  g.data = u /\ (old = u => g.crash = {u})
<1> DEFINE g == Written(Opened(old), u, cuts)
<1>1. /\ g.data = Overwrite(old, 0, u)
      /\ g.crash = {old} \cup {Overwrite(old, 0, SubSeq(u, 1, n)) : n \in cuts}
                         \cup {Overwrite(old, 0, u)}
  BY DEF Written, Opened
<1>2. Overwrite(old, 0, u) = u
  BY OverwriteAll
<1>3. \A n \in cuts : Overwrite(u, 0, SubSeq(u, 1, n)) = u
  <2> TAKE n \in cuts
  <2>1. n \in 0..Len(u)
    OBVIOUS
  <2> QED
    BY <2>1, OverwriteSame
<1> HIDE DEF g
<1> QED
  BY <1>1, <1>2, <1>3 DEF g

\* More than the write stays of a longer file.
LEMMA WrittenWithin ==
  ASSUME NEW U, NEW old \in Seq(U), NEW u \in Seq(U), NEW cuts
  PROVE  LET g == Written(Opened(old), u, cuts)
         IN  Len(g.data) > Len(u) \/ g.data = u
<1>1. PICK g : g = Written(Opened(old), u, cuts)
  OBVIOUS
<1>2. g.data = Overwrite(old, 0, u)
  BY <1>1 DEF Written, Opened
<1>3. 0 \in 0..Len(old) /\ Len(u) \in Nat
  OBVIOUS
<1>4. CASE Len(old) <= Len(u)
  BY <1>1, <1>2, <1>3, <1>4, OverwriteType
<1>5. CASE Len(old) > Len(u)
  <2>1. PICK a, z : a = SubSeq(old, 1, 0) /\ z = SubSeq(old, 0 + Len(u) + 1, Len(old))
    OBVIOUS
  <2>2. g.data = a \o u \o z
    BY <1>2, <2>1 DEF Overwrite
  <2>3. a = <<>>
    BY <2>1, SubSeqEmpty
  <2>4. z \in Seq(U) /\ Len(z) = Len(old) - Len(u)
    <3>1. \A i \in (Len(u) + 1)..Len(old) : old[i] \in U
      BY <1>3, ElementOfSeq
    <3>2. Len(u) + 1 \in 1..(Len(old) + 1) /\ 0 + Len(u) + 1 = Len(u) + 1 /\ Len(old) \in Nat
      BY <1>3, <1>5
    <3> QED
      BY <1>3, <1>5, <2>1, <3>1, <3>2, SubSeqProperties
  <2>5. a \o u = u
    BY <2>3, ConcatEmptySeq
  <2>6. Len(u \o z) = Len(u) + Len(z)
    BY <2>4, ConcatProperties
  <2>7. Len(g.data) > Len(u)
    BY <1>3, <1>5, <2>2, <2>4, <2>5, <2>6
  <2> QED
    BY <1>1, <2>7
<1> QED
  BY <1>3, <1>4, <1>5

LEMMA OpenedType ==
  ASSUME NEW U, NEW d \in Seq(U)
  PROVE  LET w == Opened(d)
         IN  /\ w \in FilesOf(U) /\ w.off <= Len(w.data) /\ w.data \in w.crash
             /\ w.data = d /\ w.off = 0 /\ w.crash = {d}
  BY DEF Opened, FilesOf

LEMMA SyncedType ==
  ASSUME NEW U, NEW f \in FilesOf(U)
  PROVE  LET w == Synced(f)
         IN  /\ w \in FilesOf(U) /\ w.data \in w.crash
             /\ w.data = f.data /\ w.off = f.off /\ w.crash = {f.data}
  BY DEF Synced, FilesOf
=============================================================================
