------------------------- MODULE BucketRegistryProofs -------------------------
(***************************************************************************)
(* Theorems about BucketRegistry for every set of names and options, every *)
(* length of the file and every value of the bounds.  The first part says  *)
(* what reading makes of a file of lines, of one whose last line is cut,   *)
(* and of one where a line follows a cut one; the second part keeps the    *)
(* inductive invariant IInv through every step.                            *)
(***************************************************************************)
EXTENDS BucketRegistry, AppendFileProofs

-----------------------------------------------------------------------------
(* Files of lines *)

\* The maps, the statements that are written, and the units of their lines.
Maps == [Names -> Options \cup {NoBucket}]

Stmts == [name : Names, opts : Options \cup {NoBucket}]

\* What does not parse.
Bad == [name |-> NoText, opts |-> NoText]

\* What is read of the first n units of the line of a statement.
ReadOf(s, n) ==
  CASE n = 0 -> <<>> [] n = 1 -> <<Bad>> [] n = 2 -> <<Cut(s)>> [] OTHER -> <<s>>

\* The statements of a file of lines.
LEMMA StmtsInStep ==
  ASSUME NEW data \in Seq(UnitsOf(Stmts)), InStep(data)
  PROVE  StmtsOf(data) =
           LineStmts(data) \o LastOf(SubSeq(data, 4 * (Len(data) \div 4) + 1, Len(data)))
  BY WholeInStep DEF StmtsOf, LineStmts

\* What is read of a cut line.
LEMMA LastOfCut ==
  ASSUME NEW s \in Stmts, NEW n \in 0..3
  PROVE  LastOf(SubSeq(Line(s), 1, n)) = ReadOf(s, n)
<1>1. \A t, m : m \in 0..3 =>
         /\ Len(SubSeq(Line(t), 1, m)) = m
         /\ m > 0 => SubSeq(Line(t), 1, m) # <<>> /\ SubSeq(Line(t), 1, m)[1] = <<t, 1>>
  <2> TAKE t, m
  <2> HAVE m \in 0..3
  <2>1. t \in {t} /\ m \in 0..4
    OBVIOUS
  <2> DEFINE u == SubSeq(Line(t), 1, m)
  <2>2. Len(u) = m /\ \A j \in 1..m : u[j] = <<t, j>>
    BY <2>1, LineCut
  <2> HIDE DEF u
  <2>3. Len(u) = m /\ (m > 0 => u # <<>> /\ u[1] = <<t, 1>>)
    BY <2>2
  <2> QED
    BY <2>3 DEF u
<1>2. CASE n = 0
  <2>1. SubSeq(Line(s), 1, n) = <<>>
    BY <1>2, SubSeqEmpty
  <2>2. \A t : SubSeq(Line(t), 1, 3) # <<>> /\ SubSeq(Line(t), 1, 2) # <<>>
    BY <1>1
  <2>3. LastOf(<<>>) = <<>>
    BY <2>2 DEF LastOf
  <2>4. ReadOf(s, 0) = <<>>
    BY DEF ReadOf
  <2> QED
    BY <1>2, <2>1, <2>3, <2>4
<1>3. CASE n # 0
  <2> DEFINE u == SubSeq(Line(s), 1, n)
             u2 == SubSeq(Line(s), 1, 2)
             u3 == SubSeq(Line(s), 1, 3)
  <2>1. u[1] = <<s, 1>> /\ u # <<>> /\ (u = u3 <=> n = 3) /\ (u = u2 <=> n = 2) /\ u2 # u3
    <3>1. 2 \in 0..3 /\ 3 \in 0..3 /\ n > 0
      BY <1>3
    <3>2. Len(u) = n /\ (n > 0 => u # <<>> /\ u[1] = <<s, 1>>)
      <4>1. n \in 0..3
        OBVIOUS
      <4> QED
        BY <1>1, <4>1, Zenon
    <3>4. Len(u2) = 2 /\ Len(u3) = 3
      BY <1>1, <3>1, Zenon
    <3>3. (n = 2 => u = u2) /\ (n = 3 => u = u3)
      OBVIOUS
    <3> HIDE DEF u, u2, u3
    <3>5. (u = u3 => n = 3) /\ (u = u2 => n = 2) /\ u2 # u3
      <4>1. u = u3 => Len(u) = Len(u3)
        OBVIOUS
      <4>2. u = u2 => Len(u) = Len(u2)
        OBVIOUS
      <4>3. u2 = u3 => Len(u2) = Len(u3)
        OBVIOUS
      <4> QED
        BY <3>2, <3>4, <4>1, <4>2, <4>3
    <3> QED
      BY <3>1, <3>2, <3>3, <3>5, Zenon
  <2>2. LastOf(u) = CASE u = <<>> -> <<>>
                      [] u = u3   -> <<s>>
                      [] u = u2   -> <<Cut(s)>>
                      [] OTHER    -> <<Bad>>
    <3> HIDE DEF u
    <3>1. u[1][1] = s
      BY <2>1
    <3> QED
      BY <3>1 DEF LastOf, Bad
  <2>3. n = 1 \/ n = 2 \/ n = 3
    BY <1>3
  <2> HIDE DEF u, u2, u3
  <2>4. LastOf(u) = ReadOf(s, n)
    BY <2>1, <2>2, <2>3 DEF ReadOf
  <2> QED
    BY <2>4 DEF u
<1> QED
  BY <1>2, <1>3

\* The beginning of a line after whole lines.
LEMMA CleanThenLine ==
  ASSUME NEW data \in Seq(UnitsOf(Stmts)), Clean(data), NEW s \in Stmts, NEW n \in 0..4
  PROVE  LET d == data \o SubSeq(Line(s), 1, n)
         IN  /\ d \in Seq(UnitsOf(Stmts)) /\ Len(d) = Len(data) + n /\ InStep(d)
             /\ StmtsOf(d) = LineStmts(data) \o ReadOf(s, n)
<1> DEFINE u == SubSeq(Line(s), 1, n)
           d == data \o u
           k == Len(data) \div 4
<1>0. k \in Nat /\ Len(data) = 4 * k /\ Len(data) \in Nat
  BY DEF Clean
<1>1. u \in Seq(UnitsOf(Stmts)) /\ Len(u) = n /\ \A j \in 1..n : u[j] = <<s, j>>
  BY LineCut DEF UnitsOf
<1> HIDE DEF u
<1>2. /\ d \in Seq(UnitsOf(Stmts)) /\ Len(d) = 4 * k + n
      /\ \A p \in 1..Len(data) : d[p] = data[p]
      /\ \A p \in 1..n : d[4 * k + p] = <<s, p>>
      /\ \A p \in 1..(4 * k) : InStepAt(d, p)
  <2>1. /\ data \o u \in Seq(UnitsOf(Stmts)) /\ Len(data \o u) = Len(data) + Len(u)
        /\ \A p \in 1..Len(data) : (data \o u)[p] = data[p]
        /\ \A p \in 1..Len(u) : (data \o u)[Len(data) + p] = u[p]
        /\ \A p \in 1..Len(data) : InStepAt(data \o u, p) <=> InStepAt(data, p)
    BY <1>1, Longer, Zenon
  <2> QED
    BY <1>0, <1>1, <2>1 DEF Clean, InStep
<1> HIDE DEF d
<1>3. \A p \in 1..n : InStepAt(d, 4 * k + p)
  <2> TAKE p \in 1..n
  <2>1. 4 * (k + 1) - 4 + p = 4 * k + p /\ 4 * (k + 1) - 3 = 4 * k + 1
    BY <1>0
  <2>2. (4 * k + p - 1) % 4 = p - 1 /\ 4 * k + p - ((4 * k + p - 1) % 4) = 4 * k + 1
    BY <1>0, <2>1, PlaceOf
  <2>3. d[4 * k + 1] = <<s, 1>> /\ d[4 * k + p] = <<s, p>> /\ p - 1 + 1 = p
    <3>1. 1 \in 1..n /\ p \in 1..n /\ p - 1 + 1 = p
      OBVIOUS
    <3> QED
      BY <1>2, <3>1, Zenon
  <2> QED
    BY <2>2, <2>3, SMTT(30) DEF InStepAt
<1>4. InStep(d)
  <2> SUFFICES ASSUME NEW p \in 1..Len(d) PROVE InStepAt(d, p)
    BY DEF InStep
  <2>1. p \in 1..(4 * k) \/ (p - 4 * k \in 1..n /\ p = 4 * k + (p - 4 * k))
    BY <1>0, <1>2
  <2> QED
    BY <1>2, <1>3, <2>1
<1>5. StmtsOf(d) = LineStmts(d) \o LastOf(SubSeq(d, 4 * (Len(d) \div 4) + 1, Len(d)))
  BY <1>2, <1>4, StmtsInStep
<1>6. \A i \in 1..k : 4 * i \in 1..Len(data) /\ d[4 * i] = data[4 * i]
  BY <1>0, <1>2
<1>7. LineStmts(data) \in Seq(Stmts) /\ Len(LineStmts(data)) = k
  BY LineStmtsType
<1>8. CASE n = 4
  <2>1. Len(d) \div 4 = k + 1 /\ Len(d) = 4 * (k + 1)
    BY <1>0, <1>2, <1>8
  <2>2. SubSeq(d, 4 * (Len(d) \div 4) + 1, Len(d)) = <<>>
    BY <1>0, <1>2, <2>1, SubSeqEmpty
  <2>3. LastOf(<<>>) = <<>>
    <3>1. SubSeq(Line(s), 1, 0) = <<>> /\ ReadOf(s, 0) = <<>>
      BY SubSeqEmpty DEF ReadOf
    <3>2. 0 \in 0..3
      OBVIOUS
    <3> QED
      BY <3>1, <3>2, LastOfCut
  <2>4. LineStmts(d) \in Seq(Stmts) /\ Len(LineStmts(d)) = k + 1
    BY <1>2, <2>1, LineStmtsType
  <2>5. LineStmts(data) \o <<s>> \in Seq(Stmts) /\ Len(LineStmts(data) \o <<s>>) = k + 1
        /\ \A i \in 1..(k + 1) : (LineStmts(data) \o <<s>>)[i] =
             IF i <= k THEN LineStmts(data)[i] ELSE s
    BY <1>0, <1>7
  <2>6. \A i \in 1..(k + 1) : LineStmts(d)[i] = IF i <= k THEN LineStmts(data)[i] ELSE s
    <3> TAKE i \in 1..(k + 1)
    <3>1. LineStmts(d)[i] = d[4 * i][1]
      BY <2>1 DEF LineStmts
    <3>2. CASE i <= k
      BY <1>0, <1>6, <3>1, <3>2 DEF LineStmts
    <3>3. CASE i = k + 1
      <4>1. d[4 * k + 4] = <<s, 4>> /\ 4 * i = 4 * k + 4
        BY <1>0, <1>2, <1>8, <3>3
      <4> QED
        BY <1>0, <3>1, <3>3, <4>1
    <3> QED
      BY <1>0, <3>2, <3>3
  <2>7. LineStmts(d) = LineStmts(data) \o <<s>>
    BY <2>4, <2>5, <2>6, SeqEqual
  <2>8. ReadOf(s, n) = <<s>> /\ LineStmts(d) \o <<>> = LineStmts(d)
    BY <1>8, <2>4, ConcatEmptySeq DEF ReadOf
  <2> QED
    BY <1>0, <1>2, <1>4, <1>5, <2>2, <2>3, <2>7, <2>8 DEF d, u
<1>9. CASE n \in 0..3
  <2>1. Len(d) \div 4 = k
    BY <1>0, <1>2, <1>9
  <2>2. LineStmts(d) = LineStmts(data)
    BY <1>6, <2>1 DEF LineStmts
  <2>3. SubSeq(d, 4 * k + 1, 4 * k + n) = u
    <3> DEFINE v == SubSeq(d, 4 * k + 1, 4 * k + n)
    <3>1. \A p \in (4 * k + 1)..(4 * k + n) : d[p] \in UnitsOf(Stmts)
      BY <1>0, <1>2, ElementOfSeq
    <3>2. 4 * k + 1 \in Int /\ 4 * k + n \in Int
      BY <1>0
    <3>3. /\ v \in Seq(UnitsOf(Stmts))
          /\ Len(v) = IF 4 * k + 1 <= 4 * k + n THEN 4 * k + n - (4 * k + 1) + 1 ELSE 0
          /\ \A j \in 1..(4 * k + n - (4 * k + 1) + 1) : v[j] = d[4 * k + 1 + j - 1]
      BY <3>1, <3>2, SubSeqProperties
    <3> HIDE DEF v
    <3>4. 4 * k + n - (4 * k + 1) + 1 = n /\ \A j \in 1..n : 4 * k + 1 + j - 1 = 4 * k + j
      BY <1>0
    <3>5. Len(v) = n /\ \A j \in 1..n : v[j] = u[j]
      <4>1. \A j \in 1..n : v[j] = d[4 * k + j]
        BY <3>3, <3>4
      <4>2. Len(v) = n
        BY <1>0, <3>3
      <4> QED
        BY <1>1, <1>2, <4>1, <4>2
    <3>6. v = u
      BY <1>1, <3>3, <3>5, SeqEqual
    <3> QED
      BY <3>6 DEF v
  <2>4. LastOf(u) = ReadOf(s, n)
    BY <1>9, LastOfCut DEF u
  <2> QED
    BY <1>0, <1>1, <1>2, <1>4, <1>5, <2>1, <2>2, <2>3, <2>4 DEF d, u
<1> QED
  BY <1>8, <1>9

\* What follows the whole lines gives one statement or none.
LEMMA RestReads ==
  ASSUME NEW rest \in Seq(UnitsOf(Stmts))
  PROVE  \/ rest = <<>> /\ LastOf(rest) = <<>>
         \/ \E s \in Stmts, n \in {2, 3} :
              rest[1][1] = s /\ rest = SubSeq(Line(s), 1, n) /\ LastOf(rest) = ReadOf(s, n)
         \/ LastOf(rest) = <<Bad>>
<1>1. CASE rest = <<>>
  <2>1. \A t, n : n \in {2, 3} => SubSeq(Line(t), 1, n) # <<>>
    <3> TAKE t, n
    <3> HAVE n \in {2, 3}
    <3>1. t \in {t} /\ n \in 0..4
      OBVIOUS
    <3> DEFINE u == SubSeq(Line(t), 1, n)
    <3>2. Len(u) = n
      BY <3>1, LineCut
    <3> HIDE DEF u
    <3>3. u # <<>>
      BY <3>2
    <3> QED
      BY <3>3 DEF u
  <2>2. SubSeq(Line(rest[1][1]), 1, 3) # <<>> /\ SubSeq(Line(rest[1][1]), 1, 2) # <<>>
    BY <2>1
  <2>3. LastOf(rest) = <<>>
    BY <1>1, <2>2 DEF LastOf
  <2> QED
    BY <1>1, <2>3
<1>2. CASE rest # <<>>
  <2> DEFINE s == rest[1][1]
             u2 == SubSeq(Line(s), 1, 2)
             u3 == SubSeq(Line(s), 1, 3)
  <2>1. s \in Stmts
    <3>1. Len(rest) \in Nat \ {0}
      BY <1>2, EmptySeq, Zenon
    <3>2. rest[1] \in UnitsOf(Stmts)
      BY <3>1, ElementOfSeq
    <3> QED
      BY <3>2 DEF UnitsOf
  <2>2. ReadOf(s, 3) = <<s>> /\ ReadOf(s, 2) = <<Cut(s)>>
    BY DEF ReadOf
  <2>3. u2 # u3
    <3>1. Len(u2) = 2 /\ Len(u3) = 3
      BY <2>1, LineCut
    <3>2. u2 = u3 => Len(u2) = Len(u3)
      OBVIOUS
    <3> QED
      BY <3>1, <3>2
  <2>4. LastOf(rest) = CASE rest = <<>> -> <<>>
                         [] rest = u3   -> <<s>>
                         [] rest = u2   -> <<Cut(s)>>
                         [] OTHER       -> <<Bad>>
    BY DEF LastOf, Bad
  <2>5. CASE rest = u3
    <3>1. LastOf(rest) = <<s>>
      <4> HIDE DEF u2, u3, s
      <4> QED
        BY <1>2, <2>3, <2>4, <2>5
    <3> QED
      BY <2>1, <2>2, <2>5, <3>1
  <2>6. CASE rest = u2
    <3>1. LastOf(rest) = <<Cut(s)>>
      <4> HIDE DEF u2, u3, s
      <4> QED
        BY <1>2, <2>3, <2>4, <2>6
    <3> QED
      BY <2>1, <2>2, <2>6, <3>1
  <2>7. CASE rest # u2 /\ rest # u3
    <3>1. LastOf(rest) = <<Bad>>
      <4> HIDE DEF u2, u3, s
      <4> QED
        BY <1>2, <2>4, <2>7
    <3> QED
      BY <3>1
  <2> QED
    BY <2>5, <2>6, <2>7
<1> QED
  BY <1>1, <1>2

\* A file that is out of step holds a statement that does not parse.
LEMMA OutOfStepRefused ==
  ASSUME NEW data \in Seq(UnitsOf(Stmts)), ~InStep(data)
  PROVE  ~Opens(data)
<1> DEFINE w == Whole(data)
           X == [i \in 1..w |-> data[4 * i][1]]
           rest == SubSeq(data, 4 * w + 1, Len(data))
<1>1. /\ w \in 0..(Len(data) \div 4) /\ \A i \in 1..w : IsWhole(data, i)
      /\ X \in Seq(Stmts) /\ Len(X) = w
  BY WholeLines, Zenon DEF WholeStmts
<1>2. StmtsOf(data) = X \o LastOf(rest)
  BY DEF StmtsOf, WholeStmts
<1> HIDE DEF w, X
<1>3. \A p \in 1..(4 * w) : InStepAt(data, p)
  <2> TAKE p \in 1..(4 * w)
  <2>1. PICK i \in Nat \ {0}, j \in 1..4 : p = 4 * i - 4 + j
    <3>1. p \in Nat \ {0}
      BY <1>1
    <3> QED
      BY <3>1, UnitAt
  <2>2. i \in 1..w /\ i \in 1..(Len(data) \div 4)
    BY <1>1, <2>1
  <2> QED
    BY <1>1, <2>1, <2>2, WholeLine
<1>4. 4 * w <= Len(data) /\ w \in Nat /\ Len(data) \in Nat
  BY <1>1
<1>5. /\ rest \in Seq(UnitsOf(Stmts))
      /\ Len(rest) = Len(data) - 4 * w
      /\ \A j \in 1..(Len(data) - 4 * w) : rest[j] = data[4 * w + j]
  <2>1. \A p \in (4 * w + 1)..Len(data) : data[p] \in UnitsOf(Stmts)
    BY <1>4, ElementOfSeq
  <2>2. 4 * w + 1 \in Int /\ Len(data) \in Int
    BY <1>4
  <2>3. /\ rest \in Seq(UnitsOf(Stmts))
        /\ Len(rest) = IF 4 * w + 1 <= Len(data) THEN Len(data) - (4 * w + 1) + 1 ELSE 0
        /\ \A j \in 1..(Len(data) - (4 * w + 1) + 1) : rest[j] = data[4 * w + 1 + j - 1]
    BY <2>1, <2>2, SubSeqProperties
  <2> HIDE DEF rest
  <2>4. /\ Len(data) - (4 * w + 1) + 1 = Len(data) - 4 * w
        /\ \A j \in 1..(Len(data) - 4 * w) : 4 * w + 1 + j - 1 = 4 * w + j
    BY <1>4
  <2>5. Len(rest) = Len(data) - 4 * w
    <3>1. Len(rest) = IF 4 * w + 1 <= Len(data) THEN Len(data) - (4 * w + 1) + 1 ELSE 0
      BY <2>3
    <3>2. CASE 4 * w + 1 <= Len(data)
      BY <1>4, <2>4, <3>1, <3>2
    <3>3. CASE ~(4 * w + 1 <= Len(data))
      <4>1. Len(data) - 4 * w = 0
        BY <1>4, <3>3
      <4> QED
        BY <3>1, <3>3, <4>1
    <3> QED
      BY <3>2, <3>3
  <2> QED
    BY <2>3, <2>4, <2>5
<1> HIDE DEF rest
<1>6. LastOf(rest) = <<Bad>>
  <2>1. PICK p \in 1..Len(data) : ~InStepAt(data, p)
    BY DEF InStep
  <2>2. p - 4 * w \in 1..Len(rest)
    <3>1. ~(p \in 1..(4 * w))
      BY <1>3, <2>1
    <3> QED
      BY <1>4, <1>5, <3>1
  <2>3. rest # <<>>
    BY <2>2
  <2>4. SUFFICES ASSUME NEW s \in Stmts, NEW n \in {2, 3}, rest[1][1] = s,
                        rest = SubSeq(Line(s), 1, n)
                 PROVE  FALSE
    BY <1>5, <2>3, RestReads
  <2>5. Len(rest) = n /\ \A j \in 1..n : rest[j] = <<s, j>>
    <3>1. n \in 0..4
      OBVIOUS
    <3>2. LET u == SubSeq(Line(s), 1, n) IN Len(u) = n /\ \A j \in 1..n : u[j] = <<s, j>>
      BY <3>1, LineCut
    <3> QED
      BY <2>4, <3>2, Zenon
  <2> DEFINE j == p - 4 * w
  <2>6. j \in 1..n /\ j \in 1..4 /\ p = 4 * (w + 1) - 4 + j /\ w + 1 \in Nat \ {0}
    BY <1>4, <2>2, <2>5
  <2>7. (p - 1) % 4 = j - 1 /\ p - ((p - 1) % 4) = 4 * (w + 1) - 3
    BY <2>6, PlaceOf, SMTT(30)
  <2>8. data[4 * w + 1] = <<s, 1>> /\ data[p] = <<s, j>>
    <3>1. 1 \in 1..n /\ 1 \in 1..(Len(data) - 4 * w) /\ j \in 1..(Len(data) - 4 * w) /\ 4 * w + j = p
      BY <1>4, <1>5, <2>5, <2>6
    <3> HIDE DEF j
    <3> QED
      BY <1>5, <2>5, <2>6, <3>1
  <2>9. 4 * (w + 1) - 3 = 4 * w + 1 /\ j - 1 + 1 = j
    BY <1>4
  <2>10. InStepAt(data, p)
    <3> HIDE DEF j
    <3> QED
      BY <2>7, <2>8, <2>9 DEF InStepAt
  <2> QED
    BY <2>1, <2>10
<1>7. (X \o <<Bad>>)[w + 1] = Bad /\ w + 1 \in DOMAIN (X \o <<Bad>>)
  <2>1. X \in Seq(Stmts \cup {Bad}) /\ <<Bad>> \in Seq(Stmts \cup {Bad}) /\ Len(<<Bad>>) = 1
    BY <1>1, SeqMonotonic
  <2>2. /\ X \o <<Bad>> \in Seq(Stmts \cup {Bad}) /\ Len(X \o <<Bad>>) = w + 1
        /\ \A i \in 1..(w + 1) : (X \o <<Bad>>)[i] = IF i <= w THEN X[i] ELSE <<Bad>>[i - w]
    BY <1>1, <2>1, ConcatProperties
  <2>3. w + 1 \in 1..(w + 1) /\ ~(w + 1 <= w) /\ w + 1 - w = 1
    BY <1>4
  <2> QED
    BY <2>2, <2>3
<1>8. ~Parses(Bad)
  BY DEF Parses, Bad
<1> QED
  BY <1>2, <1>6, <1>7, <1>8 DEF Opens

-----------------------------------------------------------------------------
(* What is read from a file *)

\* The options that the last statement about each name gives.
About(stmts, n) == {i \in DOMAIN stmts : stmts[i].name = n}

Gives(stmts) ==
  [n \in Names |-> IF About(stmts, n) = {} THEN NoBucket ELSE stmts[Max(About(stmts, n))].opts]

\* The map after a statement.
Said(m, s) == [n \in Names |-> IF n = s.name THEN s.opts ELSE m[n]]

LEMMA ReadGives == \A data : readConfigFileBuckets(data) = Gives(StmtsOf(data))
  BY DEF readConfigFileBuckets, Gives, About

LEMMA AboutMax ==
  ASSUME NEW S, NEW stmts \in Seq(S), NEW n, About(stmts, n) # {}
  PROVE  Max(About(stmts, n)) \in 1..Len(stmts) /\ stmts[Max(About(stmts, n))].name = n
<1>1. About(stmts, n) \subseteq 0..Len(stmts) /\ Len(stmts) \in Nat
  BY DEF About
<1>2. Max(About(stmts, n)) \in About(stmts, n)
  BY <1>1, MaxExists
<1> QED
  BY <1>2 DEF About

\* One statement more changes what its name reads.
LEMMA GivesMore ==
  ASSUME NEW S, NEW stmts \in Seq(S), NEW s
  PROVE  Gives(stmts \o <<s>>) = Said(Gives(stmts), s)
<1> DEFINE more == stmts \o <<s>>
           k == Len(stmts)
<1>1. /\ k \in Nat /\ DOMAIN stmts = 1..k /\ DOMAIN more = 1..(k + 1)
      /\ \A i \in 1..k : more[i] = stmts[i]
      /\ more[k + 1] = s
  <2>1. stmts \in Seq(S \cup {s}) /\ <<s>> \in Seq(S \cup {s}) /\ Len(<<s>>) = 1 /\ <<s>>[1] = s
    BY SeqMonotonic
  <2>2. /\ more \in Seq(S \cup {s}) /\ Len(more) = k + 1
        /\ \A i \in 1..(k + 1) : more[i] = IF i <= k THEN stmts[i] ELSE <<s>>[i - k]
    BY <2>1, ConcatProperties
  <2>3. k \in Nat /\ k + 1 - k = 1 /\ ~(k + 1 <= k) /\ k + 1 \in 1..(k + 1)
    OBVIOUS
  <2>4. more[k + 1] = s
    BY <2>1, <2>2, <2>3
  <2> QED
    BY <2>2, <2>3, <2>4
<1> HIDE DEF more, k
<1>2. ASSUME NEW n \in Names, n = s.name
      PROVE  About(more, n) # {} /\ Max(About(more, n)) = k + 1
  <2>1. k + 1 \in About(more, n) /\ About(more, n) \subseteq 0..(k + 1) /\ k + 1 \in Nat
    BY <1>1, <1>2 DEF About
  <2>2. Max(About(more, n)) \in About(more, n) /\ Max(About(more, n)) >= k + 1
    BY <2>1, MaxExists
  <2> QED
    BY <2>1, <2>2
<1>3. ASSUME NEW n \in Names, n # s.name
      PROVE  About(more, n) = About(stmts, n)
  BY <1>1, <1>3 DEF About
<1>4. ASSUME NEW n \in Names
      PROVE  Gives(more)[n] = IF n = s.name THEN s.opts ELSE Gives(stmts)[n]
  <2>1. CASE n = s.name
    BY <1>1, <1>2, <2>1 DEF Gives
  <2>2. CASE n # s.name
    <3>1. CASE About(stmts, n) = {}
      BY <1>3, <2>2, <3>1 DEF Gives
    <3>2. CASE About(stmts, n) # {}
      <4>1. Max(About(stmts, n)) \in 1..k
        BY <3>2, AboutMax DEF k
      <4>2. more[Max(About(stmts, n))] = stmts[Max(About(stmts, n))]
        BY <1>1, <4>1
      <4> QED
        BY <1>3, <2>2, <3>2, <4>2 DEF Gives
    <3> QED
      BY <3>1, <3>2
  <2> QED
    BY <2>1, <2>2
<1> QED
  BY <1>4 DEF Gives, Said, more

\* A file of whole lines gives their statements, and parses if no name has a colon.
LEMMA CleanReads ==
  ASSUME NEW data \in Seq(UnitsOf(Stmts)), Clean(data)
  PROVE  StmtsOf(data) = LineStmts(data) /\ (SplitNames = {} => Opens(data))
<1>1. 4 * (Len(data) \div 4) = Len(data) /\ Len(data) \in Nat
  BY DEF Clean
<1>2. SubSeq(data, 4 * (Len(data) \div 4) + 1, Len(data)) = <<>>
  BY <1>1, SubSeqEmpty
<1>3. LastOf(<<>>) = <<>>
  <2>1. <<>> \in Seq(UnitsOf(Stmts))
    OBVIOUS
  <2>2. \A s, n : n \in {2, 3} => SubSeq(Line(s), 1, n) # <<>>
    <3> TAKE s, n
    <3> HAVE n \in {2, 3}
    <3>1. s \in {s} /\ n \in 0..4
      OBVIOUS
    <3> DEFINE u == SubSeq(Line(s), 1, n)
    <3>2. Len(u) = n
      BY <3>1, LineCut
    <3> HIDE DEF u
    <3>3. u # <<>>
      BY <3>2
    <3> QED
      BY <3>3 DEF u
  <2>3. SubSeq(Line(<<>>[1][1]), 1, 3) # <<>> /\ SubSeq(Line(<<>>[1][1]), 1, 2) # <<>>
    BY <2>2
  <2> QED
    BY <2>3 DEF LastOf
<1>4. LineStmts(data) \in Seq(Stmts) /\ LineStmts(data) \o <<>> = LineStmts(data)
  BY LineStmtsType, ConcatEmptySeq
<1>5. StmtsOf(data) = LineStmts(data)
  BY <1>2, <1>3, <1>4, StmtsInStep DEF Clean
<1>6. ASSUME SplitNames = {}, NEW i \in DOMAIN LineStmts(data)
      PROVE  Parses(LineStmts(data)[i])
  <2>1. i \in 1..Len(LineStmts(data))
    BY <1>4
  <2>2. LineStmts(data)[i] \in Stmts
    BY <1>4, <2>1, ElementOfSeq
  <2> QED
    BY <1>6, <2>2, RegistryAssumption DEF Parses, Stmts
<1> QED
  BY <1>5, <1>6 DEF Opens

\* What is read of whole lines and the beginning of another.
LEMMA LineReads ==
  ASSUME NEW data \in Seq(UnitsOf(Stmts)), Clean(data), NEW s \in Stmts, NEW n \in 0..4
  PROVE  LET d == data \o SubSeq(Line(s), 1, n)
             m == readConfigFileBuckets(data)
         IN  /\ n = 0 => readConfigFileBuckets(d) = m
             /\ n = 1 => ~Opens(d)
             /\ n = 2 => readConfigFileBuckets(d) = Said(m, Cut(s))
             /\ n >= 3 => readConfigFileBuckets(d) = Said(m, s)
<1> DEFINE d == data \o SubSeq(Line(s), 1, n)
           ws == LineStmts(data)
<1>1. StmtsOf(d) = ws \o ReadOf(s, n)
  BY CleanThenLine
<1>2. ws \in Seq(Stmts) /\ StmtsOf(data) = ws
  BY LineStmtsType, CleanReads
<1>3. readConfigFileBuckets(data) = Gives(ws) /\ readConfigFileBuckets(d) = Gives(ws \o ReadOf(s, n))
  BY <1>1, <1>2, ReadGives
<1> HIDE DEF d, ws
<1>4. n = 0 => readConfigFileBuckets(d) = readConfigFileBuckets(data)
  <2>1. ReadOf(s, 0) = <<>> /\ ws \o <<>> = ws
    BY <1>2, ConcatEmptySeq DEF ReadOf
  <2> QED
    BY <1>3, <2>1
<1>5. n = 1 => ~Opens(d)
  <2> HAVE n = 1
  <2>1. ReadOf(s, 1) = <<Bad>>
    BY DEF ReadOf
  <2>2. ws \in Seq(Stmts \cup {Bad}) /\ <<Bad>> \in Seq(Stmts \cup {Bad}) /\ Len(<<Bad>>) = 1
    BY <1>2, SeqMonotonic
  <2>3. /\ ws \o <<Bad>> \in Seq(Stmts \cup {Bad}) /\ Len(ws \o <<Bad>>) = Len(ws) + 1
        /\ \A i \in 1..(Len(ws) + 1) : (ws \o <<Bad>>)[i] = IF i <= Len(ws) THEN ws[i] ELSE <<Bad>>[i - Len(ws)]
    BY <2>2, ConcatProperties
  <2>4. Len(ws) \in Nat
    BY <1>2
  <2>5. (ws \o <<Bad>>)[Len(ws) + 1] = Bad /\ Len(ws) + 1 \in DOMAIN (ws \o <<Bad>>)
    BY <2>3, <2>4
  <2>6. ~Parses(Bad)
    BY DEF Parses, Bad
  <2> QED
    BY <1>1, <2>1, <2>5, <2>6 DEF Opens
<1>6. n = 2 => readConfigFileBuckets(d) = Said(readConfigFileBuckets(data), Cut(s))
  <2>1. ReadOf(s, 2) = <<Cut(s)>>
    BY DEF ReadOf
  <2> QED
    BY <1>2, <1>3, <2>1, GivesMore
<1>7. n >= 3 => readConfigFileBuckets(d) = Said(readConfigFileBuckets(data), s)
  <2>1. n >= 3 => ReadOf(s, n) = <<s>>
    BY DEF ReadOf
  <2> QED
    BY <1>2, <1>3, <2>1, GivesMore
<1> QED
  BY <1>4, <1>5, <1>6, <1>7 DEF d

\* What a file says of the buckets when it opens is a map with finitely many.
LEMMA OpenedMap ==
  ASSUME NEW data \in Seq(UnitsOf(Stmts))
  PROVE  LET m == readConfigFileBuckets(data)
         IN  /\ Opens(data) => m \in Maps
             /\ IsFiniteSet({n \in Names : m[n] # NoBucket})
             /\ Len(StmtsOf(data)) \in Nat
<1> DEFINE S == Stmts \cup {Bad} \cup {Cut(s) : s \in Stmts}
           stmts == StmtsOf(data)
           m == Gives(stmts)
<1>1. stmts \in Seq(S)
  <2> DEFINE w == Whole(data)
             X == [i \in 1..w |-> data[4 * i][1]]
             rest == SubSeq(data, 4 * w + 1, Len(data))
  <2>1. X \in Seq(S)
    <3>1. X \in Seq(Stmts)
      BY WholeLines, Zenon DEF WholeStmts
    <3>2. Stmts \subseteq S
      OBVIOUS
    <3> HIDE DEF X, S
    <3> QED
      BY <3>1, <3>2, SeqMonotonic
  <2>2. rest \in Seq(UnitsOf(Stmts))
    <3>1. \A p \in (4 * w + 1)..Len(data) : data[p] \in UnitsOf(Stmts)
      <4>1. w \in Nat
        BY WholeLines, Zenon
      <4> QED
        BY <4>1, ElementOfSeq
    <3>2. 4 * w + 1 \in Int /\ Len(data) \in Int
      <4>1. w \in Nat
        BY WholeLines, Zenon
      <4> QED
        BY <4>1
    <3> QED
      BY <3>1, <3>2, SubSeqProperties
  <2>3. stmts = X \o LastOf(rest)
    BY DEF StmtsOf, WholeStmts
  <2> HIDE DEF X, rest, w, stmts
  <2>4. LastOf(rest) \in Seq(S)
    <3>1. CASE LastOf(rest) = <<>>
      BY <3>1
    <3>2. CASE LastOf(rest) = <<Bad>>
      BY <3>2
    <3>3. ASSUME NEW s \in Stmts, NEW n \in {2, 3}, LastOf(rest) = ReadOf(s, n)
          PROVE  LastOf(rest) \in Seq(S)
      <4>1. ReadOf(s, 3) = <<s>> /\ ReadOf(s, 2) = <<Cut(s)>>
        BY DEF ReadOf
      <4>2. <<s>> \in Seq(S) /\ <<Cut(s)>> \in Seq(S)
        OBVIOUS
      <4> QED
        BY <3>3, <4>1, <4>2
    <3> QED
      BY <2>2, <3>1, <3>2, <3>3, RestReads
  <2> QED
    BY <2>1, <2>3, <2>4, ConcatProperties
<1>2. \A t \in S : t.opts \in Options \cup {NoBucket, NoText}
  <2>1. \A t \in Stmts : t.opts \in Options \cup {NoBucket, NoText}
    BY DEF Stmts
  <2>2. Bad.opts = NoText
    BY DEF Bad
  <2>3. \A s \in Stmts : Cut(s).opts \in Options \cup {NoBucket, NoText}
    BY RegistryAssumption DEF Cut, Stmts
  <2> QED
    BY <2>1, <2>2, <2>3
<1>3. readConfigFileBuckets(data) = m
  BY ReadGives
<1> HIDE DEF S, stmts
<1>4. DOMAIN stmts = 1..Len(stmts) /\ Len(stmts) \in Nat
  BY <1>1
<1>5. Opens(data) => m \in Maps
  <2> HAVE Opens(data)
  <2>1. \A n \in Names : m[n] \in Options \cup {NoBucket}
    <3> TAKE n \in Names
    <3>1. CASE About(stmts, n) = {}
      BY <3>1 DEF Gives
    <3>2. CASE About(stmts, n) # {}
      <4> DEFINE i == Max(About(stmts, n))
      <4>1. i \in 1..Len(stmts)
        BY <1>1, <3>2, AboutMax
      <4>2. stmts[i] \in S
        BY <1>1, <4>1, ElementOfSeq
      <4>3. Parses(stmts[i])
        BY <1>4, <4>1 DEF Opens, stmts
      <4>4. m[n] = stmts[i].opts
        BY <3>2 DEF Gives
      <4> HIDE DEF i, m
      <4> QED
        BY <1>2, <4>2, <4>3, <4>4 DEF Parses
    <3> QED
      BY <3>1, <3>2
  <2> QED
    BY <2>1 DEF Maps, Gives
<1>6. IsFiniteSet({n \in Names : m[n] # NoBucket})
  <2> DEFINE f == [i \in 1..Len(stmts) |-> stmts[i].name]
             R == {stmts[i].name : i \in 1..Len(stmts)}
  <2>1. f \in Surjection(1..Len(stmts), R)
    BY DEF Surjection
  <2>2. IsFiniteSet(1..Len(stmts))
    BY <1>4, FS_Interval
  <2>3. IsFiniteSet(R)
    BY <2>1, <2>2, FS_Surjection
  <2>4. {n \in Names : m[n] # NoBucket} \subseteq R
    <3> SUFFICES ASSUME NEW n \in Names, m[n] # NoBucket PROVE n \in R
      OBVIOUS
    <3>1. About(stmts, n) # {}
      BY DEF Gives
    <3>2. PICK i \in 1..Len(stmts) : stmts[i].name = n
      BY <1>4, <3>1 DEF About
    <3> QED
      BY <3>2
  <2> QED
    BY <2>3, <2>4, FS_Subset
<1> QED
  BY <1>3, <1>4, <1>5, <1>6 DEF stmts

\* The first units of a line, and a file with them at its end.
Begun(s, n) == SubSeq(Line(s), 1, n)

Grown(data, s, n) == data \o Begun(s, n)

LEMMA NewContents ==
  ASSUME NEW data \in Seq(UnitsOf(Stmts)), NEW s \in Stmts, NEW n \in 1..4
  PROVE  LET d == Grown(data, s, n)
             m == readConfigFileBuckets(data)
         IN  /\ d \in Seq(UnitsOf(Stmts))
             /\ ~Clean(data) => ~InStep(d)
             /\ Clean(data) =>
                  /\ InStep(d) /\ (n = 4 => Clean(d))
                  /\ n = 1 => ~Opens(d) /\ Len(d) % 4 = 1
                  /\ n = 2 => readConfigFileBuckets(d) = Said(m, Cut(s)) /\ Len(d) % 4 = 2
                  /\ n >= 3 => readConfigFileBuckets(d) = Said(m, s)
<1> DEFINE u == SubSeq(Line(s), 1, n)
           d == data \o u
<1>1. u \in Seq(UnitsOf(Stmts)) /\ Len(u) = n /\ u[1] = <<s, 1>>
  <2>1. n \in 0..4 /\ 1 \in 1..n
    OBVIOUS
  <2>2. u \in Seq(Stmts \X (1..4)) /\ Len(u) = n /\ \A j \in 1..n : u[j] = <<s, j>>
    BY <2>1, LineCut
  <2> HIDE DEF u
  <2> QED
    BY <2>1, <2>2 DEF UnitsOf
<1>2. d \in Seq(UnitsOf(Stmts)) /\ Len(d) = Len(data) + n
  <2> HIDE DEF u
  <2> QED
    BY <1>1, Longer
<1>3. ASSUME ~Clean(data) PROVE ~InStep(d)
  <2>1. CASE ~InStep(data)
    <3> HIDE DEF u
    <3> QED
      BY <1>1, <2>1, OutOfStepStays
  <2>2. CASE Len(data) % 4 # 0
    <3>1. Len(u) > 0 /\ u[1][2] = 1
      <4> HIDE DEF u
      <4> QED
        BY <1>1
    <3> HIDE DEF u
    <3> QED
      BY <1>1, <2>2, <3>1, AfterCut
  <2> QED
    BY <1>3, <2>1, <2>2 DEF Clean
<1>4. ASSUME Clean(data)
      PROVE  /\ InStep(d) /\ Len(d) % 4 = n % 4
             /\ n = 1 => ~Opens(d)
             /\ n = 2 => readConfigFileBuckets(d) = Said(readConfigFileBuckets(data), Cut(s))
             /\ n >= 3 => readConfigFileBuckets(d) = Said(readConfigFileBuckets(data), s)
  <2>1. n \in 0..4
    OBVIOUS
  <2>2. InStep(d)
    BY <1>4, <2>1, CleanThenLine
  <2>3. Len(d) % 4 = n % 4
    <3>1. Len(data) % 4 = 0 /\ Len(data) \in Nat
      BY <1>4 DEF Clean
    <3>2. (Len(data) + n) % 4 = n % 4
      BY <3>1
    <3> QED
      BY <1>2, <3>2
  <2>4. /\ n = 1 => ~Opens(d)
        /\ n = 2 => readConfigFileBuckets(d) = Said(readConfigFileBuckets(data), Cut(s))
        /\ n >= 3 => readConfigFileBuckets(d) = Said(readConfigFileBuckets(data), s)
    BY <1>4, <2>1, LineReads
  <2> QED
    BY <2>2, <2>3, <2>4
<1>5. ASSUME Clean(data) PROVE n = 4 => Clean(d)
  <2> HIDE DEF d
  <2> QED
    BY <1>4, <1>5 DEF Clean
<1>6. ASSUME Clean(data)
      PROVE  /\ n = 1 => Len(d) % 4 = 1
             /\ n = 2 => Len(d) % 4 = 2
  <2> HIDE DEF d
  <2> QED
    BY <1>4, <1>6
<1>7. d = Grown(data, s, n)
  BY DEF Grown, Begun
<1> HIDE DEF d
<1> QED
  BY <1>2, <1>3, <1>4, <1>5, <1>6, <1>7, Zenon

\* A write at the end of a file.
LEMMA AppendsLine ==
  ASSUME NEW f, f.data \in Seq(UnitsOf(Stmts)), f.off = Len(f.data), NEW s \in Stmts
  PROVE  LET g == Written(f, Line(s), 0..3)
         IN  /\ g.data = Grown(f.data, s, 4)
             /\ g.off = Len(g.data) /\ g.data \in g.crash
             /\ \A d \in g.crash :
                  d \in f.crash \cup {f.data} \/ \E n \in 1..4 : d = Grown(f.data, s, n)
             /\ f.crash \subseteq g.crash
<1> DEFINE g == Written(f, Line(s), 0..3)
<1>1. ASSUME NEW n \in 0..4
      PROVE  /\ Overwrite(f.data, f.off, Begun(s, n)) = Grown(f.data, s, n)
             /\ Begun(s, n) \in Seq(UnitsOf(Stmts)) /\ Len(Begun(s, n)) = n
  <2>1. Begun(s, n) \in Seq(UnitsOf(Stmts)) /\ Len(Begun(s, n)) = n
    BY LineCut DEF UnitsOf, Begun
  <2>2. SubSeq(f.data, 1, f.off) = f.data
    BY SubSeqFull
  <2>3. SubSeq(f.data, f.off + Len(Begun(s, n)) + 1, Len(f.data)) = <<>>
    <3>1. f.off + Len(Begun(s, n)) + 1 \in Int /\ Len(f.data) \in Int /\ Len(f.data) < f.off + Len(Begun(s, n)) + 1
      BY <2>1
    <3> QED
      BY <3>1, SubSeqEmpty
  <2>4. Grown(f.data, s, n) \in Seq(UnitsOf(Stmts))
    BY <2>1, ConcatProperties DEF Grown
  <2>5. Grown(f.data, s, n) \o <<>> = Grown(f.data, s, n)
    BY <2>4, ConcatEmptySeq
  <2> QED
    BY <2>1, <2>2, <2>3, <2>5 DEF Overwrite, Grown
<1>2. Line(s) = Begun(s, 4)
  <2>1. Line(s) \in Seq(UnitsOf(Stmts)) /\ Len(Line(s)) = 4
    BY LineUnits DEF UnitsOf
  <2> QED
    BY <2>1, SubSeqFull DEF Begun
<1>3. Grown(f.data, s, 0) = f.data
  <2>1. Begun(s, 0) = <<>>
    BY SubSeqEmpty DEF Begun
  <2> QED
    BY <2>1, ConcatEmptySeq DEF Grown
<1>4. /\ g.data = Overwrite(f.data, f.off, Line(s)) /\ g.off = f.off + Len(Line(s))
      /\ g.crash = f.crash \cup {Overwrite(f.data, f.off, Begun(s, n)) : n \in 0..3}
                           \cup {Overwrite(f.data, f.off, Line(s))}
  BY DEF Written, Begun
<1> HIDE DEF g
<1>9. 4 \in 0..4 /\ \A n \in 0..3 : n \in 0..4
  OBVIOUS
<1>5. g.data = Grown(f.data, s, 4) /\ g.data \in g.crash /\ f.crash \subseteq g.crash
  BY <1>1, <1>2, <1>4, <1>9
<1>6. g.off = Len(g.data)
  <2>1. 4 \in 0..4
    OBVIOUS
  <2>2. Len(Grown(f.data, s, 4)) = Len(f.data) + 4 /\ Len(Line(s)) = 4
    <3>1. Begun(s, 4) \in Seq(UnitsOf(Stmts)) /\ Len(Begun(s, 4)) = 4
      BY <1>1, <2>1
    <3>2. Len(Grown(f.data, s, 4)) = Len(f.data) + Len(Begun(s, 4))
      BY <3>1, ConcatProperties DEF Grown
    <3> QED
      BY <1>2, <3>1, <3>2
  <2> QED
    BY <1>4, <1>5, <2>2
<1>7. ASSUME NEW d \in g.crash
      PROVE  d \in f.crash \cup {f.data} \/ \E n \in 1..4 : d = Grown(f.data, s, n)
  <2>1. CASE d \in f.crash
    BY <2>1
  <2>2. ASSUME NEW n \in 0..3, d = Overwrite(f.data, f.off, Begun(s, n))
        PROVE  d \in f.crash \cup {f.data} \/ \E k \in 1..4 : d = Grown(f.data, s, k)
    <3>1. d = Grown(f.data, s, n)
      BY <1>1, <1>9, <2>2
    <3>2. CASE n = 0
      BY <1>3, <3>1, <3>2
    <3>3. CASE n # 0
      <4>1. n \in 1..4
        BY <3>3
      <4> QED
        BY <3>1, <4>1
    <3> QED
      BY <3>2, <3>3
  <2>3. CASE d = g.data
    BY <1>5, <2>3
  <2> QED
    BY <1>4, <2>1, <2>2, <2>3
<1> QED
  BY <1>5, <1>6, <1>7 DEF g

-----------------------------------------------------------------------------
(* The inductive invariant *)

Typed ==
  /\ TypeOK
  /\ pc # "rewrite" => unwritten = {}
  /\ ragged \in BOOLEAN /\ replacing \in BOOLEAN
  /\ IsFiniteSet(Registered)
  /\ versions \in Seq(Maps)
  /\ bktcfgf \in [data : Seq(UnitsOf(Stmts)), off : Nat, crash : SUBSET Seq(UnitsOf(Stmts))]
  /\ bktcfgf.data \in bktcfgf.crash

\* Unless a crash has cut the file, all that may be left of it is in step, and what
\* the process appends to ends with a newline.
InLines ==
  /\ ~ragged => \A d \in bktcfgf.crash : InStep(d)
  /\ pc \in {"idle", "sync", "rewrite"} /\ (~ragged \/ replacing) => Clean(bktcfgf.data)
  /\ pc = "rewrite" => replacing
  /\ pc \in {"down", "stuck"} => ~replacing

\* The file gives the buckets, those a rewrite has not written yet excepted.
FileGives ==
  /\ pc \in {"idle", "sync"} /\ InStep(bktcfgf.data) =>
       readConfigFileBuckets(bktcfgf.data) = buckets
  /\ pc = "rewrite" =>
       readConfigFileBuckets(bktcfgf.data) =
         [n \in Names |-> IF n \in unwritten THEN NoBucket ELSE buckets[n]]

LastVersion ==
  pc \in {"idle", "sync", "rewrite"} =>
    versions # <<>> /\ versions[Len(versions)] = buckets

\* What contents of the file leave of the buckets of vs.
Mentions(d, vs) ==
  Opens(d) => \E i \in DOMAIN vs : Holds(readConfigFileBuckets(d), vs[i])

Leaves(d, vs) ==
  LET left == readConfigFileBuckets(d)
  IN  \/ \E i \in DOMAIN vs : left = vs[i]
      \/ /\ Len(d) % 4 \in {1, 2}
         /\ Opens(d) => \E i \in DOMAIN vs : CutIn(left, vs[i])

CrashMentions == pc # "down" => \A d \in bktcfgf.crash : Mentions(d, versions)

CrashLeaves ==
  ~replacing /\ ~ragged /\ pc \in {"idle", "sync"} =>
    \A d \in bktcfgf.crash : Leaves(d, versions)

IInv ==
  Typed /\ InLines /\ FileGives /\ LastVersion /\ CrashMentions /\ CrashLeaves

\* A statement more keeps what the versions say of contents.
LEMMA MoreVersions ==
  ASSUME NEW vs \in Seq(Maps), NEW m \in Maps
  PROVE  LET more == vs \o <<m>>
         IN  /\ more \in Seq(Maps) /\ Len(more) = Len(vs) + 1 /\ more # <<>>
             /\ more[Len(more)] = m /\ Len(more) \in DOMAIN more
             /\ \A i \in DOMAIN vs : i \in DOMAIN more /\ more[i] = vs[i]
             /\ \A d : Mentions(d, vs) => Mentions(d, more)
             /\ \A d : Leaves(d, vs) => Leaves(d, more)
<1> DEFINE more == vs \o <<m>>
<1>1. <<m>> \in Seq(Maps) /\ Len(<<m>>) = 1 /\ <<m>>[1] = m
  OBVIOUS
<1>2. /\ more \in Seq(Maps) /\ Len(more) = Len(vs) + 1
      /\ \A i \in 1..(Len(vs) + 1) : more[i] = IF i <= Len(vs) THEN vs[i] ELSE <<m>>[i - Len(vs)]
  BY <1>1, ConcatProperties
<1> HIDE DEF more
<1>3. /\ Len(vs) \in Nat /\ Len(vs) + 1 - Len(vs) = 1 /\ ~(Len(vs) + 1 <= Len(vs))
      /\ DOMAIN vs = 1..Len(vs) /\ DOMAIN more = 1..(Len(vs) + 1)
      /\ Len(vs) + 1 \in 1..(Len(vs) + 1)
  BY <1>2
<1>4. more[Len(more)] = m /\ Len(more) \in DOMAIN more /\ more # <<>>
  BY <1>1, <1>2, <1>3
<1>5. \A i \in DOMAIN vs : i \in DOMAIN more /\ more[i] = vs[i]
  BY <1>2, <1>3
<1>6. \A d : Mentions(d, vs) => Mentions(d, more)
  BY <1>5, Zenon DEF Mentions
<1>7. \A d : Leaves(d, vs) => Leaves(d, more)
  BY <1>5, Zenon DEF Leaves
<1> QED
  BY <1>2, <1>4, <1>5, <1>6, <1>7 DEF more

\* What a statement, and one cut in its last field, make of the buckets.
LEMMA SaidMaps ==
  ASSUME NEW b \in Maps, NEW s \in Stmts
  PROVE  LET after == Said(b, s)
             left  == Said(b, Cut(s))
         IN  /\ after \in Maps /\ Holds(b, b) /\ Holds(after, after)
             /\ s.opts \in Options => Holds(left, after) /\ CutIn(left, after)
             /\ s.opts = NoBucket => Holds(left, b) /\ (left = b \/ CutIn(left, b))
<1> DEFINE after == Said(b, s)
           left  == Said(b, Cut(s))
<1>1. s.name \in Names /\ s.opts \in Options \cup {NoBucket} /\ NoBucket \notin Options
  BY RegistryAssumption DEF Stmts
<1>2. after \in Maps
  BY <1>1 DEF Maps, Said
<1>3. Holds(b, b) /\ Holds(after, after)
  BY DEF Holds
<1>4. ASSUME s.opts \in Options
      PROVE  Holds(left, after) /\ CutIn(left, after)
  <2>1. Cut(s).name = s.name /\ Cut(s).opts = Shortened[s.opts]
    BY <1>1, <1>4 DEF Cut, Stmts
  <2>2. left = [n \in Names |-> IF n = s.name THEN Shortened[s.opts] ELSE b[n]]
    BY <2>1 DEF Said
  <2>3. after = [n \in Names |-> IF n = s.name THEN s.opts ELSE b[n]]
    BY DEF Said
  <2> HIDE DEF left, after
  <2>4. ShortOpts(after, s.name) = Shortened[s.opts]
    BY <1>1, <1>4, <2>3 DEF ShortOpts
  <2>5. Holds(left, after)
    BY <2>2, <2>3, <2>4 DEF Holds
  <2>6. left = [after EXCEPT ![s.name] = ShortOpts(after, s.name)]
    BY <1>1, <2>2, <2>3, <2>4
  <2> QED
    BY <1>1, <2>5, <2>6 DEF CutIn
<1>5. ASSUME s.opts = NoBucket
      PROVE  Holds(left, b) /\ (left = b \/ CutIn(left, b))
  <2>1. Cut(s).name = Shortened[s.name] /\ Cut(s).opts = NoBucket
    BY <1>5 DEF Cut, Stmts
  <2>2. left = [n \in Names |-> IF n = Shortened[s.name] THEN NoBucket ELSE b[n]]
    BY <2>1 DEF Said
  <2> HIDE DEF left
  <2>3. Holds(left, b)
    BY <2>2 DEF Holds
  <2>4. CASE Shortened[s.name] \in Names
    <3>1. left = [b EXCEPT ![Shortened[s.name]] = NoBucket]
      BY <2>2, <2>4 DEF Maps
    <3> QED
      BY <2>3, <2>4, <3>1 DEF CutIn
  <2>5. CASE Shortened[s.name] \notin Names
    <3>1. left = b
      BY <2>2, <2>5 DEF Maps
    <3> QED
      BY <2>3, <3>1
  <2> QED
    BY <2>4, <2>5
<1> QED
  BY <1>2, <1>3, <1>4, <1>5

\* The calls of CreateBucket and DropBucket.
LEMMA CallKeeps ==
  ASSUME IInv, NEW s \in Stmts,
         Call(Said(buckets, s)), AppendLine(s),
         s.opts \in Options \/ s.opts = NoBucket
  PROVE  IInv'
<1> DEFINE data == bktcfgf.data
           after == Said(buckets, s)
<1>1. /\ pc = "idle" /\ buckets' = after /\ versions' = versions \o <<after>>
      /\ UNCHANGED <<freq, unwritten, ragged, replacing>> /\ pc' \in {"idle", "sync"}
      /\ bktcfgf' = Written(bktcfgf, Line(s), 0..3) /\ bktcfgfrc' = bktcfgfrc + 1
  BY DEF Call, AppendLine
<1>2. /\ data \in Seq(UnitsOf(Stmts)) /\ bktcfgf.off = Len(data) /\ data \in bktcfgf.crash
      /\ bktcfgf.crash \subseteq Seq(UnitsOf(Stmts)) /\ buckets \in Maps /\ versions \in Seq(Maps)
  BY <1>1 DEF IInv, Typed, TypeOK, Maps
<1>3. /\ bktcfgf'.data = Grown(data, s, 4) /\ bktcfgf'.off = Len(bktcfgf'.data)
      /\ bktcfgf'.data \in bktcfgf'.crash
      /\ \A c \in bktcfgf'.crash : c \in bktcfgf.crash \/ \E n \in 1..4 : c = Grown(data, s, n)
  BY <1>1, <1>2, AppendsLine
<1>4. /\ after \in Maps /\ Holds(buckets, buckets) /\ Holds(after, after)
      /\ s.opts \in Options => Holds(Said(buckets, Cut(s)), after) /\ CutIn(Said(buckets, Cut(s)), after)
      /\ s.opts = NoBucket => /\ Holds(Said(buckets, Cut(s)), buckets)
                              /\ Said(buckets, Cut(s)) = buckets \/ CutIn(Said(buckets, Cut(s)), buckets)
  BY <1>2, SaidMaps
<1>5. /\ versions' \in Seq(Maps) /\ versions' # <<>> /\ versions'[Len(versions')] = after
      /\ Len(versions') \in DOMAIN versions'
      /\ \A i \in DOMAIN versions : i \in DOMAIN versions' /\ versions'[i] = versions[i]
      /\ \A c : Mentions(c, versions) => Mentions(c, versions')
      /\ \A c : Leaves(c, versions) => Leaves(c, versions')
  BY <1>1, <1>2, <1>4, MoreVersions
<1>6. /\ Len(versions) \in DOMAIN versions' /\ versions'[Len(versions)] = buckets
  <2>1. versions # <<>> /\ versions[Len(versions)] = buckets
    BY <1>1 DEF IInv, LastVersion
  <2>2. Len(versions) \in DOMAIN versions
    BY <1>2, <2>1
  <2> QED
    BY <1>5, <2>1, <2>2
<1>7. Clean(data) => readConfigFileBuckets(data) = buckets
  BY <1>1 DEF IInv, FileGives, Clean
<1>8. ASSUME NEW n \in 1..4
      PROVE  /\ Grown(data, s, n) \in Seq(UnitsOf(Stmts))
             /\ ~Clean(data) => ~InStep(Grown(data, s, n))
             /\ Clean(data) => InStep(Grown(data, s, n)) /\ (n = 4 => Clean(Grown(data, s, n)) /\ readConfigFileBuckets(Grown(data, s, n)) = after)
             /\ Mentions(Grown(data, s, n), versions')
             /\ Clean(data) => Leaves(Grown(data, s, n), versions')
  <2>1. /\ Grown(data, s, n) \in Seq(UnitsOf(Stmts))
        /\ ~Clean(data) => ~InStep(Grown(data, s, n))
        /\ Clean(data) =>
             /\ InStep(Grown(data, s, n)) /\ (n = 4 => Clean(Grown(data, s, n)))
             /\ n = 1 => ~Opens(Grown(data, s, n)) /\ Len(Grown(data, s, n)) % 4 = 1
             /\ n = 2 => /\ readConfigFileBuckets(Grown(data, s, n)) = Said(readConfigFileBuckets(data), Cut(s))
                         /\ Len(Grown(data, s, n)) % 4 = 2
             /\ n >= 3 => readConfigFileBuckets(Grown(data, s, n)) = Said(readConfigFileBuckets(data), s)
    BY <1>2, NewContents
  <2> DEFINE c == Grown(data, s, n)
  <2>2. CASE ~Clean(data)
    <3>1. ~Opens(c)
      BY <2>1, <2>2, OutOfStepRefused
    <3> QED
      BY <2>1, <2>2, <3>1 DEF Mentions
  <2>3. CASE Clean(data)
    <3>1. /\ n = 1 => ~Opens(c) /\ Len(c) % 4 = 1
          /\ n = 2 => readConfigFileBuckets(c) = Said(buckets, Cut(s)) /\ Len(c) % 4 = 2
          /\ n >= 3 => readConfigFileBuckets(c) = after
      BY <1>7, <2>1, <2>3
    <3>2. n = 4 => Clean(c)
      BY <2>1, <2>3
    <3>9. /\ Holds(after, after)
          /\ s.opts \in Options => Holds(Said(buckets, Cut(s)), after) /\ CutIn(Said(buckets, Cut(s)), after)
          /\ s.opts = NoBucket => /\ Holds(Said(buckets, Cut(s)), buckets)
                                  /\ Said(buckets, Cut(s)) = buckets \/ CutIn(Said(buckets, Cut(s)), buckets)
      BY <1>4
    <3>10. /\ Len(versions') \in DOMAIN versions' /\ versions'[Len(versions')] = after
           /\ Len(versions) \in DOMAIN versions' /\ versions'[Len(versions)] = buckets
      BY <1>5, <1>6
    <3> HIDE DEF c, after, data
    <3>3. ASSUME n = 1 PROVE Mentions(c, versions') /\ Leaves(c, versions')
      <4>1. ~Opens(c) /\ Len(c) % 4 \in {1, 2}
        BY <3>1, <3>3
      <4> QED
        BY <4>1, Zenon DEF Mentions, Leaves
    <3>4. ASSUME n = 2 PROVE Mentions(c, versions') /\ Leaves(c, versions')
      <4> DEFINE left == Said(buckets, Cut(s))
      <4>1. readConfigFileBuckets(c) = left /\ Len(c) % 4 \in {1, 2}
        BY <3>1, <3>4
      <4>2. \/ Holds(left, after) /\ CutIn(left, after)
            \/ Holds(left, buckets) /\ (left = buckets \/ CutIn(left, buckets))
        BY <3>9
      <4> HIDE DEF left
      <4>3. CASE Holds(left, after) /\ CutIn(left, after)
        BY <3>10, <4>1, <4>3, Zenon DEF Mentions, Leaves
      <4>4. CASE Holds(left, buckets) /\ (left = buckets \/ CutIn(left, buckets))
        BY <3>10, <4>1, <4>4, Zenon DEF Mentions, Leaves
      <4> QED
        BY <4>2, <4>3, <4>4
    <3>5. ASSUME n >= 3 PROVE Mentions(c, versions') /\ Leaves(c, versions')
      <4>1. readConfigFileBuckets(c) = after
        BY <3>1, <3>5
      <4> QED
        BY <3>9, <3>10, <4>1, Zenon DEF Mentions, Leaves
    <3>6. Mentions(c, versions') /\ Leaves(c, versions')
      <4>1. n = 1 \/ n = 2 \/ n >= 3
        OBVIOUS
      <4> QED
        BY <3>3, <3>4, <3>5, <4>1
    <3> QED
      BY <2>1, <2>3, <3>1, <3>2, <3>6 DEF c
  <2> QED
    BY <2>2, <2>3
<1>9. Typed'
  <2>1. bktcfgf'.crash \subseteq Seq(UnitsOf(Stmts))
    BY <1>2, <1>3, <1>8
  <2>2. buckets' \in [Names -> Options \cup {NoBucket}] /\ versions' \in Seq(Maps)
    BY <1>1, <1>4, <1>5 DEF Maps
  <2>3. unwritten = {} /\ unwritten' = {}
    BY <1>1 DEF IInv, Typed
  <2>4. IsFiniteSet(Registered')
    <3>1. IsFiniteSet(Registered \cup {s.name})
      BY FS_AddElement DEF IInv, Typed
    <3>2. Registered' \subseteq Registered \cup {s.name}
      BY <1>1 DEF Registered, Said
    <3> QED
      BY <3>1, <3>2, FS_Subset
  <2>5. freq' \in Freqs /\ bktcfgfrc' \in Nat /\ ragged' \in BOOLEAN /\ replacing' \in BOOLEAN
    BY <1>1 DEF IInv, Typed, TypeOK
  <2>6. TypeOK'
    BY <1>1, <1>3, <2>2, <2>3, <2>5 DEF TypeOK
  <2>7. bktcfgf' = [data |-> bktcfgf'.data, off |-> bktcfgf'.off, crash |-> bktcfgf'.crash]
    BY <1>1 DEF Written
  <2>8. bktcfgf'.data \in Seq(UnitsOf(Stmts)) /\ bktcfgf'.off \in Nat
    BY <1>3, <2>1
  <2>9. bktcfgf' \in [data : Seq(UnitsOf(Stmts)), off : Nat, crash : SUBSET Seq(UnitsOf(Stmts))]
    BY <2>1, <2>7, <2>8
  <2> QED
    BY <1>3, <2>2, <2>3, <2>4, <2>5, <2>6, <2>9 DEF Typed
<1>10. InLines'
  <2>1. ~ragged \/ replacing => Clean(data)
    BY <1>1 DEF IInv, InLines
  <2>2. ~ragged => \A c \in bktcfgf.crash : InStep(c)
    BY DEF IInv, InLines
  <2> HIDE DEF data
  <2>3. ~ragged' => \A c \in bktcfgf'.crash : InStep(c)
    BY <1>1, <1>3, <1>8, <2>1, <2>2
  <2>4. ~ragged' \/ replacing' => Clean(bktcfgf'.data)
    <3>1. 4 \in 1..4
      OBVIOUS
    <3> QED
      BY <1>1, <1>3, <1>8, <2>1, <3>1
  <2> QED
    BY <1>1, <2>3, <2>4 DEF InLines
<1>11. FileGives'
  <2> HIDE DEF data
  <2>1. 4 \in 1..4
    OBVIOUS
  <2>2. InStep(bktcfgf'.data) => readConfigFileBuckets(bktcfgf'.data) = after
    BY <1>3, <1>8, <2>1
  <2> QED
    BY <1>1, <2>2 DEF FileGives
<1>12. LastVersion'
  BY <1>1, <1>5 DEF LastVersion
<1>13. CrashMentions'
  <2>1. \A c \in bktcfgf.crash : Mentions(c, versions)
    BY <1>1 DEF IInv, CrashMentions
  <2> HIDE DEF data
  <2>2. \A c \in bktcfgf'.crash : Mentions(c, versions')
    BY <1>3, <1>5, <1>8, <2>1
  <2> QED
    BY <2>2 DEF CrashMentions
<1>14. CrashLeaves'
  <2> SUFFICES ASSUME ~replacing', ~ragged', NEW c \in bktcfgf'.crash
               PROVE  Leaves(c, versions')
    BY DEF CrashLeaves
  <2>1. ~replacing /\ ~ragged
    BY <1>1
  <2>2. Clean(data) /\ \A x \in bktcfgf.crash : Leaves(x, versions)
    BY <1>1, <2>1 DEF IInv, InLines, CrashLeaves
  <2> HIDE DEF data
  <2> QED
    BY <1>3, <1>5, <1>8, <2>2
<1> QED
  BY <1>9, <1>10, <1>11, <1>12, <1>13, <1>14 DEF IInv

\* What the empty file gives.
LEMMA EmptyFile ==
  /\ <<>> \in Seq(UnitsOf(Stmts)) /\ Clean(<<>>)
  /\ readConfigFileBuckets(<<>>) = NoBuckets
<1>1. <<>> \in Seq(UnitsOf(Stmts)) /\ Len(<<>>) = 0 /\ 0 % 4 = 0 /\ 0 \div 4 = 0
  OBVIOUS
<1>2. Clean(<<>>)
  BY <1>1 DEF Clean, InStep
<1>3. StmtsOf(<<>>) = LineStmts(<<>>)
  BY <1>1, <1>2, CleanReads
<1>4. DOMAIN LineStmts(<<>>) = 1..0
  BY <1>1 DEF LineStmts
<1>5. \A n : About(LineStmts(<<>>), n) = {}
  BY <1>4 DEF About
<1>6. Gives(LineStmts(<<>>)) = NoBuckets
  BY <1>5 DEF Gives, NoBuckets
<1> QED
  BY <1>1, <1>2, <1>3, <1>6, ReadGives

\* One version, the buckets themselves.
LEMMA OneVersion ==
  ASSUME NEW m \in Maps
  PROVE  /\ <<m>> \in Seq(Maps) /\ <<m>> # <<>> /\ <<m>>[Len(<<m>>)] = m
         /\ \A d : readConfigFileBuckets(d) = m => Mentions(d, <<m>>) /\ Leaves(d, <<m>>)
<1>1. <<m>> \in Seq(Maps) /\ <<m>> # <<>> /\ <<m>>[Len(<<m>>)] = m /\ 1 \in DOMAIN <<m>> /\ <<m>>[1] = m
  OBVIOUS
<1>2. Holds(m, m)
  BY DEF Holds
<1> QED
  BY <1>1, <1>2, Zenon DEF Mentions, Leaves

LEMMA OpenKeeps ==
  ASSUME IInv, Open
  PROVE  IInv'
<1> DEFINE data == bktcfgf.data
           m == readConfigFileBuckets(data)
<1>1. /\ pc = "down" /\ bktcfgfrc' = Len(StmtsOf(data))
      /\ UNCHANGED <<freq, unwritten, replacing>>
      /\ ragged' = (ragged \/ Len(data) % 4 # 0)
      /\ \/ Opens(data) /\ pc' = "idle" /\ buckets' = m /\ versions' = <<m>>
         \/ ~Opens(data) /\ pc' = "stuck" /\ UNCHANGED <<buckets, versions>>
  BY DEF Open
<1>2. bktcfgf' = [data |-> data, off |-> Len(data), crash |-> {data}]
  BY DEF Open, Opened
<1>3. /\ data \in Seq(UnitsOf(Stmts)) /\ unwritten = {} /\ ~replacing
      /\ ragged \in BOOLEAN /\ replacing \in BOOLEAN
      /\ freq \in Freqs /\ buckets \in Maps /\ IsFiniteSet(Registered) /\ versions \in Seq(Maps)
      /\ ~ragged => InStep(data)
  BY <1>1 DEF IInv, Typed, TypeOK, InLines, Maps
<1>4. /\ Opens(data) => m \in Maps
      /\ IsFiniteSet({n \in Names : m[n] # NoBucket}) /\ Len(StmtsOf(data)) \in Nat
  BY <1>3, OpenedMap
<1>5. ~ragged' => Clean(data)
  BY <1>1, <1>3 DEF Clean
<1>6. buckets' \in Maps /\ versions' \in Seq(Maps) /\ IsFiniteSet(Registered')
  <2>1. CASE Opens(data)
    <3>1. buckets' = m /\ versions' = <<m>> /\ m \in Maps
      BY <1>1, <1>4, <2>1
    <3>2. versions' \in Seq(Maps)
      BY <3>1, OneVersion
    <3>3. IsFiniteSet(Registered')
      BY <1>4, <3>1 DEF Registered
    <3> QED
      BY <3>1, <3>2, <3>3
  <2>2. CASE ~Opens(data)
    BY <1>1, <1>3, <2>2 DEF Registered
  <2> QED
    BY <2>1, <2>2
<1>7. Opens(data) => Mentions(data, <<m>>) /\ Leaves(data, <<m>>) /\ <<m>> # <<>> /\ <<m>>[Len(<<m>>)] = m
  BY <1>4, OneVersion
<1> HIDE DEF data, m
<1>8. bktcfgf'.data = data /\ bktcfgf'.crash = {data} /\ bktcfgf'.off = Len(data)
  BY <1>2
<1>9. Typed'
  <2>1. TypeOK'
    BY <1>1, <1>3, <1>4, <1>6, <1>8 DEF TypeOK, Maps
  <2>2. bktcfgf' \in [data : Seq(UnitsOf(Stmts)), off : Nat, crash : SUBSET Seq(UnitsOf(Stmts))]
    BY <1>2, <1>3
  <2>3. ragged' \in BOOLEAN /\ replacing' \in BOOLEAN
    BY <1>1, <1>3
  <2> QED
    BY <1>1, <1>3, <1>6, <1>8, <2>1, <2>2, <2>3 DEF Typed
<1>10. InLines'
  BY <1>1, <1>3, <1>5, <1>8 DEF InLines, Clean
<1>11. FileGives'
  BY <1>1, <1>8 DEF FileGives, m
<1>12. LastVersion'
  BY <1>1, <1>7 DEF LastVersion
<1>13. CrashMentions'
  <2>1. Mentions(data, versions')
    BY <1>1, <1>7 DEF Mentions
  <2> QED
    BY <1>8, <2>1 DEF CrashMentions
<1>14. CrashLeaves'
  BY <1>1, <1>7, <1>8 DEF CrashLeaves
<1> QED
  BY <1>9, <1>10, <1>11, <1>12, <1>13, <1>14 DEF IInv

LEMMA SyncKeeps ==
  ASSUME IInv, syncConfig
  PROVE  IInv'
<1> DEFINE data == bktcfgf.data
<1>1. /\ pc = "sync" /\ pc' = "idle" /\ versions' = <<buckets>> /\ replacing' = FALSE
      /\ ragged' = (ragged /\ ~replacing) /\ UNCHANGED <<freq, buckets, bktcfgfrc, unwritten>>
  BY DEF syncConfig
<1>2. /\ TypeOK /\ data \in Seq(UnitsOf(Stmts)) /\ buckets \in Maps /\ IsFiniteSet(Registered)
      /\ unwritten = {} /\ ragged \in BOOLEAN /\ replacing \in BOOLEAN /\ bktcfgf.off = Len(data)
      /\ bktcfgf \in [data : Seq(UnitsOf(Stmts)), off : Nat, crash : SUBSET Seq(UnitsOf(Stmts))]
  BY <1>1 DEF IInv, Typed, TypeOK, Maps
<1>3. bktcfgf' = [data |-> data, off |-> Len(data), crash |-> {data}]
  BY <1>2 DEF syncConfig, Synced
<1>4. ~ragged' => Clean(data)
  BY <1>1, <1>2 DEF IInv, InLines
<1>5. InStep(data) => readConfigFileBuckets(data) = buckets
  BY <1>1 DEF IInv, FileGives
<1>6. /\ <<buckets>> \in Seq(Maps) /\ <<buckets>> # <<>> /\ <<buckets>>[Len(<<buckets>>)] = buckets
      /\ \A d : readConfigFileBuckets(d) = buckets => Mentions(d, <<buckets>>) /\ Leaves(d, <<buckets>>)
  BY <1>2, OneVersion
<1> HIDE DEF data
<1>7. bktcfgf'.data = data /\ bktcfgf'.crash = {data} /\ bktcfgf'.off = Len(data)
  BY <1>3
<1>8. Typed'
  <2>1. TypeOK'
    BY <1>1, <1>2, <1>7 DEF TypeOK, Registered
  <2>2. bktcfgf' \in [data : Seq(UnitsOf(Stmts)), off : Nat, crash : SUBSET Seq(UnitsOf(Stmts))]
    BY <1>2, <1>3
  <2>3. Registered' = Registered
    BY <1>1 DEF Registered
  <2> QED
    BY <1>1, <1>2, <1>6, <1>7, <2>1, <2>2, <2>3 DEF Typed
<1>9. InLines'
  BY <1>1, <1>4, <1>7 DEF InLines, Clean
<1>10. FileGives'
  BY <1>1, <1>5, <1>7 DEF FileGives
<1>11. LastVersion'
  BY <1>1, <1>6 DEF LastVersion
<1>12. CrashMentions'
  <2>1. CASE InStep(data)
    BY <1>1, <1>5, <1>6, <1>7, <2>1 DEF CrashMentions
  <2>2. CASE ~InStep(data)
    <3>1. ~Opens(data)
      BY <1>2, <2>2, OutOfStepRefused
    <3> QED
      BY <1>7, <3>1 DEF CrashMentions, Mentions
  <2> QED
    BY <2>1, <2>2
<1>13. CrashLeaves'
  BY <1>1, <1>4, <1>5, <1>6, <1>7 DEF CrashLeaves, Clean
<1> QED
  BY <1>8, <1>9, <1>10, <1>11, <1>12, <1>13 DEF IInv

LEMMA RewriteStartKeeps ==
  ASSUME IInv, rewriteStart
  PROVE  IInv'
<1>1. /\ pc = "idle" /\ pc' = "rewrite" /\ unwritten' = Registered /\ replacing' = TRUE
      /\ UNCHANGED <<freq, buckets, bktcfgfrc, versions, ragged>>
      /\ bktcfgf' = [data |-> <<>>, off |-> 0, crash |-> bktcfgf.crash \cup {<<>>}]
  BY DEF rewriteStart, Cleared
<1>2. /\ TypeOK /\ buckets \in Maps /\ IsFiniteSet(Registered) /\ versions \in Seq(Maps)
      /\ ragged \in BOOLEAN /\ bktcfgf.crash \subseteq Seq(UnitsOf(Stmts))
  BY <1>1 DEF IInv, Typed, TypeOK, Maps
<1>3. /\ <<>> \in Seq(UnitsOf(Stmts)) /\ Len(<<>>) = 0 /\ InStep(<<>>) /\ Clean(<<>>)
      /\ readConfigFileBuckets(<<>>) = NoBuckets
  BY EmptyFile DEF Clean
<1>4. bktcfgf'.data = <<>> /\ bktcfgf'.off = 0 /\ bktcfgf'.crash = bktcfgf.crash \cup {<<>>}
  BY <1>1
<1>5. Typed'
  <2>1. Registered' = Registered
    BY <1>1 DEF Registered
  <2>2. TypeOK'
    BY <1>1, <1>2, <1>3, <1>4, <2>1 DEF TypeOK
  <2>3. bktcfgf' \in [data : Seq(UnitsOf(Stmts)), off : Nat, crash : SUBSET Seq(UnitsOf(Stmts))]
    BY <1>1, <1>2, <1>3
  <2> QED
    BY <1>1, <1>2, <1>4, <2>1, <2>2, <2>3 DEF Typed
<1>6. InLines'
  <2>1. ~ragged => \A d \in bktcfgf.crash : InStep(d)
    BY DEF IInv, InLines
  <2> QED
    BY <1>1, <1>3, <1>4, <2>1 DEF InLines
<1>7. FileGives'
  <2>1. NoBuckets = [n \in Names |-> IF n \in Registered THEN NoBucket ELSE buckets[n]]
    BY DEF NoBuckets, Registered
  <2> QED
    BY <1>1, <1>3, <1>4, <2>1 DEF FileGives
<1>8. LastVersion'
  BY <1>1 DEF IInv, LastVersion
<1>9. CrashMentions'
  <2>1. \A d \in bktcfgf.crash : Mentions(d, versions)
    BY <1>1 DEF IInv, CrashMentions
  <2>2. Mentions(<<>>, versions)
    <3>1. versions # <<>>
      BY <1>1 DEF IInv, LastVersion
    <3>2. 1 \in DOMAIN versions
      BY <1>2, <3>1
    <3>3. Holds(NoBuckets, versions[1])
      BY DEF Holds, NoBuckets
    <3> QED
      BY <1>3, <3>2, <3>3, Zenon DEF Mentions
  <2> QED
    BY <1>1, <1>4, <2>1, <2>2 DEF CrashMentions
<1>10. CrashLeaves'
  BY <1>1 DEF CrashLeaves
<1> QED
  BY <1>5, <1>6, <1>7, <1>8, <1>9, <1>10 DEF IInv

LEMMA RewriteBucketKeeps ==
  ASSUME IInv, NEW b \in Names, rewriteBucket(b)
  PROVE  IInv'
<1> DEFINE data == bktcfgf.data
           s == bucketCreateStmt(b, buckets[b])
           part == readConfigFileBuckets(data)
<1>1. /\ pc = "rewrite" /\ pc' = "rewrite" /\ b \in unwritten /\ unwritten' = unwritten \ {b}
      /\ bktcfgf' = Written(bktcfgf, Line(s), 0..3)
      /\ UNCHANGED <<freq, buckets, bktcfgfrc, versions, ragged, replacing>>
  BY DEF rewriteBucket
<1>2. /\ TypeOK /\ data \in Seq(UnitsOf(Stmts)) /\ buckets \in Maps /\ IsFiniteSet(Registered) /\ versions \in Seq(Maps)
      /\ ragged \in BOOLEAN /\ replacing \in BOOLEAN /\ replacing /\ Clean(data) /\ bktcfgf.off = Len(data)
      /\ unwritten \subseteq Registered /\ data \in bktcfgf.crash /\ bktcfgf.crash \subseteq Seq(UnitsOf(Stmts))
      /\ part = [n \in Names |-> IF n \in unwritten THEN NoBucket ELSE buckets[n]]
  BY <1>1 DEF IInv, Typed, TypeOK, InLines, FileGives, Maps
<1>3. buckets[b] \in Options
  BY <1>1, <1>2 DEF Registered, Maps
<1>4. s \in Stmts /\ s.name = b /\ s.opts = buckets[b] /\ s.opts # NoBucket
  BY <1>3, RegistryAssumption DEF Stmts, bucketCreateStmt
<1>5. Cut(s).name = b /\ Cut(s).opts = Shortened[buckets[b]]
  BY <1>4 DEF Cut, Stmts
<1> HIDE DEF s, part
<1>6. /\ bktcfgf'.data = Grown(data, s, 4) /\ bktcfgf'.off = Len(bktcfgf'.data)
      /\ bktcfgf'.data \in bktcfgf'.crash
      /\ \A c \in bktcfgf'.crash : c \in bktcfgf.crash \/ \E n \in 1..4 : c = Grown(data, s, n)
  BY <1>1, <1>2, <1>4, AppendsLine
<1>7. ASSUME NEW n \in 1..4
      PROVE  /\ Grown(data, s, n) \in Seq(UnitsOf(Stmts)) /\ InStep(Grown(data, s, n))
             /\ n = 4 => Clean(Grown(data, s, n))
             /\ n = 1 => ~Opens(Grown(data, s, n))
             /\ n = 2 => readConfigFileBuckets(Grown(data, s, n)) = Said(part, Cut(s))
             /\ n >= 3 => readConfigFileBuckets(Grown(data, s, n)) = Said(part, s)
  BY <1>2, <1>4, NewContents, ZenonT(40) DEF part
<1>8. Said(part, s) = [n \in Names |-> IF n \in unwritten \ {b} THEN NoBucket ELSE buckets[n]]
  BY <1>2, <1>4 DEF Said
<1>9. Holds(Said(part, s), buckets) /\ Holds(Said(part, Cut(s)), buckets)
  <2>1. ShortOpts(buckets, b) = Shortened[buckets[b]]
    BY <1>4 DEF ShortOpts
  <2> QED
    BY <1>2, <1>4, <1>5, <2>1 DEF Holds, Said
<1>10. Len(versions) \in DOMAIN versions /\ versions[Len(versions)] = buckets
  <2>1. versions # <<>> /\ versions[Len(versions)] = buckets
    BY <1>1 DEF IInv, LastVersion
  <2> QED
    BY <1>2, <2>1
<1>11. ASSUME NEW n \in 1..4
       PROVE  Mentions(Grown(data, s, n), versions)
  <2>1. n = 1 \/ n = 2 \/ n >= 3
    OBVIOUS
  <2>2. CASE n = 1
    BY <1>7, <2>2 DEF Mentions
  <2>3. CASE n = 2
    <3>1. readConfigFileBuckets(Grown(data, s, n)) = Said(part, Cut(s))
      BY <1>7, <2>3
    <3> QED
      BY <1>9, <1>10, <3>1, Zenon DEF Mentions
  <2>4. CASE n >= 3
    <3>1. readConfigFileBuckets(Grown(data, s, n)) = Said(part, s)
      BY <1>7, <2>4
    <3> QED
      BY <1>9, <1>10, <3>1, Zenon DEF Mentions
  <2> QED
    BY <2>1, <2>2, <2>3, <2>4
<1> HIDE DEF data
<1>12. 4 \in 1..4
  OBVIOUS
<1>13. Typed'
  <2>1. Registered' = Registered
    BY <1>1 DEF Registered
  <2>2. bktcfgf'.crash \subseteq Seq(UnitsOf(Stmts))
    BY <1>2, <1>6, <1>7
  <2>3. bktcfgf' = [data |-> bktcfgf'.data, off |-> bktcfgf'.off, crash |-> bktcfgf'.crash]
    BY <1>1 DEF Written
  <2>4. bktcfgf'.data \in Seq(UnitsOf(Stmts)) /\ bktcfgf'.off \in Nat
    BY <1>6, <1>7, <1>12
  <2>5. bktcfgf' \in [data : Seq(UnitsOf(Stmts)), off : Nat, crash : SUBSET Seq(UnitsOf(Stmts))]
    BY <2>2, <2>3, <2>4
  <2>6. TypeOK'
    BY <1>1, <1>2, <1>6, <2>1 DEF TypeOK
  <2> QED
    BY <1>1, <1>2, <1>6, <2>1, <2>5, <2>6 DEF Typed
<1>14. InLines'
  <2>1. ~ragged => \A d \in bktcfgf.crash : InStep(d)
    BY DEF IInv, InLines
  <2>2. ~ragged' => \A d \in bktcfgf'.crash : InStep(d)
    BY <1>1, <1>6, <1>7, <2>1
  <2>3. Clean(bktcfgf'.data)
    BY <1>6, <1>7, <1>12
  <2> QED
    BY <1>1, <1>2, <2>2, <2>3 DEF InLines
<1>15. FileGives'
  <2>1. readConfigFileBuckets(bktcfgf'.data) = Said(part, s)
    BY <1>6, <1>7, <1>12
  <2> QED
    BY <1>1, <1>8, <2>1 DEF FileGives
<1>16. LastVersion'
  BY <1>1 DEF IInv, LastVersion
<1>17. CrashMentions'
  <2>1. \A d \in bktcfgf.crash : Mentions(d, versions)
    BY <1>1 DEF IInv, CrashMentions
  <2> QED
    BY <1>1, <1>6, <1>11, <2>1 DEF CrashMentions
<1>18. CrashLeaves'
  BY <1>1 DEF CrashLeaves
<1> QED
  BY <1>13, <1>14, <1>15, <1>16, <1>17, <1>18 DEF IInv

LEMMA RewriteDoneKeeps ==
  ASSUME IInv, rewriteDone
  PROVE  IInv'
<1>1. /\ pc = "rewrite" /\ pc' \in {"idle", "sync"} /\ unwritten = {} /\ bktcfgfrc' = Cardinality(Registered)
      /\ UNCHANGED <<freq, buckets, bktcfgf, unwritten, versions, ragged, replacing>>
  BY DEF rewriteDone
<1>2. replacing /\ Clean(bktcfgf.data) /\ buckets \in Maps /\ IsFiniteSet(Registered) /\ TypeOK
  BY <1>1 DEF IInv, Typed, TypeOK, InLines, Maps
<1>3. Cardinality(Registered) \in Nat
  BY <1>2, FS_CardinalityType
<1>4. Registered' = Registered
  BY <1>1 DEF Registered
<1>5. Typed'
  <2>1. TypeOK'
    BY <1>1, <1>2, <1>3, <1>4 DEF TypeOK
  <2> QED
    BY <1>1, <1>4, <2>1 DEF IInv, Typed
<1>6. InLines'
  BY <1>1, <1>2 DEF IInv, InLines
<1>7. FileGives'
  <2>1. readConfigFileBuckets(bktcfgf.data) = [n \in Names |-> IF n \in unwritten THEN NoBucket ELSE buckets[n]]
    BY <1>1 DEF IInv, FileGives
  <2>2. readConfigFileBuckets(bktcfgf.data) = buckets
    BY <1>1, <1>2, <2>1 DEF Maps
  <2> QED
    BY <1>1, <2>2 DEF FileGives
<1>8. LastVersion'
  BY <1>1 DEF IInv, LastVersion
<1>9. CrashMentions'
  BY <1>1 DEF IInv, CrashMentions
<1>10. CrashLeaves'
  BY <1>1, <1>2 DEF CrashLeaves
<1> QED
  BY <1>5, <1>6, <1>7, <1>8, <1>9, <1>10 DEF IInv

LEMMA ManagerSyncKeeps ==
  ASSUME IInv, managerSync
  PROVE  IInv'
<1>1. /\ pc = "idle" /\ pc' = "sync"
      /\ UNCHANGED <<freq, buckets, bktcfgfrc, bktcfgf, unwritten, versions, ragged, replacing>>
  BY DEF managerSync
<1>2. Registered' = Registered
  BY <1>1 DEF Registered
<1>3. Typed'
  BY <1>1, <1>2 DEF IInv, Typed, TypeOK
<1>4. InLines' /\ FileGives' /\ LastVersion' /\ CrashMentions'
  BY <1>1 DEF IInv, InLines, FileGives, LastVersion, CrashMentions
<1>5. CrashLeaves'
  BY <1>1 DEF IInv, CrashLeaves
<1> QED
  BY <1>3, <1>4, <1>5 DEF IInv

\* A process ends with contents that were among those a crash could leave.
LEMMA Ends ==
  ASSUME IInv, Close \/ Crash
  PROVE  \E d \in bktcfgf.crash : bktcfgf' = Opened(d) /\ Exit
BY DEF IInv, Typed, Close, Crash

LEMMA ExitKeeps ==
  ASSUME IInv, NEW d \in bktcfgf.crash, bktcfgf' = Opened(d), Exit
  PROVE  IInv'
<1>1. /\ pc' = "down" /\ buckets' = NoBuckets /\ unwritten' = {} /\ replacing' = FALSE
      /\ UNCHANGED <<freq, bktcfgfrc, versions, ragged>>
      /\ bktcfgf' = [data |-> d, off |-> 0, crash |-> {d}]
  BY DEF Exit, Opened
<1>2. /\ TypeOK /\ d \in Seq(UnitsOf(Stmts)) /\ versions \in Seq(Maps) /\ ragged \in BOOLEAN
      /\ ~ragged => InStep(d)
  BY DEF IInv, Typed, InLines
<1>3. Registered' = {}
  BY <1>1 DEF Registered, NoBuckets
<1>4. Typed'
  <2>1. TypeOK'
    BY <1>1, <1>2, <1>3 DEF TypeOK, NoBuckets
  <2>2. bktcfgf' \in [data : Seq(UnitsOf(Stmts)), off : Nat, crash : SUBSET Seq(UnitsOf(Stmts))]
    BY <1>1, <1>2
  <2>3. bktcfgf'.data \in bktcfgf'.crash /\ IsFiniteSet(Registered')
    BY <1>1, <1>3, FS_EmptySet
  <2>4. ragged' \in BOOLEAN /\ replacing' \in BOOLEAN /\ versions' \in Seq(Maps)
    BY <1>1, <1>2
  <2> QED
    BY <1>1, <2>1, <2>2, <2>3, <2>4 DEF Typed
<1>5. InLines' /\ FileGives' /\ LastVersion' /\ CrashMentions' /\ CrashLeaves'
  BY <1>1, <1>2 DEF InLines, FileGives, LastVersion, CrashMentions, CrashLeaves
<1> QED
  BY <1>4, <1>5 DEF IInv

LEMMA CreateKeeps ==
  ASSUME IInv, NEW n \in Names, NEW o \in Options, CreateBucket(n, o)
  PROVE  IInv'
<1> DEFINE s == bucketCreateStmt(n, o)
<1>1. s \in Stmts /\ s.name = n /\ s.opts = o
  BY DEF Stmts, bucketCreateStmt
<1>2. buckets \in Maps
  BY DEF IInv, Typed, TypeOK, Maps
<1>3. [buckets EXCEPT ![n] = o] = Said(buckets, s)
  BY <1>1, <1>2 DEF Maps, Said
<1>4. Call(Said(buckets, s)) /\ AppendLine(s)
  BY <1>3 DEF CreateBucket
<1> HIDE DEF s
<1> QED
  BY <1>1, <1>4, CallKeeps

LEMMA DropKeeps ==
  ASSUME IInv, NEW n \in Names, DropBucket(n)
  PROVE  IInv'
<1> DEFINE s == bucketDropStmt(n)
<1>1. s \in Stmts /\ s.name = n /\ s.opts = NoBucket
  BY DEF Stmts, bucketDropStmt
<1>2. buckets \in Maps
  BY DEF IInv, Typed, TypeOK, Maps
<1>3. [buckets EXCEPT ![n] = NoBucket] = Said(buckets, s)
  BY <1>1, <1>2 DEF Maps, Said
<1>4. Call(Said(buckets, s)) /\ AppendLine(s)
  BY <1>3 DEF DropBucket
<1> HIDE DEF s
<1> QED
  BY <1>1, <1>4, CallKeeps

LEMMA InitIInv ==
  ASSUME Init
  PROVE  IInv
<1>1. /\ freq \in Freqs /\ pc = "down" /\ buckets = NoBuckets /\ bktcfgfrc = 0 /\ unwritten = {}
      /\ bktcfgf = [data |-> <<>>, off |-> 0, crash |-> {<<>>}]
      /\ versions = <<NoBuckets>> /\ ragged = FALSE /\ replacing = FALSE
  BY DEF Init, Opened
<1>2. NoBuckets \in Maps
  BY DEF NoBuckets, Maps
<1>3. <<NoBuckets>> \in Seq(Maps)
  BY <1>2, OneVersion
<1>4. <<>> \in Seq(UnitsOf(Stmts)) /\ InStep(<<>>)
  BY EmptyFile DEF Clean
<1>5. Registered = {}
  BY <1>1 DEF Registered, NoBuckets
<1>6. Typed
  <2>1. TypeOK
    BY <1>1, <1>2, <1>5 DEF TypeOK, Maps
  <2>2. bktcfgf \in [data : Seq(UnitsOf(Stmts)), off : Nat, crash : SUBSET Seq(UnitsOf(Stmts))]
    BY <1>1, <1>4
  <2> QED
    BY <1>1, <1>3, <1>5, <2>1, <2>2, FS_EmptySet DEF Typed
<1>7. InLines /\ FileGives /\ LastVersion /\ CrashMentions /\ CrashLeaves
  BY <1>1, <1>4 DEF InLines, FileGives, LastVersion, CrashMentions, CrashLeaves
<1> QED
  BY <1>6, <1>7 DEF IInv

LEMMA NextIInv ==
  ASSUME IInv, [Next]_vars
  PROVE  IInv'
<1>1. CASE Open
  BY <1>1, OpenKeeps
<1>2. ASSUME NEW n \in Names, NEW o \in Options, CreateBucket(n, o) PROVE IInv'
  BY <1>2, CreateKeeps
<1>3. ASSUME NEW n \in Names, DropBucket(n) PROVE IInv'
  BY <1>3, DropKeeps
<1>4. CASE syncConfig
  BY <1>4, SyncKeeps
<1>5. CASE rewriteStart
  BY <1>5, RewriteStartKeeps
<1>6. ASSUME NEW n \in Names, rewriteBucket(n) PROVE IInv'
  BY <1>6, RewriteBucketKeeps
<1>7. CASE rewriteDone
  BY <1>7, RewriteDoneKeeps
<1>8. CASE managerSync
  BY <1>8, ManagerSyncKeeps
<1>9. CASE Close \/ Crash
  BY <1>9, Ends, ExitKeeps
<1>10. CASE UNCHANGED vars
  BY <1>10 DEF vars, IInv, Typed, TypeOK, Registered, InLines, FileGives, LastVersion,
               CrashMentions, CrashLeaves
<1> QED
  BY <1>1, <1>2, <1>3, <1>4, <1>5, <1>6, <1>7, <1>8, <1>9, <1>10 DEF Next

-----------------------------------------------------------------------------
(* Theorems *)

\* In every state the variables have their types, what is appended goes to the end of
\* the file, and IInv holds.
THEOREM RegistryInvariance == Spec => []IInv
<1>1. Init => IInv
  BY InitIInv
<1>2. IInv /\ [Next]_vars => IInv'
  BY NextIInv
<1> QED
  BY <1>1, <1>2, PTL DEF Spec

\* The variables keep their types, for all names, options and lengths of the file: every
\* line is appended at the end of sbkt.conf, after every Open, rewrite and sync.
THEOREM RegistryTypes == Spec => []TypeOK
<1>1. IInv => TypeOK
  BY DEF IInv, Typed
<1> QED
  BY <1>1, RegistryInvariance, PTL

\* Outside a rewrite the file gives the open buckets, as long as no crash has cut it.
\* The hypothesis is the limit of the code: a name with a ":" in it makes a line of
\* more parts than Open accepts.
THEOREM Registration ==
  ASSUME SplitNames = {}
  PROVE  Spec => []BucketsAreRegistered
<1>1. IInv => BucketsAreRegistered
  <2> SUFFICES ASSUME IInv, pc \in {"idle", "sync"}, ~ragged
               PROVE  Opens(bktcfgf.data) /\ readConfigFileBuckets(bktcfgf.data) = buckets
    BY DEF BucketsAreRegistered
  <2>1. bktcfgf.data \in Seq(UnitsOf(Stmts)) /\ Clean(bktcfgf.data)
    BY DEF IInv, Typed, InLines
  <2>2. Opens(bktcfgf.data)
    BY <2>1, CleanReads
  <2>3. readConfigFileBuckets(bktcfgf.data) = buckets
    BY <2>1 DEF IInv, FileGives, Clean
  <2> QED
    BY <2>2, <2>3
<1> QED
  BY <1>1, RegistryInvariance, PTL

\* Whatever a crash leaves of the file, in the middle of a rewrite too, it names no bucket
\* that was not there at the last sync or since, and gives none other options than it
\* had, or than are left of them where the line is cut.
THEOREM NothingInvented == Spec => []NoneInvented
<1>1. IInv => NoneInvented
  BY DEF IInv, CrashMentions, Mentions, NoneInvented
<1> QED
  BY <1>1, RegistryInvariance, PTL

\* A process that ends, by Close or by a crash, leaves in the file the buckets of the last
\* sync and a beginning of the calls since.
THEOREM RestartFindsVersion == Spec => RestartKeeps
<1> DEFINE Kept ==
      ~replacing /\ ~ragged /\ pc \in {"idle", "sync"} /\ pc' = "down" =>
        LET left == readConfigFileBuckets(bktcfgf'.data)
        IN  \/ \E i \in DOMAIN versions : left = versions[i]
            \/ /\ Len(bktcfgf'.data) % 4 \in {1, 2}
               /\ Opens(bktcfgf'.data) => \E i \in DOMAIN versions : CutIn(left, versions[i])
<1>1. IInv /\ [Next]_vars => [Kept]_vars
  <2> SUFFICES ASSUME IInv, Next, ~replacing, ~ragged, pc \in {"idle", "sync"}, pc' = "down"
               PROVE  Leaves(bktcfgf'.data, versions)
    BY DEF Leaves
  <2>1. Close \/ Crash
    BY DEF Next, Open, CreateBucket, DropBucket, AppendLine, syncConfig, rewriteStart,
           rewriteBucket, rewriteDone, managerSync
  <2>2. PICK d \in bktcfgf.crash : bktcfgf' = Opened(d)
    BY <2>1, Ends
  <2>3. bktcfgf'.data = d
    BY <2>2 DEF Opened
  <2>4. Leaves(d, versions)
    BY <2>2 DEF IInv, CrashLeaves
  <2> QED
    BY <2>3, <2>4
<1> QED
  BY <1>1, RegistryInvariance, PTL DEF Spec, RestartKeeps
=============================================================================
