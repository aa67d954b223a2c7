------------------------- MODULE BucketDurableProofs --------------------------
(***************************************************************************)
(* Theorems about what the log of a bucket contains, for every set of keys *)
(* and entries, every way of failing and every value of the bounds: a copy *)
(* of the bucket outlives every crash, the file and the buffer make what   *)
(* the bucket holds, no deadline is prolonged, and the log implements the  *)
(* durable map.                                                            *)
(*                                                                         *)
(* HInv relates the history to the bucket; CInv says what the files hold,  *)
(* at each step of a compaction too; KInv that the history has all that a  *)
(* crash can leave of them.                                                *)
(***************************************************************************)
EXTENDS BucketLogProofs

-----------------------------------------------------------------------------
(* The contents of the log *)

\* A crash leaves lines of the file, of which the last may be cut.
Intact(f) == \A d \in f.crash : InStep(d)

\* What each of the statements in the buffer makes of the file, and what a crash may
\* leave of it, is among these maps.
Covered(f, buf, V) ==
  /\ \A j \in 0..Len(buf) : Applied(Salvaged(f.data), SubSeq(buf, 1, j)) \in V
  /\ \A d \in f.crash : Salvaged(d) \in V

LEMMA Aligned ==
  ASSUME NEW x \in Nat, x % 4 = 0, NEW m \in Nat
  PROVE  (x + m) % 4 = m % 4
  OBVIOUS

\* Statements that are written to the end of a file, the last of them in part, and what
\* a crash leaves then.
LEMMA WriteLines ==
  ASSUME NEW f, IsFile(f), Extends(f), Clean(f.data), Intact(f),
         NEW stmts \in Seq(Stmts), NEW n \in Cuts(4 * Len(stmts))
  PROVE  LET g == Written(f, SubSeq(Units(stmts), 1, n), Cuts(n))
         IN  /\ InStep(g.data) /\ Len(g.data) % 4 = n % 4
             /\ Intact(g) /\ n \div 4 \in 0..Len(stmts)
             /\ Salvaged(g.data) = Applied(Salvaged(f.data), SubSeq(stmts, 1, n \div 4))
             /\ \A d \in g.crash : \/ d \in f.crash
                                   \/ \E j \in 0..Len(stmts) :
                                        Salvaged(d) = Applied(Salvaged(f.data), SubSeq(stmts, 1, j))
<1>0. PICK u, data : u = Units(stmts) /\ data = f.data
  OBVIOUS
<1>1. /\ data \in Seq(Contained) /\ Clean(data) /\ f \in FilesOf(Contained)
      /\ Len(data) \in Nat /\ Len(data) % 4 = 0
  BY <1>0 DEF IsFile, LogFiles, FilesOf, Clean
<1>2. u \in Seq(Contained) /\ Len(u) = 4 * Len(stmts) /\ 4 * Len(stmts) \in Nat
  BY <1>0, UnitsType DEF Contained
<1>3. n \in 0..Len(u) /\ n \in Nat
  <2>1. n \in 0..(4 * Len(stmts))
    BY <1>2 DEF Cuts
  <2> QED
    BY <1>2, <2>1
<1>4. ASSUME NEW m \in 0..n
      PROVE  LET d == data \o SubSeq(u, 1, m)
             IN  /\ InStep(d) /\ Len(d) % 4 = m % 4 /\ m \div 4 \in 0..Len(stmts)
                 /\ Salvaged(d) = Applied(Salvaged(data), SubSeq(stmts, 1, m \div 4))
  <2>1. m \in 0..(4 * Len(stmts)) /\ m \in Nat
    BY <1>2, <1>3
  <2>2. /\ InStep(data \o SubSeq(u, 1, m))
        /\ Len(data \o SubSeq(u, 1, m)) = Len(data) + m
        /\ Salvaged(data \o SubSeq(u, 1, m)) = Applied(Salvaged(data), SubSeq(stmts, 1, m \div 4))
    BY <1>0, <1>1, <2>1, SalvagedAfter
  <2>3. (Len(data) + m) % 4 = m % 4
    BY <1>1, <2>1, Aligned
  <2>4. m \div 4 \in 0..Len(stmts)
    <3>1. Len(stmts) \in Nat
      OBVIOUS
    <3> QED
      BY <2>1, <3>1
  <2> QED
    BY <2>2, <2>3, <2>4
<1>5. PICK g : g = Written(f, SubSeq(u, 1, n), Cuts(n))
  OBVIOUS
<1>6. /\ g.data = data \o SubSeq(u, 1, n)
      /\ \A d \in g.crash : \/ d \in f.crash
                            \/ d = data \o SubSeq(u, 1, n)
                            \/ \E m \in Cuts(n) : d = data \o SubSeq(u, 1, m)
  <2>1. Cuts(n) \in SUBSET (0..n)
    BY DEF Cuts
  <2>2. PICK c : c = Cuts(n)
    OBVIOUS
  <2>3. n \in 0..Len(u) /\ c \in SUBSET (0..n)
    BY <1>3, <2>1, <2>2
  <2>4. LET w == Written(f, SubSeq(u, 1, n), c)
        IN  /\ w.data = f.data \o SubSeq(u, 1, n)
            /\ \A d \in w.crash : \/ d \in f.crash
                                  \/ d = f.data \o SubSeq(u, 1, n)
                                  \/ d \in Extended(f.data, u, c)
    BY <1>1, <1>2, <2>3, WrittenAtEnd
  <2> QED
    BY <1>0, <1>5, <2>2, <2>4 DEF Extended
<1>7. n \in 0..n
  BY <1>3
<1>8. ASSUME NEW d \in g.crash
      PROVE  /\ InStep(d)
             /\ \/ d \in f.crash
                \/ \E j \in 0..Len(stmts) :
                     Salvaged(d) = Applied(Salvaged(data), SubSeq(stmts, 1, j))
  <2>1. CASE d \in f.crash
    BY <2>1 DEF Intact
  <2>2. ASSUME NEW m \in 0..n, d = data \o SubSeq(u, 1, m)
        PROVE  /\ InStep(d)
               /\ \E j \in 0..Len(stmts) :
                    Salvaged(d) = Applied(Salvaged(data), SubSeq(stmts, 1, j))
    BY <1>4, <2>2
  <2>3. \A m \in Cuts(n) : m \in 0..n
    BY DEF Cuts
  <2> QED
    BY <1>6, <1>7, <2>1, <2>2, <2>3
<1>9. /\ InStep(g.data) /\ Len(g.data) % 4 = n % 4
      /\ Salvaged(g.data) = Applied(Salvaged(data), SubSeq(stmts, 1, n \div 4))
      /\ n \div 4 \in 0..Len(stmts)
  BY <1>4, <1>6, <1>7
<1> QED
  BY <1>0, <1>5, <1>8, <1>9 DEF Intact

\* A buffer is written, in whole or in part, and emptied or kept to be written again.
LEMMA WriteKeeps ==
  ASSUME Plain, NEW f, IsFile(f), Extends(f), Clean(f.data), Intact(f),
         NEW buf \in Seq(Stmts), NEW n \in Cuts(4 * Len(buf)),
         NEW left, left = buf \/ (left = <<>> /\ n = 4 * Len(buf)), NEW V
  PROVE  LET g == Written(f, SubSeq(Units(buf), 1, n), Cuts(n))
         IN  /\ InStep(g.data) /\ Len(g.data) % 4 = n % 4 /\ Intact(g)
             /\ Applied(Salvaged(g.data), left) = Applied(Salvaged(f.data), buf)
             /\ Covered(f, buf, V) /\ (left = <<>> \/ ~Twice(SubSeq(buf, 1, n \div 4)))
                  => Covered(g, left, V)
<1>0. PICK g, m : g = Written(f, SubSeq(Units(buf), 1, n), Cuts(n)) /\ m = n \div 4
  OBVIOUS
<1>1. /\ InStep(g.data) /\ Len(g.data) % 4 = n % 4 /\ Intact(g) /\ m \in 0..Len(buf)
      /\ Salvaged(g.data) = Applied(Salvaged(f.data), SubSeq(buf, 1, m))
      /\ \A d \in g.crash : \/ d \in f.crash
                            \/ \E j \in 0..Len(buf) :
                                 Salvaged(d) = Applied(Salvaged(f.data), SubSeq(buf, 1, j))
  BY <1>0, WriteLines
<1>2. PICK c, p : c = Salvaged(f.data) /\ p = SubSeq(buf, 1, m)
  OBVIOUS
<1>3. c \in Maps /\ p \in Seq(Stmts) /\ Len(p) = m
  BY <1>1, <1>2, Beginning, SalvagedType DEF IsFile, LogFiles, FilesOf
<1>4. Applied(c, p) \in Maps
  <2>1. \A i \in 1..Len(p) : Parses(p[i])
    <3> TAKE i \in 1..Len(p)
    <3>1. p[i] \in Stmts
      BY <1>3, ElementOfSeq
    <3> QED
      BY <3>1, PlainStmts
  <2> QED
    BY <1>3, <2>1, AppliedType
<1>5. ASSUME left = <<>>, n = 4 * Len(buf)
      PROVE  p = buf /\ Applied(Applied(c, p), left) = Applied(c, buf)
  <2>1. m = Len(buf)
    <3>1. Len(buf) \in Nat
      OBVIOUS
    <3> QED
      BY <1>0, <1>5, <3>1
  <2>2. p = buf
    BY <1>2, <2>1, SubSeqFull
  <2>3. Applied(Applied(c, p), <<>>) = Applied(c, p)
    BY <1>4, AppliedNone
  <2> QED
    BY <1>5, <2>2, <2>3
<1>6. ASSUME NEW j \in m..Len(buf)
      PROVE  Applied(Applied(c, p), SubSeq(buf, 1, j)) = Applied(c, SubSeq(buf, 1, j))
  BY <1>1, <1>2, AppliedAgain
<1>7. ASSUME left = buf PROVE Applied(Applied(c, p), left) = Applied(c, buf)
  <2>1. Len(buf) \in m..Len(buf)
    BY <1>1
  <2>2. SubSeq(buf, 1, Len(buf)) = buf
    BY SubSeqFull
  <2>3. PICK j \in m..Len(buf) : j = Len(buf)
    BY <2>1
  <2>4. Applied(Applied(c, p), SubSeq(buf, 1, j)) = Applied(c, SubSeq(buf, 1, j))
    BY <1>6
  <2> QED
    BY <1>7, <2>2, <2>3, <2>4
<1>8. ASSUME Covered(f, buf, V), left = <<>> \/ ~Twice(p)
      PROVE  Covered(g, left, V)
  <2>1. \A j \in 0..Len(buf) : Applied(c, SubSeq(buf, 1, j)) \in V
    BY <1>2, <1>8 DEF Covered
  <2>2. \A d \in g.crash : Salvaged(d) \in V
    BY <1>1, <1>2, <1>8, <2>1 DEF Covered
  <2>3. Applied(c, p) \in V
    BY <1>1, <1>2, <2>1
  <2>4. ASSUME NEW j \in 0..Len(left) PROVE Applied(Applied(c, p), SubSeq(left, 1, j)) \in V
    <3>1. CASE left = <<>>
      <4>1. SubSeq(left, 1, j) = <<>>
        <5>1. j = 0 /\ left \in Seq(Stmts)
          BY <3>1
        <5> QED
          BY <5>1, SubSeqEmpty
      <4>2. Applied(Applied(c, p), <<>>) = Applied(c, p)
        BY <1>4, AppliedNone
      <4> QED
        BY <2>3, <4>1, <4>2
    <3>2. CASE left = buf /\ ~Twice(p) /\ j \in m..Len(buf)
      <4>1. j \in 0..Len(buf)
        BY <1>1, <3>2
      <4> QED
        BY <1>6, <2>1, <3>2, <4>1
    <3>3. CASE left = buf /\ ~Twice(p) /\ j \notin m..Len(buf)
      <4>1. j \in 0..m
        BY <1>1, <3>3
      <4>2. SubSeq(p, 1, j) = SubSeq(buf, 1, j)
        BY <1>1, <1>2, <4>1, BeginningOf
      <4>3. j \in 0..Len(p)
        BY <1>3, <4>1
      <4>4. Applied(Applied(c, p), SubSeq(p, 1, j)) = Applied(c, p)
        BY <1>3, <3>3, <4>3, AppliedOnce
      <4> QED
        BY <2>3, <3>3, <4>2, <4>4
    <3> QED
      BY <1>8, <3>1, <3>2, <3>3
  <2> QED
    BY <1>1, <1>2, <2>2, <2>4 DEF Covered
<1> QED
  BY <1>0, <1>1, <1>2, <1>5, <1>7, <1>8

\* What the next process reads is one of the ways of reading the file.
LEMMA RecoveredRead ==
  ASSUME NEW f, f = NoFile \/ IsFile(f)
  PROVE  /\ \E n \in Counts(ReadFrom(DataOf(f))) :
              Recovered(f) = Contents(ReadFrom(DataOf(f)).stmts, n)
         /\ Recovered(f) \in Maps
<1>0. PICK r : r = ReadFrom(DataOf(f))
  OBVIOUS
<1>1. Recovered(f) = Contents(r.stmts, Min(Counts(r)))
  BY <1>0 DEF Recovered, DataOf
<1>2. DataOf(f) \in Seq(Contained)
  BY DataType
<1>3. r.stmts \in Seq(Stmts)
  BY <1>0, <1>2, SalvagedType DEF ReadFrom
<1>4. Counts(r) \subseteq Nat
  BY <1>3, CountsType
<1>5. Counts(r) # {}
  BY DEF Counts
<1>6. Min(Counts(r)) \in Counts(r)
  BY <1>4, <1>5, MinExists
<1> QED
  BY <1>0, <1>1, <1>2, <1>6, LoadType

\* The beginning of two sequences that are joined.
LEMMA BeginningOfConcat ==
  ASSUME NEW S, NEW s \in Seq(S), NEW t \in Seq(S)
  PROVE  /\ \A j \in 0..Len(s) : SubSeq(s \o t, 1, j) = SubSeq(s, 1, j)
         /\ \A j \in 0..Len(t) : SubSeq(s \o t, 1, Len(s) + j) = s \o SubSeq(t, 1, j)
<1>0. PICK u : u = s \o t
  OBVIOUS
<1>1. /\ u \in Seq(S) /\ Len(u) = Len(s) + Len(t) /\ Len(s) \in Nat /\ Len(t) \in Nat
      /\ \A i \in 1..(Len(s) + Len(t)) : u[i] = IF i <= Len(s) THEN s[i] ELSE t[i - Len(s)]
  BY <1>0, ConcatProperties
<1>2. ASSUME NEW j \in 0..Len(s) PROVE SubSeq(u, 1, j) = SubSeq(s, 1, j)
  <2>1. j \in 0..Len(u)
    BY <1>1
  <2>2. /\ SubSeq(u, 1, j) \in Seq(S) /\ Len(SubSeq(u, 1, j)) = j
        /\ \A i \in 1..j : SubSeq(u, 1, j)[i] = u[i]
    BY <1>1, <2>1, Beginning
  <2>3. /\ SubSeq(s, 1, j) \in Seq(S) /\ Len(SubSeq(s, 1, j)) = j
        /\ \A i \in 1..j : SubSeq(s, 1, j)[i] = s[i]
    BY Beginning
  <2>4. \A i \in 1..j : u[i] = s[i]
    BY <1>1
  <2>5. PICK x, y : x = SubSeq(u, 1, j) /\ y = SubSeq(s, 1, j)
    OBVIOUS
  <2>6. x = y
    BY <2>2, <2>3, <2>4, <2>5, SeqEqual
  <2> QED
    BY <2>5, <2>6
<1>3. ASSUME NEW j \in 0..Len(t) PROVE SubSeq(u, 1, Len(s) + j) = s \o SubSeq(t, 1, j)
  <2>0. PICK b, n : b = SubSeq(t, 1, j) /\ n = Len(s) + j
    OBVIOUS
  <2>1. n \in 0..Len(u) /\ n \in Nat
    BY <1>1, <2>0
  <2>2. /\ SubSeq(u, 1, n) \in Seq(S) /\ Len(SubSeq(u, 1, n)) = n
        /\ \A i \in 1..n : SubSeq(u, 1, n)[i] = u[i]
    BY <1>1, <2>1, Beginning
  <2>3. b \in Seq(S) /\ Len(b) = j /\ \A i \in 1..j : b[i] = t[i]
    BY <2>0, Beginning
  <2>4. /\ s \o b \in Seq(S) /\ Len(s \o b) = n
        /\ \A i \in 1..n : (s \o b)[i] = IF i <= Len(s) THEN s[i] ELSE b[i - Len(s)]
    BY <2>0, <2>3, ConcatProperties
  <2>5. \A i \in 1..n : u[i] = (s \o b)[i]
    BY <1>1, <2>0, <2>3, <2>4
  <2>6. PICK x, y : x = SubSeq(u, 1, n) /\ y = s \o b
    OBVIOUS
  <2>7. x = y
    BY <2>2, <2>4, <2>5, <2>6, SeqEqual
  <2> QED
    BY <2>0, <2>6, <2>7
<1> QED
  BY <1>0, <1>2, <1>3

\* The history after a transaction.
Grown(vs, stmts) == vs \o [i \in 1..Len(stmts) |-> Applied(Last(vs), SubSeq(stmts, 1, i))]

LEMMA VersionsGrow ==
  ASSUME Plain, NEW vs \in Seq(Maps), Len(vs) > 0, NEW m \in Maps, Last(vs) = Saved(m),
         NEW ch \in Forwards
  PROVE  LET s  == StmtsFor(ch)
             ws == Grown(vs, s)
         IN  /\ ws \in Seq(Maps) /\ Len(ws) > Len(vs) /\ SubSeq(ws, 1, Len(vs)) = vs
             /\ Last(ws) = Saved(Put(m, ch)) /\ ToSet(vs) \subseteq ToSet(ws)
             /\ \A j \in 0..Len(s) : Applied(Last(vs), SubSeq(s, 1, j)) \in ToSet(ws)
<1>0. PICK s, c : s = StmtsFor(ch) /\ c = Last(vs)
  OBVIOUS
<1>z. PICK z : z = [i \in 1..Len(s) |-> Applied(c, SubSeq(s, 1, i))]
  OBVIOUS
<1>1. s \in Seq(Stmts) /\ Len(s) > 0 /\ Len(s) \in Nat
  BY <1>0, ForwardType
<1>2. c \in Maps /\ Saved(c) = c /\ c = Saved(m)
  BY <1>0, SavedType
<1>3. \A i \in 0..Len(s) : SubSeq(s, 1, i) \in Seq(Stmts) /\ Applied(c, SubSeq(s, 1, i)) \in Maps
  <2> TAKE i \in 0..Len(s)
  <2>1. SubSeq(s, 1, i) \in Seq(Stmts)
    BY <1>1, Beginning
  <2> QED
    BY <1>2, <2>1, AppliedSaved
<1>4. /\ z \in Seq(Maps) /\ Len(z) = Len(s)
      /\ \A i \in 1..Len(s) : z[i] = Applied(c, SubSeq(s, 1, i))
  <2>1. \A i \in 1..Len(s) : i \in 0..Len(s)
    BY <1>1
  <2> QED
    BY <1>1, <1>3, <1>z, <2>1
<1>5. PICK ws : ws = vs \o z
  OBVIOUS
<1>6. /\ ws \in Seq(Maps) /\ Len(ws) = Len(vs) + Len(s) /\ Len(vs) \in Nat
      /\ \A i \in 1..(Len(vs) + Len(s)) : ws[i] = IF i <= Len(vs) THEN vs[i] ELSE z[i - Len(vs)]
  <2>1. z \in Seq(Maps) /\ Len(z) = Len(s) /\ Len(vs) \in Nat
    BY <1>4
  <2>2. vs \o z \in Seq(Maps) /\ Len(vs \o z) = Len(vs) + Len(z)
    BY <2>1, ConcatProperties
  <2>3. \A i \in 1..(Len(vs) + Len(z)) :
          (vs \o z)[i] = IF i <= Len(vs) THEN vs[i] ELSE z[i - Len(vs)]
    BY <2>1, ConcatProperties
  <2> QED
    BY <1>5, <2>1, <2>2, <2>3
<1>7. SubSeq(ws, 1, Len(vs)) = vs
  <2>1. Len(vs) \in 0..Len(vs)
    BY <1>6
  <2> QED
    BY <1>4, <1>5, <2>1, BeginningOfConcat, SubSeqFull
<1>8. \A i \in 1..Len(vs) : ws[i] = vs[i] /\ i \in 1..Len(ws)
  BY <1>1, <1>6
<1>9. \A i \in 1..Len(s) : ws[Len(vs) + i] = z[i] /\ Len(vs) + i \in 1..Len(ws)
  BY <1>1, <1>6
<1>10. ToSet(vs) \subseteq ToSet(ws)
  BY <1>6, <1>8 DEF ToSet
<1>11. ASSUME NEW j \in 0..Len(s) PROVE Applied(c, SubSeq(s, 1, j)) \in ToSet(ws)
  <2>1. CASE j = 0
    <3>1. SubSeq(s, 1, j) = <<>>
      BY <1>1, <2>1, SubSeqEmpty
    <3>2. Applied(c, <<>>) = c
      BY <1>2, AppliedNone
    <3>3. c \in ToSet(vs)
      BY <1>0, <1>6 DEF Last, ToSet
    <3> QED
      BY <1>10, <3>1, <3>2, <3>3
  <2>2. CASE j # 0
    <3>1. j \in 1..Len(s)
      BY <1>1, <2>2
    <3>2. ws[Len(vs) + j] = Applied(c, SubSeq(s, 1, j))
      BY <1>4, <1>9, <3>1
    <3> QED
      BY <1>6, <1>9, <3>1, <3>2 DEF ToSet
  <2> QED
    BY <2>1, <2>2
<1>12. Last(ws) = Saved(Put(m, ch))
  <2>1. Len(s) \in 1..Len(s)
    BY <1>1
  <2>2. ws[Len(vs) + Len(s)] = Applied(c, SubSeq(s, 1, Len(s)))
    BY <1>4, <1>9, <2>1
  <2>3. SubSeq(s, 1, Len(s)) = s
    BY <1>1, SubSeqFull
  <2>4. Applied(c, s) = Saved(Put(m, ch))
    BY <1>0, <1>2, AppliedPut
  <2> QED
    BY <1>6, <2>2, <2>3, <2>4 DEF Last
<1>13. Len(ws) > Len(vs)
  BY <1>1, <1>6
<1>14. ws = Grown(vs, s)
  BY <1>0, <1>5, <1>z DEF Grown
<1> QED
  BY <1>0, <1>6, <1>7, <1>10, <1>11, <1>12, <1>13, <1>14

\* What the statements of a transaction make of a file and its buffer is in the history.
LEMMA CoveredGrow ==
  ASSUME NEW f, NEW p \in Seq(Stmts), NEW s \in Seq(Stmts), NEW V, NEW W, V \subseteq W,
         Covered(f, p, V),
         \A j \in 0..Len(s) : Applied(Applied(Salvaged(f.data), p), SubSeq(s, 1, j)) \in W
  PROVE  Covered(f, p \o s, W)
<1>0. PICK b, c : b = p \o s /\ c = Salvaged(f.data)
  OBVIOUS
<1>1. b \in Seq(Stmts) /\ Len(b) = Len(p) + Len(s) /\ Len(p) \in Nat /\ Len(s) \in Nat
  BY <1>0, ConcatProperties
<1>2. ASSUME NEW j \in 0..Len(b) PROVE Applied(c, SubSeq(b, 1, j)) \in W
  <2>1. CASE j <= Len(p)
    <3>1. j \in 0..Len(p)
      BY <1>1, <2>1
    <3>2. SubSeq(b, 1, j) = SubSeq(p, 1, j)
      BY <1>0, <3>1, BeginningOfConcat
    <3> QED
      BY <1>0, <3>1, <3>2 DEF Covered
  <2>2. CASE ~(j <= Len(p))
    <3>1. PICK i \in 0..Len(s) : j = Len(p) + i
      <4>1. j - Len(p) \in 0..Len(s) /\ j = Len(p) + (j - Len(p))
        BY <1>1, <2>2
      <4> QED
        BY <4>1
    <3>2. SubSeq(b, 1, j) = p \o SubSeq(s, 1, i)
      BY <1>0, <3>1, BeginningOfConcat, SMTT(30)
    <3>3. SubSeq(s, 1, i) \in Seq(Stmts)
      BY Beginning
    <3>4. Applied(c, p \o SubSeq(s, 1, i)) = Applied(Applied(c, p), SubSeq(s, 1, i))
      BY <3>3, AppliedConcat
    <3> QED
      BY <1>0, <3>2, <3>4
  <2> QED
    BY <2>1, <2>2
<1> QED
  BY <1>0, <1>2 DEF Covered

-----------------------------------------------------------------------------
(* The history *)

\* The last version is what the bucket holds; only at rest does the buffer hold
\* anything.
HInv ==
  /\ versions \in Seq(Maps) /\ Len(versions) > 0
  /\ pc # "down" => Last(versions) = Saved(mem)
  /\ pc = "down" => versions = <<Recovered(stitch)>>
  /\ pc # "idle" => aofbuf = <<>>

LEMMA OneVersion ==
  ASSUME NEW m \in Maps
  PROVE  /\ <<m>> \in Seq(Maps) /\ Len(<<m>>) > 0 /\ Last(<<m>>) = m /\ ToSet(<<m>>) = {m}
         /\ Len(<<m>>) = 1
  BY DEF Last, ToSet

LEMMA LastVersion ==
  ASSUME HInv
  PROVE  Last(versions) \in Maps /\ Last(versions) \in ToSet(versions)
<1>1. Len(versions) \in 1..Len(versions) /\ versions \in Seq(Maps)
  BY DEF HInv
<1>2. versions[Len(versions)] \in Maps
  BY <1>1, ElementOfSeq
<1> QED
  BY <1>1, <1>2 DEF Last, ToSet

LEMMA InitHistory == Plain /\ Init => HInv
<1> SUFFICES ASSUME Plain, Init PROVE HInv
  OBVIOUS
<1>1. Recovered(NoFile) = NoEntries
  <2>1. <<>> \in Seq(Contained) /\ Clean(<<>>) /\ Salvaged(<<>>) = NoEntries
    BY EmptyLog
  <2>2. PICK n \in Counts(ReadFrom(<<>>)) : Recovered(NoFile) = Contents(ReadFrom(<<>>).stmts, n)
    BY RecoveredRead DEF DataOf
  <2>3. Contents(ReadFrom(<<>>).stmts, n) = Salvaged(<<>>)
    BY <2>1, LoadClean
  <2> QED
    BY <2>1, <2>2, <2>3
<1>2. /\ versions = <<NoEntries>> /\ pc = "down" /\ stitch = NoFile /\ aofbuf = <<>>
  BY DEF Init
<1>3. versions \in Seq(Maps) /\ Len(versions) > 0
  BY <1>2, NoEntriesType, OneVersion
<1> QED
  BY <1>1, <1>2, <1>3 DEF HInv

\* What a process reads is what it would write.
LEMMA OpenSaved ==
  ASSUME Plain, TInv, openBucket
  PROVE  mem' \in Maps /\ Saved(mem') = mem'
<1>0. PICK data, r : data = DataOf(stitch) /\ r = ReadFrom(data)
  OBVIOUS
<1>1. PICK n \in Counts(r) : mem' = Contents(r.stmts, n)
  BY <1>0 DEF openBucket, DataOf
<1>2. r.stmts \in Seq(Stmts)
  <2>1. data \in Seq(Contained)
    BY <1>0, DataType DEF TInv
  <2> QED
    BY <1>0, <2>1, SalvagedType DEF ReadFrom
<1>3. SubSeq(r.stmts, 1, n) \in Seq(Stmts)
  BY <1>2, CountsType, Beginning
<1>4. Saved(Applied(NoEntries, SubSeq(r.stmts, 1, n))) = Applied(NoEntries, SubSeq(r.stmts, 1, n))
      /\ Applied(NoEntries, SubSeq(r.stmts, 1, n)) \in Maps
  BY <1>3, NoEntriesType, AppliedSaved
<1> QED
  BY <1>1, <1>4 DEF Contents

LEMMA NextHistory == Plain /\ TInv /\ HInv /\ [Next]_vars => HInv'
<1> SUFFICES ASSUME Plain, TInv, HInv, [Next]_vars PROVE HInv'
  OBVIOUS
<1>0. \A m \in Maps : /\ <<m>> \in Seq(Maps) /\ Len(<<m>>) > 0 /\ Last(<<m>>) = m
  BY OneVersion
<1>u. ASSUME UNCHANGED <<versions, mem>>, pc # "down", pc' # "down",
             aofbuf' = <<>> \/ (aofbuf' = aofbuf /\ (pc # "idle" \/ pc' = "idle"))
      PROVE  HInv'
  BY <1>u DEF HInv
<1>s. ASSUME versions' = <<Last(versions)>>, UNCHANGED <<mem, aofbuf>>, pc # "idle", pc # "down",
             pc' # "down"
      PROVE  HInv'
  <2>1. versions' \in Seq(Maps) /\ Len(versions') > 0 /\ Last(versions') = Last(versions)
    BY <1>0, <1>s, LastVersion
  <2> QED
    BY <1>s, <2>1 DEF HInv
<1>1. CASE openBucket
  <2>1. versions' = <<mem'>> /\ pc' = "idle"
    BY <1>1 DEF openBucket
  <2>2. mem' \in Maps /\ Saved(mem') = mem'
    BY <1>1, OpenSaved
  <2> QED
    BY <1>0, <2>1, <2>2 DEF HInv
<1>2. ASSUME NEW ch \in Forwards, commitTx(ch) PROVE HInv'
  <2>1. /\ pc = "idle" /\ pc' \in {"idle", "commitSync"} /\ mem' = Put(mem, ch)
        /\ pc' = "idle" \/ aofbuf' = <<>>
    BY <1>2 DEF commitTx, Commit
  <2>2. versions' = Grown(versions, StmtsFor(ch))
    <3>1. versions' = versions \o [i \in DOMAIN ch |-> Applied(Last(versions), SubSeq(StmtsFor(ch), 1, i))]
      BY <1>2 DEF commitTx, Commit, StmtsFor
    <3>2. DOMAIN ch = 1..Len(StmtsFor(ch))
      BY ForwardType
    <3> QED
      BY <3>1, <3>2 DEF Grown
  <2>3. /\ versions' \in Seq(Maps) /\ Len(versions') > Len(versions)
        /\ Last(versions') = Saved(mem')
    BY <2>1, <2>2, VersionsGrow DEF TInv, HInv
  <2>4. Len(versions') > 0
    BY <2>3 DEF HInv
  <2> QED
    BY <2>1, <2>3, <2>4 DEF HInv
<1>3. CASE commitSync \/ flushSync
  <2>1. /\ pc \in {"commitSync", "flushSync"} /\ pc' \in {"idle", "check"}
        /\ UNCHANGED <<mem, aofbuf>> /\ (versions' = versions \/ versions' = <<Last(versions)>>)
    BY <1>3 DEF commitSync, flushSync, FileSynced, SyncFails
  <2> QED
    BY <1>u, <1>s, <2>1
<1>4. ASSUME NEW n \in 1..Len(KeyOrder), rollbackTx(n) PROVE HInv'
  BY <1>4, <1>u DEF rollbackTx
<1>5. CASE managerFlush
  BY <1>5, <1>u DEF managerFlush
<1>6. CASE noCompaction
  BY <1>6, <1>u DEF noCompaction
<1>7. CASE compactWrite
  <2>1. /\ pc \in {"check", "idle"} /\ pc' \in {"tmpSync", "idle"} /\ UNCHANGED <<versions, mem, aofbuf>>
        /\ pc = "idle" => aofbuf = <<>>
    BY <1>7 DEF compactWrite
  <2> QED
    BY <1>u, <2>1
<1>8. CASE compactSync \/ compactClose \/ compactRemove \/ compactReopen
  <2>1. /\ pc \in {"tmpSync", "closeFile", "removeFile", "reopen"} /\ UNCHANGED <<versions, mem, aofbuf>>
        /\ pc' \in {"closeFile", "removeFile", "rename", "idle"}
    BY <1>8 DEF compactSync, compactClose, compactRemove, compactReopen, Step
  <2> QED
    BY <1>u, <2>1
<1>9. CASE compactRename
  <2>1. /\ pc = "rename" /\ pc' \in {"reopen", "idle"} /\ UNCHANGED <<mem, aofbuf>>
        /\ versions' = versions \/ versions' = <<Saved(mem)>>
    BY <1>9 DEF compactRename, Step
  <2>2. Last(versions) = Saved(mem)
    BY <2>1 DEF HInv
  <2> QED
    BY <1>u, <1>s, <2>1, <2>2
<1>10. CASE close
  <2>1. /\ pc = "idle" /\ pc' \in {"idle", "closeSync"} /\ UNCHANGED <<versions, mem>>
        /\ aofbuf' = <<>> \/ (aofbuf' = aofbuf /\ pc' = "idle")
    <3>1. CASE aofbuf = <<>>
      BY <1>10, <3>1 DEF close
    <3>2. CASE aofbuf # <<>>
      BY <1>10, <3>2 DEF close
    <3> QED
      BY <3>1, <3>2
  <2> QED
    BY <1>u, <2>1
<1>11. ASSUME pc' = "down", versions' = <<Recovered(stitch')>>, aofbuf' = <<>>,
              stitch' = NoFile \/ IsFile(stitch')
       PROVE  HInv'
  <2>1. Recovered(stitch') \in Maps
    BY <1>11, RecoveredRead
  <2> QED
    BY <1>0, <1>11, <2>1 DEF HInv
<1>12. stitch' = NoFile \/ IsFile(stitch')
  <2>1. TInv'
    BY NextTypes
  <2> QED
    BY <2>1 DEF TInv
<1>13. CASE closeSync
  <2>1. /\ pc = "closeSync" /\ aofbuf' = aofbuf
        /\ \/ pc' = "down" /\ versions' = <<Recovered(stitch')>>
           \/ pc' = "idle" /\ UNCHANGED <<versions, mem>>
    BY <1>13 DEF closeSync, SyncFails
  <2>2. aofbuf' = <<>>
    BY <2>1 DEF HInv
  <2> QED
    BY <1>u, <1>11, <1>12, <2>1, <2>2
<1>14. CASE Crash
  BY <1>11, <1>12, <1>14 DEF Crash
<1>15. CASE UNCHANGED vars
  BY <1>15 DEF vars, HInv
<1> QED
  BY <1>1, <1>2, <1>3, <1>4, <1>5, <1>6, <1>7, <1>8, <1>9, <1>10, <1>13, <1>14, <1>15 DEF Next, compactLog

-----------------------------------------------------------------------------
(* The files and the buffer *)

\* Nothing of what makes the log and the bucket differ has happened.
Sound == damaged \subseteq {"twice"}

\* The file that holds the contents: the bucket's, or the temporary one as long as a
\* compaction has removed the former.
Holder == IF stitch = NoFile THEN tmp ELSE stitch

\* Up to the first of Harms but "twice", the file that holds the contents consists of
\* statements, the last of which may be cut, and they and those in the buffer make what
\* the bucket holds.  A temporary file that may replace it was written by a compaction
\* of the same contents and synced before the other was touched, and it has all of them
\* if it is the only one.
CInv ==
  Sound =>
    /\ stitch # NoFile => Intact(stitch)
    /\ stitch # NoFile /\ aofbuf = <<>> => Len(stitch.data) % 4 # 1
    /\ pc # "down" => /\ Holder # NoFile
                      /\ InStep(Holder.data)
                      /\ Applied(Salvaged(Holder.data), aofbuf) = Saved(mem)
    /\ pc \in Compacting => \/ Len(tmp.data) > 4 * Len(CompactStmts)
                            \/ tmp.data = Units(CompactStmts)
    /\ pc \in {"closeFile", "removeFile", "rename"} => tmp.crash = {tmp.data}
    /\ pc = "rename" => stitch = NoFile
    /\ stitch = NoFile /\ pc # "down" =>
         /\ tmp.crash = {tmp.data}
         /\ aofbuf = <<>> => CompactStmts = AllStmts /\ tmp.data = Units(AllStmts)

\* Everything that a crash or a statement in the buffer can make of that file is in the
\* history.
KInv == damaged = {} /\ pc # "down" => Covered(Holder, aofbuf, ToSet(versions))

LEMMA HarmIs ==
  \A cond, what : (cond => Harm(cond, what) = {what}) /\ (~cond => Harm(cond, what) = {})
  BY DEF Harm

LEMMA WholeWrite ==
  ASSUME NEW buf \in Seq(Stmts)
  PROVE  LET n == 4 * Len(buf)
         IN  n \in Cuts(n) /\ n % 4 = 0 /\ SubSeq(Units(buf), 1, n) = Units(buf)
<1>1. PICK n : n = 4 * Len(buf)
  OBVIOUS
<1>2. n \in 0..n /\ n % 4 = 0
  <2>1. Len(buf) \in Nat
    OBVIOUS
  <2> QED
    BY <1>1, <2>1
<1>3. Units(buf) \in Seq(Contained) /\ Len(Units(buf)) = n
  BY <1>1, UnitsType DEF Contained
<1>4. SubSeq(Units(buf), 1, n) = Units(buf)
  BY <1>3, SubSeqFull
<1>5. n \in Cuts(n)
  BY <1>2 DEF Cuts
<1> QED
  BY <1>1, <1>2, <1>4, <1>5

\* A write that does not misplace its statements.
LEMMA WriteHarms ==
  ASSUME fd, NEW buf, NEW left,
         \/ BufferWritten(buf) /\ left = <<>>
         \/ WriteFails(buf, TRUE) /\ left = buf
  PROVE  /\ Misplaced => "misplaced" \in damaged'
         /\ \/ left = <<>> /\ stitch' = Written(stitch, Units(buf), Cuts(4 * Len(buf)))
            \/ \E n \in Cuts(4 * Len(buf)) :
                 /\ left = buf /\ stitch' = Written(stitch, SubSeq(Units(buf), 1, n), Cuts(n))
                 /\ Twice(SubSeq(buf, 1, n \div 4)) => "twice" \in damaged'
<1>1. CASE BufferWritten(buf) /\ left = <<>>
  <2>1. /\ stitch' = Written(stitch, Units(buf), Cuts(4 * Len(buf)))
        /\ Harm(Misplaced, "misplaced") \subseteq damaged'
    BY <1>1 DEF BufferWritten
  <2> QED
    BY <1>1, <2>1, HarmIs
<1>2. CASE WriteFails(buf, TRUE) /\ left = buf
  <2>1. PICK n \in Cuts(4 * Len(buf)) :
          /\ stitch' = Written(stitch, SubSeq(Units(buf), 1, n), Cuts(n))
          /\ damaged' = damaged \cup Harm(~TRUE, "dropped") \cup Harm(Misplaced, "misplaced")
                                \cup Harm(Twice(SubSeq(buf, 1, n \div 4)), "twice")
    BY <1>2 DEF WriteFails
  <2>2. Harm(Misplaced, "misplaced") \subseteq damaged'
    BY <2>1
  <2>3. Harm(Twice(SubSeq(buf, 1, n \div 4)), "twice") \subseteq damaged'
    BY <2>1
  <2>4. Misplaced => "misplaced" \in damaged'
    BY <2>2, HarmIs
  <2>5. Twice(SubSeq(buf, 1, n \div 4)) => "twice" \in damaged'
    BY <2>3, HarmIs
  <2> QED
    BY <1>2, <2>1, <2>4, <2>5
<1> QED
  BY <1>1, <1>2

\* What has happened stays in the history.
LEMMA HarmsStay ==
  ASSUME [Next]_vars
  PROVE  damaged \subseteq damaged'
<1>1. \A buf, kept : BufferWritten(buf) \/ WriteFails(buf, kept) => damaged \subseteq damaged'
  BY DEF BufferWritten, WriteFails
<1>2. ASSUME NEW ch \in Forwards, commitTx(ch) PROVE damaged \subseteq damaged'
  BY <1>1, <1>2 DEF commitTx, Commit
<1>3. CASE managerFlush
  BY <1>1, <1>3 DEF managerFlush
<1>4. CASE close
  <2>1. CASE aofbuf = <<>>
    BY <1>4, <2>1 DEF close
  <2>2. CASE aofbuf # <<>>
    BY <1>1, <1>4, <2>2 DEF close
  <2> QED
    BY <2>1, <2>2
<1>5. CASE compactLog
  BY <1>5 DEF compactLog, compactWrite, compactSync, compactClose, compactRemove, compactRename,
              compactReopen
<1>6. CASE Crash
  BY <1>6 DEF Crash
<1>7. CASE openBucket \/ commitSync \/ flushSync \/ noCompaction \/ closeSync
  BY <1>7 DEF openBucket, commitSync, flushSync, noCompaction, closeSync
<1>8. ASSUME NEW n \in 1..Len(KeyOrder), rollbackTx(n) PROVE damaged \subseteq damaged'
  BY <1>8 DEF rollbackTx
<1>9. CASE UNCHANGED vars
  BY <1>9 DEF vars
<1> QED
  BY <1>2, <1>3, <1>4, <1>5, <1>6, <1>7, <1>8, <1>9 DEF Next

\* The write of the buffer by a transaction, the manager or close.
LEMMA WriteContents ==
  ASSUME Plain, TInv, CInv, pc # "down", damaged \subseteq damaged', Sound', tmp' = tmp,
         NEW buf \in Seq(Stmts), NEW V,
         \/ BufferWritten(buf) /\ aofbuf' = <<>>
         \/ WriteFails(buf, TRUE) /\ aofbuf' = buf
  PROVE  /\ Sound
         /\ stitch = NoFile => stitch' = NoFile /\ aofbuf' = buf
         /\ stitch' # NoFile => Intact(stitch')
         /\ stitch' # NoFile /\ aofbuf' = <<>> /\ buf # <<>> => Len(stitch'.data) % 4 # 1
         /\ Holder' # NoFile /\ InStep(Holder'.data)
         /\ Applied(Salvaged(Holder'.data), aofbuf') = Applied(Salvaged(Holder.data), buf)
         /\ damaged' = {} => damaged = {}
         /\ damaged' = {} /\ Covered(Holder, buf, V) => Covered(Holder', aofbuf', V)
<1>1. Sound /\ (damaged' = {} => damaged = {})
  BY DEF Sound
<1>2. /\ stitch # NoFile => Intact(stitch)
      /\ Holder # NoFile /\ InStep(Holder.data)
  BY <1>1 DEF CInv
<1>3. CASE ~fd
  <2>1. stitch' = stitch /\ aofbuf' = buf
    BY <1>3 DEF BufferWritten, WriteFails
  <2>2. Holder' = Holder
    BY <2>1 DEF Holder
  <2> QED
    BY <1>1, <1>2, <2>1, <2>2
<1>4. CASE fd
  <2>1. PICK left : left = aofbuf'
    OBVIOUS
  <2>2. /\ Misplaced => "misplaced" \in damaged'
        /\ \/ left = <<>> /\ stitch' = Written(stitch, Units(buf), Cuts(4 * Len(buf)))
           \/ \E n \in Cuts(4 * Len(buf)) :
                /\ left = buf /\ stitch' = Written(stitch, SubSeq(Units(buf), 1, n), Cuts(n))
                /\ Twice(SubSeq(buf, 1, n \div 4)) => "twice" \in damaged'
    BY <1>4, <2>1, WriteHarms, ZenonT(60)
  <2>3. /\ IsFile(stitch) /\ stitch # NoFile /\ Holder = stitch
    <3>1. stitch # NoFile
      BY <1>4 DEF TInv
    <3> QED
      BY <3>1 DEF TInv, Holder
  <2>4. Extends(stitch) /\ Clean(stitch.data) /\ Intact(stitch)
    <3>1. ~Misplaced
      BY <2>2 DEF Sound
    <3> QED
      BY <1>2, <2>3, <3>1 DEF Misplaced, Extends, Clean, IsCut
  <2>5. PICK n \in Cuts(4 * Len(buf)) :
          /\ stitch' = Written(stitch, SubSeq(Units(buf), 1, n), Cuts(n))
          /\ left = buf \/ (left = <<>> /\ n = 4 * Len(buf) /\ n % 4 = 0)
          /\ damaged' = {} => left = <<>> \/ ~Twice(SubSeq(buf, 1, n \div 4))
    <3>1. CASE left = <<>> /\ stitch' = Written(stitch, Units(buf), Cuts(4 * Len(buf)))
      <4>1. PICK n : n = 4 * Len(buf)
        OBVIOUS
      <4>2. n \in Cuts(n) /\ n % 4 = 0 /\ SubSeq(Units(buf), 1, n) = Units(buf)
        BY <4>1, WholeWrite
      <4> QED
        BY <3>1, <4>1, <4>2
    <3> QED
      BY <2>2, <3>1
  <2>6. PICK g : g = stitch'
    OBVIOUS
  <2>7. /\ InStep(g.data) /\ Len(g.data) % 4 = n % 4 /\ Intact(g)
        /\ Applied(Salvaged(g.data), left) = Applied(Salvaged(stitch.data), buf)
        /\ Covered(stitch, buf, V) /\ (left = <<>> \/ ~Twice(SubSeq(buf, 1, n \div 4)))
             => Covered(g, left, V)
    BY <2>3, <2>4, <2>5, <2>6, WriteKeeps, ZenonT(60)
  <2>8. stitch' # NoFile
    <3>1. BufferWritten(buf) \/ WriteFails(buf, TRUE)
      OBVIOUS
    <3> QED
      BY <2>3, <3>1, WriteTypes
  <2>9. Holder' = stitch'
    BY <2>8 DEF Holder
  <2>10. left = <<>> /\ buf # <<>> => Len(g.data) % 4 # 1
    <3>1. 0 # 1
      OBVIOUS
    <3> QED
      BY <2>5, <2>7, <3>1, Zenon
  <2> QED
    BY <1>1, <2>1, <2>3, <2>5, <2>6, <2>7, <2>8, <2>9, <2>10
<1> QED
  BY <1>3, <1>4 DEF TInv

LEMMA CompactStays ==
  ASSUME mem' = mem
  PROVE  CompactStmts' = CompactStmts /\ AllStmts' = AllStmts
  BY DEF CompactStmts, AllStmts

\* A file that was synced, with nothing in the buffer.
LEMMA SyncedCovered ==
  ASSUME Plain, NEW f, IsFile(f), f.crash = {f.data}
  PROVE  /\ InStep(f.data) => Intact(f)
         /\ Applied(Salvaged(f.data), <<>>) = Salvaged(f.data)
         /\ \A V : Salvaged(f.data) \in V => Covered(f, <<>>, V)
<1>1. f.data \in Seq(Contained)
  BY DEF IsFile, LogFiles, FilesOf
<1>2. Applied(Salvaged(f.data), <<>>) = Salvaged(f.data)
  BY <1>1, SalvagedType, AppliedNone
<1>3. \A j \in 0..Len(<<>>) : SubSeq(<<>>, 1, j) = <<>>
  <2> TAKE j \in 0..Len(<<>>)
  <2>1. j = 0 /\ <<>> \in Seq(Stmts)
    OBVIOUS
  <2> QED
    BY <2>1, SubSeqEmpty
<1> QED
  BY <1>2, <1>3 DEF Intact, Covered

\* What a compaction that leaves nothing out writes is what the bucket holds.
LEMMA CompactedHolds ==
  ASSUME Plain, TInv, tmp.data = Units(AllStmts)
  PROVE  /\ InStep(tmp.data) /\ Len(tmp.data) % 4 # 1 /\ Salvaged(tmp.data) = Saved(mem)
<1>1. AllStmts \in Seq(Stmts)
  BY AllType DEF TInv
<1>2. Applied(NoEntries, AllStmts) = Saved(mem)
  BY AppliedAll DEF TInv, Keyed
<1>3. Clean(tmp.data) /\ Salvaged(tmp.data) = Saved(mem)
  BY <1>1, <1>2, SalvagedUnits
<1>4. 0 # 1
  OBVIOUS
<1> QED
  BY <1>3, <1>4, Zenon DEF Clean

\* Steps that leave the files, the buffer and the contents alone.
LEMMA StayContents ==
  ASSUME CInv, KInv, pc # "down", pc' # "down",
         UNCHANGED <<stitch, tmp, mem, aofbuf, damaged, versions>>,
         pc' \in Compacting => pc \in Compacting,
         pc' \in {"closeFile", "removeFile", "rename"} => pc \in {"closeFile", "removeFile", "rename"},
         pc' = "rename" => pc = "rename"
  PROVE  CInv' /\ KInv'
<1>1. CompactStmts' = CompactStmts /\ AllStmts' = AllStmts
  BY CompactStays
<1>2. Holder' = Holder /\ (Sound' <=> Sound)
  BY DEF Holder, Sound
<1>3. Compacting' = Compacting
  BY DEF Compacting
<1>4. CInv'
  BY <1>1, <1>2 DEF CInv
<1> QED
  BY <1>2, <1>4 DEF KInv

LEMMA InitContents == Init => CInv /\ KInv
  BY DEF Init, CInv, KInv, Compacting
LEMMA OpenContents ==
  ASSUME Plain, TInv, HInv, CInv, openBucket
  PROVE  CInv' /\ KInv'
<1>0. PICK data, r : data = DataOf(stitch) /\ r = ReadFrom(data)
  OBVIOUS
<1>1. PICK n \in Counts(r), off \in Offsets(data, r) :
        mem' = Contents(r.stmts, n) /\ stitch' = [Opened(data) EXCEPT !.off = off]
  BY <1>0 DEF openBucket, DataOf
<1>2. /\ pc = "down" /\ aofbuf = <<>>
      /\ pc' = "idle" /\ aofbuf' = <<>> /\ versions' = <<mem'>> /\ damaged' = damaged
      /\ (Sound' <=> Sound)
  BY DEF openBucket, HInv, Sound
<1>3. data \in Seq(Contained)
  BY <1>0, DataType DEF TInv
<1>4. stitch' = [data |-> data, off |-> off, crash |-> {data}]
  BY <1>1 DEF Opened
<1>5. IsFile(stitch') /\ stitch' # NoFile
  <2>1. TInv'
    BY OpenTypes
  <2>2. stitch' # NoFile
    BY <1>2, <2>1 DEF TInv, openBucket
  <2> QED
    BY <2>1, <2>2 DEF TInv
<1>6. stitch'.data = data /\ stitch'.crash = {data} /\ Holder' = stitch'
  BY <1>4, <1>5 DEF Holder
<1>7. ASSUME Sound
      PROVE  InStep(data) /\ Len(data) % 4 # 1 /\ mem' = Salvaged(data) /\ Saved(mem') = mem'
  <2>1. InStep(data) /\ Len(data) % 4 # 1
    <3>1. CASE stitch = NoFile
      <4>1. Len(data) = 0 /\ InStep(data)
        BY <1>0, <3>1, EmptyLog DEF DataOf, Clean
      <4> QED
        BY <4>1
    <3>2. CASE stitch # NoFile
      <4>1. Intact(stitch) /\ data \in stitch.crash /\ data = stitch.data
        BY <1>0, <1>2, <1>7, <3>2 DEF CInv, TInv, IsFile, DataOf
      <4> QED
        BY <1>2, <1>7, <3>2, <4>1 DEF Intact, CInv
    <3> QED
      BY <3>1, <3>2
  <2>2. mem' = Salvaged(data)
    BY <1>0, <1>1, <1>3, <2>1, LoadInStep
  <2> QED
    BY <1>3, <2>1, <2>2, SalvagedType
<1>8. PICK f : f = stitch'
  OBVIOUS
<1>9. /\ InStep(f.data) => Intact(f)
      /\ Applied(Salvaged(f.data), <<>>) = Salvaged(f.data)
      /\ \A V : Salvaged(f.data) \in V => Covered(f, <<>>, V)
  <2>1. IsFile(f) /\ f.crash = {f.data}
    BY <1>5, <1>6, <1>8
  <2> QED
    BY <2>1, SyncedCovered
<1>10. CInv'
  <2>1. /\ pc' \notin Compacting /\ Compacting' = Compacting
        /\ pc' \notin {"closeFile", "removeFile", "rename"}
    BY <1>2 DEF Compacting
  <2> QED
    BY <1>2, <1>5, <1>6, <1>7, <1>8, <1>9, <2>1 DEF CInv
<1>11. KInv'
  <2>1. ToSet(versions') = {mem'}
    BY <1>2 DEF ToSet
  <2>2. damaged' = {} => Sound
    BY <1>2 DEF Sound
  <2>3. damaged' = {} => Covered(f, <<>>, ToSet(versions'))
    BY <1>6, <1>7, <1>8, <1>9, <2>1, <2>2
  <2> QED
    BY <1>2, <1>6, <1>8, <2>3 DEF KInv
<1> QED
  BY <1>10, <1>11

LEMMA CommitContents ==
  ASSUME Plain, TInv, HInv, CInv, KInv, damaged \subseteq damaged', NEW ch \in Forwards, commitTx(ch)
  PROVE  CInv' /\ KInv'
<1>0. PICK buf, s : s = StmtsFor(ch) /\ buf = aofbuf \o s
  OBVIOUS
<1>1. s \in Seq(Stmts) /\ Len(s) > 0 /\ buf \in Seq(Stmts) /\ buf # <<>>
  <2>1. s \in Seq(Stmts) /\ Len(s) > 0 /\ aofbuf \in Seq(Stmts)
    BY <1>0, ForwardType DEF TInv
  <2>2. buf \in Seq(Stmts) /\ Len(buf) = Len(aofbuf) + Len(s)
    BY <1>0, <2>1, ConcatProperties
  <2> QED
    BY <2>1, <2>2
<1>2. /\ pc = "idle" /\ pc' \in {"idle", "commitSync"} /\ mem' = Put(mem, ch) /\ tmp' = tmp
      /\ \/ BufferWritten(buf) /\ aofbuf' = <<>>
         \/ WriteFails(buf, TRUE) /\ aofbuf' = buf
  BY <1>0 DEF commitTx, Commit, StmtsFor
<1>3. versions' = Grown(versions, s)
  <2>1. versions' = versions \o [i \in DOMAIN ch |-> Applied(Last(versions), SubSeq(s, 1, i))]
    BY <1>0 DEF commitTx, Commit, StmtsFor
  <2>2. DOMAIN ch = 1..Len(s)
    BY <1>0, ForwardType
  <2> QED
    BY <2>1, <2>2 DEF Grown
<1>4. /\ ToSet(versions) \subseteq ToSet(versions')
      /\ \A j \in 0..Len(s) : Applied(Last(versions), SubSeq(s, 1, j)) \in ToSet(versions')
  BY <1>0, <1>2, <1>3, VersionsGrow DEF TInv, HInv
<1>5. Last(versions) = Saved(mem)
  BY <1>2 DEF HInv
<1>6. ASSUME Sound'
      PROVE  /\ Sound
             /\ stitch = NoFile => stitch' = NoFile /\ aofbuf' = buf
             /\ stitch' # NoFile => Intact(stitch')
             /\ stitch' # NoFile /\ aofbuf' = <<>> /\ buf # <<>> => Len(stitch'.data) % 4 # 1
             /\ Holder' # NoFile /\ InStep(Holder'.data)
             /\ Applied(Salvaged(Holder'.data), aofbuf') = Applied(Salvaged(Holder.data), buf)
             /\ damaged' = {} => damaged = {}
             /\ damaged' = {} /\ Covered(Holder, buf, ToSet(versions'))
                  => Covered(Holder', aofbuf', ToSet(versions'))
  <2>1. pc # "down" /\ tmp' = tmp
    BY <1>2
  <2>2. \/ BufferWritten(buf) /\ aofbuf' = <<>>
        \/ WriteFails(buf, TRUE) /\ aofbuf' = buf
    BY <1>2
  <2> QED
    BY <1>1, <1>6, <2>1, <2>2, WriteContents
<1>7. ASSUME Sound
      PROVE  Applied(Salvaged(Holder.data), aofbuf) = Last(versions)
  BY <1>2, <1>5, <1>7 DEF CInv
<1>8. ASSUME Sound'
      PROVE  Applied(Salvaged(Holder'.data), aofbuf') = Saved(mem')
  <2>1. Sound
    BY <1>6, <1>8
  <2>2. aofbuf \in Seq(Stmts)
    BY DEF TInv
  <2>3. Applied(Salvaged(Holder.data), buf) = Applied(Applied(Salvaged(Holder.data), aofbuf), s)
    BY <1>0, <1>1, <2>2, AppliedConcat
  <2>4. Applied(Saved(mem), s) = Saved(mem')
    BY <1>0, <1>2, AppliedPut DEF TInv
  <2> QED
    BY <1>5, <1>6, <1>7, <1>8, <2>1, <2>3, <2>4
<1>9. CInv'
  <2>1. pc' \notin Compacting /\ Compacting' = Compacting
    BY <1>2 DEF Compacting
  <2>2. pc' \notin {"closeFile", "removeFile", "rename"}
    BY <1>2
  <2>3. ASSUME Sound', stitch' = NoFile
        PROVE  aofbuf' # <<>> /\ tmp'.crash = {tmp'.data}
    <3>1. Sound
      BY <1>6, <2>3
    <3>2. stitch = NoFile
      <4>1. BufferWritten(buf) \/ WriteFails(buf, TRUE)
        BY <1>2
      <4> QED
        BY <1>1, <2>3, <4>1, WriteTypes
    <3> QED
      BY <1>1, <1>2, <1>6, <2>3, <3>1, <3>2 DEF CInv
  <2> QED
    BY <1>1, <1>6, <1>8, <2>1, <2>2, <2>3 DEF CInv
<1>10. KInv'
  <2> SUFFICES ASSUME damaged' = {} PROVE Covered(Holder', aofbuf', ToSet(versions'))
    BY DEF KInv
  <2>1. damaged = {} /\ Sound /\ Sound'
    BY <1>6 DEF Sound
  <2>2. Covered(Holder, aofbuf, ToSet(versions))
    BY <1>2, <2>1 DEF KInv
  <2>3. Covered(Holder, buf, ToSet(versions'))
    <3>1. aofbuf \in Seq(Stmts)
      BY DEF TInv
    <3>2. PICK h, V, W : h = Holder /\ V = ToSet(versions) /\ W = ToSet(versions')
      OBVIOUS
    <3>3. \A j \in 0..Len(s) : Applied(Applied(Salvaged(h.data), aofbuf), SubSeq(s, 1, j)) \in W
      BY <1>4, <1>7, <2>1, <3>2
    <3>4. Covered(h, aofbuf \o s, W)
      BY <1>1, <1>4, <2>2, <3>1, <3>2, <3>3, CoveredGrow
    <3> QED
      BY <1>0, <3>2, <3>4
  <2> QED
    BY <1>6, <2>1, <2>3
<1> QED
  BY <1>9, <1>10

\* The manager drops the buffer when its write fails, which loses statements.
LEMMA FlushContents ==
  ASSUME Plain, TInv, HInv, CInv, KInv, damaged \subseteq damaged', managerFlush
  PROVE  CInv' /\ KInv'
<1>1. /\ pc = "idle" /\ pc' \in {"flushSync", "check"} /\ aofbuf' = <<>> /\ aofbuf # <<>>
      /\ UNCHANGED <<mem, tmp, versions>>
      /\ BufferWritten(aofbuf) \/ WriteFails(aofbuf, FALSE)
  BY DEF managerFlush
<1>2. /\ pc' \notin Compacting /\ Compacting' = Compacting /\ aofbuf \in Seq(Stmts)
      /\ pc' \notin {"closeFile", "removeFile", "rename"}
  BY <1>1 DEF Compacting, TInv
<1>3. WriteFails(aofbuf, FALSE) => "dropped" \in damaged'
  <2> SUFFICES ASSUME WriteFails(aofbuf, FALSE) PROVE "dropped" \in damaged'
    OBVIOUS
  <2>1. Harm(~FALSE, "dropped") = {"dropped"}
    BY DEF Harm
  <2> QED
    BY <2>1 DEF WriteFails
<1>4. ASSUME Sound'
      PROVE  /\ BufferWritten(aofbuf) /\ Sound /\ stitch' # NoFile
             /\ stitch' # NoFile => Intact(stitch')
             /\ Len(stitch'.data) % 4 # 1
             /\ Holder' # NoFile /\ InStep(Holder'.data)
             /\ Applied(Salvaged(Holder'.data), aofbuf') = Applied(Salvaged(Holder.data), aofbuf)
             /\ damaged' = {} => damaged = {}
             /\ damaged' = {} /\ Covered(Holder, aofbuf, ToSet(versions))
                  => Covered(Holder', aofbuf', ToSet(versions))
  <2>1. BufferWritten(aofbuf)
    <3>1. "dropped" \notin damaged'
      BY <1>4 DEF Sound
    <3> QED
      BY <1>1, <1>3, <3>1
  <2>2. stitch' # NoFile
    <3>1. stitch # NoFile
      BY <2>1 DEF BufferWritten, TInv
    <3> QED
      BY <1>2, <2>1, <3>1, WriteTypes
  <2>3. pc # "down" /\ tmp' = tmp
    BY <1>1
  <2>4. \/ BufferWritten(aofbuf) /\ aofbuf' = <<>>
        \/ WriteFails(aofbuf, TRUE) /\ aofbuf' = aofbuf
    BY <1>1, <2>1
  <2> QED
    BY <1>1, <1>2, <1>4, <2>1, <2>2, <2>3, <2>4, WriteContents
<1>5. CInv'
  <2>1. ASSUME Sound'
        PROVE  Applied(Salvaged(Holder'.data), aofbuf') = Saved(mem')
    BY <1>1, <1>4, <2>1 DEF CInv
  <2> QED
    BY <1>1, <1>2, <1>4, <2>1 DEF CInv
<1>6. KInv'
  <2>1. damaged' = {} => Sound'
    BY DEF Sound
  <2> QED
    BY <1>1, <1>4, <2>1 DEF KInv
<1> QED
  BY <1>5, <1>6

LEMMA SyncContents ==
  ASSUME Plain, TInv, HInv, CInv, KInv, commitSync \/ flushSync
  PROVE  CInv' /\ KInv'
<1>1. /\ pc \in {"commitSync", "flushSync"} /\ pc' \in {"idle", "check"}
      /\ FileSynced \/ SyncFails
      /\ UNCHANGED <<mem, aofbuf, tmp, damaged>>
  BY DEF commitSync, flushSync
<1>2. /\ pc' \notin Compacting /\ Compacting' = Compacting /\ pc # "down" /\ pc' # "down"
      /\ pc' \notin {"closeFile", "removeFile", "rename"} /\ aofbuf = <<>>
      /\ (Sound' <=> Sound)
  BY <1>1 DEF Compacting, HInv, Sound
<1>3. CASE SyncFails
  BY <1>1, <1>2, <1>3, StayContents DEF SyncFails
<1>4. CASE FileSynced
  <2>1. fd /\ stitch' = Synced(stitch) /\ versions' = <<Last(versions)>> /\ IsFile(stitch)
    BY <1>4 DEF FileSynced, TInv
  <2>2. IsFile(stitch') /\ stitch'.data = stitch.data /\ stitch'.crash = {stitch'.data}
    BY <2>1, SyncedType DEF IsFile, LogFiles
  <2>3. stitch # NoFile /\ stitch' # NoFile
    BY <2>1, <2>2, FileIsSome
  <2>4. Holder = stitch /\ Holder' = stitch'
    BY <2>3 DEF Holder
  <2>5. PICK f : f = stitch'
    OBVIOUS
  <2>6. /\ InStep(f.data) => Intact(f)
        /\ Applied(Salvaged(f.data), <<>>) = Salvaged(f.data)
        /\ \A V : Salvaged(f.data) \in V => Covered(f, <<>>, V)
    BY <2>2, <2>5, SyncedCovered
  <2>7. CInv'
    BY <1>1, <1>2, <2>2, <2>3, <2>4, <2>5, <2>6 DEF CInv
  <2>8. KInv'
    <3> SUFFICES ASSUME damaged' = {} PROVE Covered(stitch', aofbuf', ToSet(versions'))
      BY <2>4 DEF KInv
    <3>0. Sound
      BY <1>1 DEF Sound
    <3>1. Salvaged(f.data) = Last(versions)
      BY <1>1, <1>2, <2>2, <2>4, <2>5, <2>6, <3>0 DEF CInv, HInv
    <3>2. Last(versions) \in ToSet(versions')
      BY <2>1 DEF ToSet
    <3> QED
      BY <1>1, <1>2, <2>5, <2>6, <3>1, <3>2
  <2> QED
    BY <2>7, <2>8
<1> QED
  BY <1>1, <1>3, <1>4
\* The temporary file, empty or left by an earlier compaction, is written over.
LEMMA CompactWriteContents ==
  ASSUME Plain, TInv, HInv, CInv, KInv, compactWrite
  PROVE  CInv' /\ KInv'
<1>0. PICK old, stmts, u : old = DataOf(tmp) /\ stmts = CompactStmts /\ u = Units(stmts)
  OBVIOUS
<1>1. /\ pc \in {"check", "idle"} /\ aofbuf = <<>>
      /\ UNCHANGED <<mem, aofbuf, stitch, versions, damaged>>
      /\ \/ tmp' = Written(Opened(old), u, Cuts(4 * Len(stmts))) /\ pc' = "tmpSync"
         \/ pc' = "idle" /\ UNCHANGED tmp
  BY <1>0 DEF compactWrite, DataOf, HInv
<1>2. CASE pc' = "idle" /\ UNCHANGED tmp
  BY <1>1, <1>2, StayContents DEF Compacting
<1>3. CASE tmp' = Written(Opened(old), u, Cuts(4 * Len(stmts))) /\ pc' = "tmpSync"
  <2>1. stmts \in Seq(Stmts)
    BY <1>0, CompactType DEF TInv
  <2>2. u \in Seq(Contained) /\ Len(u) = 4 * Len(stmts) /\ 4 * Len(stmts) \in Nat
    BY <1>0, <2>1, UnitsType DEF Contained
  <2>3. old \in Seq(Contained) /\ Len(old) \in Nat
    BY <1>0, DataType DEF TInv
  <2>4. Len(tmp'.data) > 4 * Len(stmts) \/ tmp'.data = u
    BY <1>3, <2>2, <2>3, WrittenWithin
  <2>5. old = u => tmp'.data = u /\ tmp'.crash = {u}
    <3>1. PICK cuts : cuts = Cuts(4 * Len(stmts))
      OBVIOUS
    <3>2. cuts \in SUBSET (0..Len(u))
      BY <2>2, <3>1 DEF Cuts
    <3>3. Len(u) \in Nat
      BY <2>2
    <3> QED
      BY <1>3, <2>2, <2>3, <3>1, <3>2, <3>3, WrittenOver
  <2>6. tmp' # NoFile
    <3>1. TInv'
      BY CompactTypes DEF compactLog
    <3> QED
      BY <1>3, <3>1 DEF TInv, Compacting
  <2>7. /\ CompactStmts' = stmts /\ Units(CompactStmts)' = u /\ AllStmts' = AllStmts
        /\ Units(AllStmts)' = Units(AllStmts)
    BY <1>0, <1>1, CompactStays
  <2>8. pc # "down" /\ Compacting' = Compacting /\ (Sound' <=> Sound)
    BY <1>1 DEF Compacting, Sound
  <2>9. CASE stitch # NoFile
    <3>1. Holder' = stitch /\ Holder = stitch /\ stitch' # NoFile
      BY <1>1, <2>9 DEF Holder
    <3>2. CInv'
      BY <1>1, <1>3, <2>4, <2>7, <2>8, <2>9, <3>1 DEF CInv
    <3>3. KInv'
      BY <1>1, <1>3, <2>8, <3>1 DEF KInv
    <3> QED
      BY <3>2, <3>3
  <2>10. CASE stitch = NoFile
    <3>1. Holder' = tmp' /\ Holder = tmp /\ stitch' = NoFile
      BY <1>1, <2>10 DEF Holder
    <3>2. ASSUME Sound
          PROVE  /\ tmp.data = u /\ tmp.crash = {u} /\ tmp'.data = u /\ tmp'.crash = {u}
                 /\ stmts = AllStmts
      <4>1. tmp # NoFile /\ tmp.data = u /\ tmp.crash = {tmp.data} /\ stmts = AllStmts
        BY <1>0, <1>1, <2>8, <2>10, <3>1, <3>2 DEF CInv
      <4>2. old = u
        BY <1>0, <4>1 DEF DataOf
      <4> QED
        BY <2>5, <4>1, <4>2
    <3>3. CInv'
      <4>1. ASSUME Sound
            PROVE  InStep(tmp'.data) /\ Applied(Salvaged(tmp'.data), aofbuf') = Saved(mem')
        BY <1>1, <2>8, <3>1, <3>2, <4>1 DEF CInv
      <4>2. ASSUME Sound
            PROVE  /\ tmp'.crash = {tmp'.data}
                   /\ CompactStmts' = AllStmts' /\ tmp'.data = Units(AllStmts)'
        BY <1>0, <2>7, <3>2, <4>2
      <4> QED
        BY <1>1, <1>3, <2>4, <2>6, <2>7, <2>8, <3>1, <4>1, <4>2 DEF CInv
    <3>4. KInv'
      <4> SUFFICES ASSUME damaged' = {} PROVE Covered(tmp', aofbuf', ToSet(versions'))
        BY <3>1 DEF KInv
      <4>1. damaged = {} /\ Sound
        BY <1>1 DEF Sound
      <4>2. Covered(tmp, aofbuf, ToSet(versions))
        BY <2>8, <3>1, <4>1 DEF KInv
      <4> QED
        BY <1>1, <3>2, <4>1, <4>2 DEF Covered
    <3> QED
      BY <3>3, <3>4
  <2> QED
    BY <2>9, <2>10
<1> QED
  BY <1>1, <1>2, <1>3

LEMMA CompactSyncContents ==
  ASSUME Plain, TInv, HInv, CInv, KInv, compactSync
  PROVE  CInv' /\ KInv'
<1>1. /\ pc = "tmpSync" /\ UNCHANGED <<mem, aofbuf, stitch, versions, damaged>>
      /\ \/ pc' = "closeFile" /\ tmp' = Synced(tmp)
         \/ pc' = "idle" /\ tmp' = tmp
  BY DEF compactSync, Step
<1>2. CASE pc' = "idle" /\ tmp' = tmp
  BY <1>1, <1>2, StayContents DEF Compacting
<1>3. CASE pc' = "closeFile" /\ tmp' = Synced(tmp)
  <2>1. IsFile(tmp)
    BY <1>1 DEF TInv, Compacting
  <2>2. /\ IsFile(tmp') /\ tmp'.data = tmp.data /\ tmp'.crash = {tmp.data} /\ tmp' # NoFile
        /\ tmp.data \in tmp.crash
    BY <1>3, <2>1, SyncedType, FileIsSome DEF IsFile, LogFiles
  <2>3. CompactStmts' = CompactStmts /\ AllStmts' = AllStmts /\ pc \in Compacting
        /\ Compacting' = Compacting /\ (Sound' <=> Sound)
    BY <1>1, CompactStays DEF Compacting, Sound
  <2>4. Holder'.data = Holder.data /\ Holder'.crash \subseteq Holder.crash
        /\ (Holder # NoFile => Holder' # NoFile)
    BY <1>1, <2>2 DEF Holder
  <2>5. CInv'
    BY <1>1, <1>3, <2>2, <2>3, <2>4 DEF CInv
  <2>6. KInv'
    BY <1>1, <1>3, <2>4 DEF KInv, Covered
  <2> QED
    BY <2>5, <2>6
<1> QED
  BY <1>1, <1>2, <1>3

\* From the synced temporary file on, the contents are in either file, or a harm is in
\* the history.
LEMMA SwapContents ==
  ASSUME Plain, TInv, HInv, CInv, KInv, damaged \subseteq damaged',
         compactClose \/ compactRemove \/ compactRename
  PROVE  CInv' /\ KInv'
<1>1. /\ pc \in {"closeFile", "removeFile", "rename"}
      /\ UNCHANGED <<mem, aofbuf>> /\ aofbuf = <<>>
      /\ pc \in Compacting /\ pc # "down" /\ Compacting' = Compacting
      /\ pc' \in {"removeFile", "rename", "reopen", "idle"}
      /\ Sound' => Sound
  BY DEF compactClose, compactRemove, compactRename, Step, HInv, Compacting, Sound
<1>2. IsFile(tmp) /\ tmp # NoFile
  BY <1>1 DEF TInv
<1>3. ASSUME Sound, tmp.data = Units(AllStmts)
      PROVE  /\ tmp.crash = {tmp.data} /\ InStep(tmp.data) /\ Len(tmp.data) % 4 # 1
             /\ Salvaged(tmp.data) = Saved(mem) /\ Intact(tmp)
             /\ Applied(Salvaged(tmp.data), <<>>) = Saved(mem)
             /\ \A V : Saved(mem) \in V => Covered(tmp, <<>>, V)
  <2>1. tmp.crash = {tmp.data}
    BY <1>1, <1>3 DEF CInv
  <2>2. InStep(tmp.data) /\ Len(tmp.data) % 4 # 1 /\ Salvaged(tmp.data) = Saved(mem)
    BY <1>3, CompactedHolds
  <2> QED
    BY <1>2, <2>1, <2>2, SyncedCovered
<1>4. CompactStmts' = CompactStmts /\ AllStmts' = AllStmts /\ Units(AllStmts)' = Units(AllStmts)
  BY <1>1, CompactStays
<1>5. CASE UNCHANGED <<stitch, tmp, versions, damaged>> /\ pc' \in {"removeFile", "idle"}
  <2>1. /\ pc' # "down" /\ pc' # "rename" /\ (pc' \in Compacting => pc \in Compacting)
    BY <1>1, <1>5
  <2> QED
    BY <1>1, <1>5, <2>1, StayContents
<1>6. CASE compactRemove /\ pc' = "rename"
  <2>0. /\ stitch' = NoFile /\ UNCHANGED <<tmp, versions>>
        /\ damaged' = damaged \cup Harm(CompactStmts # AllStmts, "remainder")
                              \cup Harm(Len(tmp.data) > 4 * Len(CompactStmts), "leftover")
    BY <1>6 DEF compactRemove, Step
  <2>1. Holder' = tmp
    BY <2>0 DEF Holder
  <2>2. ASSUME Sound'
        PROVE  Sound /\ CompactStmts = AllStmts /\ tmp.data = Units(AllStmts)
    <3>1. Harm(CompactStmts # AllStmts, "remainder") \subseteq damaged'
      BY <2>0
    <3>2. Harm(Len(tmp.data) > 4 * Len(CompactStmts), "leftover") \subseteq damaged'
      BY <2>0
    <3>3. "remainder" \notin damaged' /\ "leftover" \notin damaged'
      BY <2>2 DEF Sound
    <3>4. CompactStmts = AllStmts /\ ~(Len(tmp.data) > 4 * Len(CompactStmts))
      BY <3>1, <3>2, <3>3, HarmIs
    <3> QED
      BY <1>1, <2>2, <3>4 DEF CInv
  <2>3. CInv'
    <3> SUFFICES ASSUME Sound' PROVE CInv'
      BY DEF CInv
    <3>1. /\ tmp'.data = Units(CompactStmts)' /\ tmp'.crash = {tmp'.data}
          /\ CompactStmts' = AllStmts' /\ tmp'.data = Units(AllStmts)'
      BY <1>3, <1>4, <2>0, <2>2
    <3>2. /\ Holder' # NoFile /\ InStep(Holder'.data)
          /\ Applied(Salvaged(Holder'.data), aofbuf') = Saved(mem')
      BY <1>1, <1>2, <1>3, <2>1, <2>2
    <3> QED
      BY <2>0, <3>1, <3>2 DEF CInv
  <2>4. Saved(mem) \in ToSet(versions)
    BY <1>1, LastVersion DEF HInv
  <2>5. KInv'
    <3>1. damaged' = {} => Sound'
      BY DEF Sound
    <3> QED
      BY <1>1, <1>3, <2>0, <2>1, <2>2, <2>4, <3>1 DEF KInv
  <2> QED
    BY <2>3, <2>5
<1>7. CASE compactRename /\ pc' = "reopen"
  <2>0. /\ pc = "rename" /\ stitch' = tmp /\ tmp' = NoFile /\ versions' = <<Saved(mem)>>
        /\ damaged' = damaged /\ (Sound' <=> Sound)
    BY <1>7 DEF compactRename, Step, Sound
  <2>1. Holder' = tmp
    BY <1>2, <2>0 DEF Holder
  <2>2. Sound => tmp.data = Units(AllStmts)
    BY <1>1, <2>0 DEF CInv
  <2>3. CInv'
    BY <1>1, <1>2, <1>3, <1>7, <2>0, <2>1, <2>2 DEF CInv, Compacting
  <2>4. Saved(mem) \in ToSet(versions')
    BY <2>0 DEF ToSet
  <2>5. KInv'
    <3>1. damaged' = {} => Sound
      BY <2>0 DEF Sound
    <3> QED
      BY <1>1, <1>3, <2>1, <2>2, <2>4, <3>1 DEF KInv
  <2> QED
    BY <2>3, <2>5
<1>8. CASE compactRename /\ pc' = "idle"
  BY <1>5, <1>8 DEF compactRename, Step
<1>9. CASE compactRemove /\ pc' = "idle"
  BY <1>5, <1>9 DEF compactRemove, Step
<1>10. CASE compactClose
  BY <1>5, <1>10 DEF compactClose, Step
<1> QED
  BY <1>6, <1>7, <1>8, <1>9, <1>10 DEF compactRemove, compactRename, Step

LEMMA ReopenContents ==
  ASSUME Plain, TInv, HInv, CInv, KInv, compactReopen
  PROVE  CInv' /\ KInv'
<1>1. /\ pc = "reopen" /\ pc' = "idle" /\ UNCHANGED <<mem, aofbuf, damaged, tmp, versions>>
      /\ stitch' = [stitch EXCEPT !.off = 0] \/ stitch' = stitch
      /\ (Sound' <=> Sound)
  BY DEF compactReopen, Step, Sound
<1>2. stitch # NoFile /\ IsFile(stitch)
  BY <1>1 DEF TInv
<1>3. stitch'.data = stitch.data /\ stitch'.crash = stitch.crash
  BY <1>1, <1>2 DEF IsFile, LogFiles, FilesOf
<1>4. stitch' # NoFile
  <2>1. IsFile([stitch EXCEPT !.off = 0])
    BY <1>2 DEF IsFile, LogFiles, FilesOf
  <2> QED
    BY <1>1, <1>2, <2>1, FileIsSome
<1>5. Holder = stitch /\ Holder' = stitch'
  BY <1>2, <1>4 DEF Holder
<1>6. CInv'
  BY <1>1, <1>2, <1>3, <1>4, <1>5 DEF CInv, Compacting, Intact
<1>7. KInv'
  BY <1>1, <1>3, <1>5 DEF KInv, Covered
<1> QED
  BY <1>6, <1>7
LEMMA CloseContents ==
  ASSUME Plain, TInv, HInv, CInv, KInv, damaged \subseteq damaged', close \/ closeSync
  PROVE  CInv' /\ KInv'
<1>1. CASE close
  <2>1. /\ pc = "idle" /\ pc' \in {"closeSync", "idle"} /\ UNCHANGED <<mem, tmp, versions>>
        /\ \/ UNCHANGED <<aofbuf, stitch, damaged>>
           \/ aofbuf # <<>> /\ BufferWritten(aofbuf) /\ aofbuf' = <<>>
           \/ aofbuf # <<>> /\ WriteFails(aofbuf, TRUE) /\ aofbuf' = aofbuf
    <3>1. CASE aofbuf = <<>>
      BY <1>1, <3>1 DEF close
    <3>2. CASE aofbuf # <<>>
      BY <1>1, <3>2 DEF close
    <3> QED
      BY <3>1, <3>2
  <2>2. /\ pc # "down" /\ pc' # "down" /\ pc' \notin Compacting /\ Compacting' = Compacting
        /\ pc' \notin {"closeFile", "removeFile", "rename"} /\ aofbuf \in Seq(Stmts)
    BY <2>1 DEF Compacting, TInv
  <2>3. CASE UNCHANGED <<aofbuf, stitch, damaged>>
    BY <2>1, <2>2, <2>3, StayContents
  <2>4. CASE /\ aofbuf # <<>>
             /\ \/ BufferWritten(aofbuf) /\ aofbuf' = <<>>
                \/ WriteFails(aofbuf, TRUE) /\ aofbuf' = aofbuf
    <3>1. ASSUME Sound'
          PROVE  /\ Sound
                 /\ stitch = NoFile => stitch' = NoFile /\ aofbuf' = aofbuf
                 /\ stitch' # NoFile => Intact(stitch')
                 /\ stitch' # NoFile /\ aofbuf' = <<>> => Len(stitch'.data) % 4 # 1
                 /\ Holder' # NoFile /\ InStep(Holder'.data)
                 /\ Applied(Salvaged(Holder'.data), aofbuf') = Applied(Salvaged(Holder.data), aofbuf)
                 /\ damaged' = {} => damaged = {}
                 /\ damaged' = {} /\ Covered(Holder, aofbuf, ToSet(versions))
                      => Covered(Holder', aofbuf', ToSet(versions))
      <4>1. pc # "down" /\ tmp' = tmp
        BY <2>1
      <4> QED
        BY <2>2, <2>4, <3>1, <4>1, WriteContents
    <3>2. stitch' = NoFile => stitch = NoFile
      <4>1. BufferWritten(aofbuf) \/ WriteFails(aofbuf, TRUE)
        BY <2>4
      <4> QED
        BY <2>2, <4>1, WriteTypes
    <3>3. ASSUME Sound'
          PROVE  Applied(Salvaged(Holder'.data), aofbuf') = Saved(mem')
      BY <2>1, <2>2, <3>1, <3>3 DEF CInv
    <3>4. ASSUME Sound', stitch' = NoFile
          PROVE  tmp'.crash = {tmp'.data} /\ aofbuf' # <<>>
      BY <2>1, <2>2, <2>4, <3>1, <3>2, <3>4 DEF CInv
    <3>5. CInv'
      BY <2>1, <2>2, <3>1, <3>3, <3>4 DEF CInv
    <3>6. KInv'
      <4>1. damaged' = {} => Sound'
        BY DEF Sound
      <4> QED
        BY <2>1, <2>2, <3>1, <4>1 DEF KInv
    <3> QED
      BY <3>5, <3>6
  <2> QED
    BY <2>1, <2>3, <2>4
<1>2. CASE closeSync
  <2>1. /\ pc = "closeSync" /\ UNCHANGED <<aofbuf, tmp, damaged>>
        /\ \/ pc' = "down" /\ fd /\ stitch' = Synced(stitch)
           \/ pc' = "idle" /\ UNCHANGED <<stitch, versions, mem>>
        /\ (Sound' <=> Sound)
    BY <1>2 DEF closeSync, SyncFails, Sound
  <2>2. CASE pc' = "idle" /\ UNCHANGED <<stitch, versions, mem>>
    BY <2>1, <2>2, StayContents DEF Compacting
  <2>3. CASE pc' = "down" /\ fd /\ stitch' = Synced(stitch)
    <3>1. IsFile(stitch)
      BY <2>3 DEF TInv
    <3>2. stitch'.crash = {stitch.data} /\ stitch'.data = stitch.data
          /\ stitch.data \in stitch.crash /\ stitch # NoFile
      BY <2>3, <3>1, SyncedType, FileIsSome DEF IsFile, LogFiles
    <3> QED
      BY <2>1, <2>3, <3>2 DEF CInv, KInv, Compacting, Intact
  <2> QED
    BY <2>1, <2>2, <2>3
<1> QED
  BY <1>1, <1>2

\* What a crash leaves of an unharmed log.
LEMMA CrashLeaves ==
  ASSUME TInv, CInv, Sound, Crash, "length" \notin damaged', stitch # NoFile
  PROVE  \E d \in stitch.crash : /\ stitch' = Opened(d) /\ stitch' # NoFile
                                 /\ InStep(d) /\ Len(d) % 4 # 1 /\ d \in Seq(Contained)
<1>1. stitch' \in CrashContents(stitch) /\ Harm(CutLength(stitch'), "length") \subseteq damaged'
  BY DEF Crash
<1>2. PICK d \in stitch.crash : stitch' = Opened(d)
  BY <1>1 DEF CrashContents
<1>3. InStep(d) /\ d \in Seq(Contained)
  BY DEF TInv, CInv, Intact, IsFile, LogFiles, FilesOf
<1>4. Opened(d).data = d /\ Opened(d) # NoFile
  <2>1. IsFile(Opened(d))
    BY <1>3, OpenedType DEF IsFile, LogFiles
  <2> QED
    BY <2>1, FileIsSome DEF Opened
<1>5. ~CutLength(stitch')
  BY <1>1, HarmIs
<1>6. Len(d) % 4 # 1
  BY <1>2, <1>4, <1>5 DEF CutLength
<1> QED
  BY <1>2, <1>3, <1>4, <1>6

LEMMA CrashStays ==
  ASSUME TInv, CInv, damaged \subseteq damaged', Crash
  PROVE  CInv' /\ KInv'
<1>1. /\ pc' = "down" /\ stitch' \in CrashContents(stitch)
  BY DEF Crash
<1>2. ASSUME Sound', stitch' # NoFile PROVE Intact(stitch') /\ Len(stitch'.data) % 4 # 1
  <2>1. stitch # NoFile
    BY <1>1, <1>2 DEF CrashContents
  <2>2. "length" \notin damaged' /\ Sound
    BY <1>2 DEF Sound
  <2>3. PICK d \in stitch.crash : stitch' = Opened(d) /\ InStep(d) /\ Len(d) % 4 # 1
    BY <2>1, <2>2, CrashLeaves
  <2>4. stitch'.crash = {d} /\ stitch'.data = d
    BY <2>3 DEF Opened
  <2> QED
    BY <2>3, <2>4 DEF Intact
<1> QED
  BY <1>1, <1>2 DEF CInv, KInv, Compacting

LEMMA NextContents ==
  Plain /\ TInv /\ HInv /\ CInv /\ KInv /\ [Next]_vars => CInv' /\ KInv'
<1> SUFFICES ASSUME Plain, TInv, HInv, CInv, KInv, [Next]_vars PROVE CInv' /\ KInv'
  OBVIOUS
<1>0. damaged \subseteq damaged'
  BY HarmsStay
<1>1. ASSUME NEW n \in 1..Len(KeyOrder), rollbackTx(n) PROVE CInv' /\ KInv'
  BY <1>1, StayContents DEF rollbackTx
<1>2. CASE noCompaction
  BY <1>2, StayContents DEF noCompaction, Compacting
<1>3. CASE UNCHANGED vars
  <2>1. CASE pc = "down"
    BY <1>3, <2>1 DEF vars, CInv, KInv, Compacting, Intact, Sound
  <2>2. CASE pc # "down"
    BY <1>3, <2>2, StayContents DEF vars
  <2> QED
    BY <2>1, <2>2
<1> QED
  BY <1>0, <1>1, <1>2, <1>3, OpenContents, CommitContents, FlushContents, SyncContents,
     CompactWriteContents, CompactSyncContents, SwapContents, ReopenContents, CloseContents,
     CrashStays DEF Next, compactLog

-----------------------------------------------------------------------------
(* What the log keeps *)

LInv == TInv /\ HInv /\ CInv /\ KInv

LEMMA InitLog == Plain /\ Init => LInv
  BY InitTypes, InitHistory, InitContents DEF LInv

LEMMA NextLog == Plain /\ LInv /\ [Next]_vars => LInv'
  BY NextTypes, NextHistory, NextContents DEF LInv

\* At rest, with the file open and the buffer, if there is one, at the end of whole
\* statements, the file and the buffer make what the bucket holds.
LEMMA BufferAfterFile ==
  ASSUME Plain, LInv, Sound, Appends
  PROVE  Salvaged(stitch.data \o Units(aofbuf)) = Saved(mem)
<1>1. IsFile(stitch) /\ stitch # NoFile /\ Holder = stitch
  BY FileIsSome DEF LInv, TInv, Holder, Appends
<1>2. InStep(stitch.data) /\ Applied(Salvaged(stitch.data), aofbuf) = Saved(mem)
  BY <1>1 DEF LInv, CInv, Appends
<1>3. stitch.data \in Seq(Contained) /\ aofbuf \in Seq(Stmts)
  BY <1>1 DEF LInv, TInv, IsFile, LogFiles, FilesOf
<1>4. CASE aofbuf = <<>>
  <2>1. Units(<<>>) \in Seq(Contained) /\ Len(Units(<<>>)) = 0
    <3>1. <<>> \in Seq(Stmts) /\ Len(<<>>) = 0
      OBVIOUS
    <3>2. Units(<<>>) \in Seq(Contained) /\ Len(Units(<<>>)) = 4 * Len(<<>>)
      BY <3>1, UnitsType DEF Contained
    <3> QED
      BY <3>1, <3>2
  <2>2. Units(<<>>) = <<>>
    BY <2>1
  <2>3. stitch.data \o <<>> = stitch.data
    BY <1>3, ConcatEmptySeq
  <2>4. Salvaged(stitch.data) \in Maps
    BY <1>3, SalvagedType
  <2>5. Applied(Salvaged(stitch.data), <<>>) = Salvaged(stitch.data)
    BY <2>4, AppliedNone
  <2> QED
    BY <1>2, <1>4, <2>2, <2>3, <2>5
<1>5. CASE aofbuf # <<>>
  <2>1. Clean(stitch.data)
    BY <1>2, <1>5 DEF Appends, IsCut, Clean
  <2> QED
    BY <1>2, <1>3, <2>1, SalvagedAfter
<1> QED
  BY <1>4, <1>5

\* Whenever commitTx, the manager, close and compactLog are done, the append only file
\* and the write buffer after it are what the primary tree is restored from: for any
\* number of statements to a write of a compaction, through restarts on a log whose end
\* is cut, and after compactions, up to the first of Harms but "twice".
THEOREM FileAndBuffer == ASSUME Plain PROVE Spec => []LogPlusBuffer
<1>1. LInv => LogPlusBuffer
  BY BufferAfterFile DEF LogPlusBuffer, Sound
<1> QED
  BY <1>1, InitLog, NextLog, PTL DEF Spec

\* While a process runs, compactLog included, a crash leaves a file whose statements give
\* what was synced and a beginning of what was committed since, up to the first of Harms.
THEOREM AlwaysACopy == ASSUME Plain PROVE Spec => []KeepsCopy
<1>1. LInv => KeepsCopy
  BY DEF LInv, KInv, Covered, Holder, KeepsCopy
<1> QED
  BY <1>1, InitLog, NextLog, PTL DEF Spec

\* No load gives an entry a later deadline than its transaction, or one that is a second
\* or more before it, up to the first of Harms but "twice".
THEOREM DeadlinesKept == ASSUME Plain PROVE Spec => []NeverProlonged
<1>1. LInv => NeverProlonged
  <2> SUFFICES ASSUME LInv, Sound, Appends, NEW k \in Keys, mem[k] # Nil
               PROVE  LET c == Salvaged(stitch.data \o Units(aofbuf))
                      IN  /\ c[k].opts.expTime \in (mem[k].opts.expTime - Second + 1)..mem[k].opts.expTime
                          /\ c[k].opts.invTime \in (mem[k].opts.invTime - Second + 1)..mem[k].opts.invTime
    BY DEF NeverProlonged, Sound
  <2>1. Salvaged(stitch.data \o Units(aofbuf)) = Saved(mem)
    BY BufferAfterFile
  <2>2. Saved(mem)[k] = Stored(mem[k])
    BY DEF Saved
  <2>3. mem[k] \in PlainEntries
    BY DEF LInv, TInv, Maps, Held
  <2> QED
    BY <2>1, <2>2, <2>3, DeadlinesNeverLater
<1> QED
  BY <1>1, InitLog, NextLog, PTL DEF Spec

\* What the next process reads of a file of lines.
LEMMA RecoveredInStep ==
  ASSUME Plain, NEW f, IsFile(f), InStep(f.data), Len(f.data) % 4 # 1
  PROVE  Recovered(f) = Salvaged(f.data)
<1>1. f.data \in Seq(Contained) /\ DataOf(f) = f.data
  BY FileIsSome DEF IsFile, LogFiles, FilesOf, DataOf
<1> QED
  BY <1>1, RecoveredRead, LoadInStep

\* A step that no harm comes with is one of the durable map, or none that it sees.
LEMMA StepDurable ==
  ASSUME Plain, LInv, [Next]_vars
  PROVE  [DM!Next]_(DM!vars)
<1>0. /\ TInv /\ HInv /\ CInv /\ KInv
      /\ versions \in Seq(Maps) /\ Len(versions) \in Nat /\ Len(versions) > 0
      /\ Last(versions) = versions[Len(versions)]
      /\ pc # "down" => Last(versions) = Saved(mem)
  <2>1. versions \in Seq(Maps) /\ Len(versions) > 0
    BY DEF LInv, HInv
  <2>2. Len(versions) \in Nat
    BY <2>1
  <2> QED
    BY <2>1, <2>2 DEF LInv, HInv, Last
<1>b. CASE damaged' # {}
  BY <1>b DEF DM!Next, DM!Breaks
<1> SUFFICES ASSUME damaged' = {} PROVE [DM!Next]_(DM!vars)
  BY <1>b
<1>k. damaged = {} /\ ~(damaged # {}) /\ (damaged # {})' = (damaged # {}) /\ Sound
  <2>1. damaged = {}
    BY HarmsStay
  <2> QED
    BY <2>1 DEF Sound
<1>u. ASSUME UNCHANGED versions, pc # "down", pc' # "down" PROVE [DM!Next]_(DM!vars)
  BY <1>k, <1>u DEF DM!vars
<1>s. ASSUME versions' = <<Last(versions)>>, pc # "down", pc' # "down" PROVE [DM!Next]_(DM!vars)
  BY <1>0, <1>k, <1>s DEF DM!Next, DM!Kept, DM!Sync
<1>1. CASE openBucket
  <2>0. PICK data, r : data = DataOf(stitch) /\ r = ReadFrom(data)
    OBVIOUS
  <2>1. /\ pc = "down" /\ pc' = "idle" /\ versions' = <<mem'>>
        /\ \E n \in Counts(r) : mem' = Contents(r.stmts, n)
    BY <1>1, <2>0 DEF openBucket, DataOf
  <2>2. data \in Seq(Contained) /\ InStep(data) /\ Len(data) % 4 # 1
    <3>1. CASE stitch = NoFile
      <4>1. Len(data) = 0 /\ InStep(data) /\ data \in Seq(Contained)
        BY <2>0, <3>1, EmptyLog DEF DataOf, Clean
      <4> QED
        BY <4>1
    <3>2. CASE stitch # NoFile
      <4>1. IsFile(stitch) /\ Intact(stitch) /\ aofbuf = <<>>
        BY <1>0, <1>k, <2>1, <3>2 DEF TInv, HInv, CInv
      <4>2. data = stitch.data /\ data \in stitch.crash /\ data \in Seq(Contained)
        BY <2>0, <3>2, <4>1 DEF DataOf, IsFile, LogFiles, FilesOf
      <4> QED
        BY <1>0, <1>k, <3>2, <4>1, <4>2 DEF Intact, CInv
    <3> QED
      BY <3>1, <3>2
  <2>3. mem' = Salvaged(data)
    BY <2>0, <2>1, <2>2, LoadInStep
  <2>4. versions = <<Recovered(stitch)>> /\ Recovered(stitch) = Salvaged(data)
    <3>1. stitch = NoFile \/ IsFile(stitch)
      BY <1>0 DEF TInv
    <3>2. \E n \in Counts(r) : Recovered(stitch) = Contents(r.stmts, n)
      BY <2>0, <3>1, RecoveredRead
    <3>3. Recovered(stitch) = Salvaged(data)
      BY <2>0, <2>2, <3>2, LoadInStep
    <3> QED
      BY <1>0, <2>1, <3>3 DEF HInv
  <2> QED
    BY <1>k, <2>1, <2>3, <2>4 DEF DM!Next, DM!Kept, DM!Open
<1>2. ASSUME NEW ch \in Forwards, commitTx(ch) PROVE [DM!Next]_(DM!vars)
  <2>0. PICK s : s = StmtsFor(ch)
    OBVIOUS
  <2>1. pc = "idle" /\ pc' \in {"idle", "commitSync"}
    BY <1>2 DEF commitTx, Commit
  <2>2. versions' = Grown(versions, s)
    <3>1. versions' = versions \o [i \in DOMAIN ch |-> Applied(Last(versions), SubSeq(s, 1, i))]
      BY <1>2, <2>0 DEF commitTx, Commit, StmtsFor
    <3>2. DOMAIN ch = 1..Len(s)
      <4>1. DOMAIN ch = 1..Len(StmtsFor(ch))
        BY ForwardType
      <4> QED
        BY <2>0, <4>1
    <3> QED
      BY <3>1, <3>2 DEF Grown
  <2>3. Len(versions') > Len(versions) /\ SubSeq(versions', 1, Len(versions)) = versions
    BY <1>0, <2>0, <2>1, <2>2, VersionsGrow DEF TInv
  <2> QED
    BY <1>k, <2>1, <2>3 DEF DM!Next, DM!Kept, DM!Commit
<1>3. CASE commitSync \/ flushSync
  <2>1. /\ pc # "down" /\ pc' # "down"
        /\ versions' = <<Last(versions)>> \/ UNCHANGED versions
    BY <1>3 DEF commitSync, flushSync, FileSynced, SyncFails
  <2> QED
    BY <1>u, <1>s, <2>1
<1>4. ASSUME NEW n \in 1..Len(KeyOrder), rollbackTx(n) PROVE [DM!Next]_(DM!vars)
  BY <1>4, <1>u DEF rollbackTx
<1>5. CASE managerFlush \/ noCompaction \/ close
  BY <1>5, <1>u DEF managerFlush, noCompaction, close
<1>6. CASE compactLog
  <2>1. CASE compactRename
    <3>1. /\ pc # "down" /\ pc' # "down"
          /\ versions' = <<Saved(mem)>> \/ UNCHANGED versions
      BY <2>1 DEF compactRename, Step
    <3> QED
      BY <1>0, <1>u, <1>s, <3>1
  <2>2. CASE compactWrite \/ compactSync \/ compactClose \/ compactRemove \/ compactReopen
    BY <1>u, <2>2 DEF compactWrite, compactSync, compactClose, compactRemove, compactReopen, Step
  <2> QED
    BY <1>6, <2>1, <2>2 DEF compactLog
<1>7. CASE closeSync
  <2>1. CASE pc' = "idle" /\ UNCHANGED versions
    BY <1>7, <1>u, <2>1 DEF closeSync
  <2>2. CASE fd /\ stitch' = Synced(stitch) /\ pc' = "down" /\ versions' = <<Recovered(stitch')>>
    <3>1. IsFile(stitch) /\ stitch # NoFile /\ Holder = stitch /\ pc = "closeSync"
      BY <1>0, <1>7, <2>2, FileIsSome DEF TInv, Holder, closeSync
    <3>2. aofbuf = <<>> /\ stitch.data \in Seq(Contained)
      BY <1>0, <3>1 DEF HInv, IsFile, LogFiles, FilesOf
    <3>3. /\ InStep(stitch.data) /\ Len(stitch.data) % 4 # 1
          /\ Salvaged(stitch.data) = Saved(mem)
      <4>1. /\ InStep(stitch.data) /\ Len(stitch.data) % 4 # 1
            /\ Applied(Salvaged(stitch.data), aofbuf) = Saved(mem)
        BY <1>0, <1>k, <3>1, <3>2 DEF CInv
      <4>2. Salvaged(stitch.data) \in Maps
        BY <3>2, SalvagedType
      <4> QED
        BY <3>2, <4>1, <4>2, AppliedNone
    <3>4. IsFile(stitch') /\ stitch'.data = stitch.data
      <4>1. stitch' \in LogFiles /\ stitch'.data = stitch.data /\ stitch'.off = stitch.off
            /\ stitch'.crash = {stitch.data}
        BY <2>2, <3>1, SyncedType DEF IsFile, LogFiles
      <4> QED
        BY <3>1, <4>1 DEF IsFile
    <3>5. Recovered(stitch') = Salvaged(stitch.data)
      <4>1. PICK f : f = stitch'
        OBVIOUS
      <4>2. IsFile(f) /\ f.data = stitch.data
        BY <3>4, <4>1
      <4>3. Recovered(f) = Salvaged(f.data)
        BY <3>3, <4>2, RecoveredInStep
      <4> QED
        BY <4>1, <4>2, <4>3
    <3> QED
      BY <1>0, <1>k, <2>2, <3>1, <3>3, <3>5 DEF DM!Next, DM!Kept, DM!Close
  <2> QED
    BY <1>7, <2>1, <2>2 DEF closeSync, SyncFails
<1>8. CASE Crash
  <2>1. /\ pc # "down" /\ pc' = "down" /\ versions' = <<Recovered(stitch')>>
        /\ Harm(stitch = NoFile, "no file") \subseteq damaged'
    BY <1>8 DEF Crash
  <2>2. stitch # NoFile /\ Holder = stitch
    BY <2>1, HarmIs DEF Holder
  <2>3. PICK d \in stitch.crash : /\ stitch' = Opened(d) /\ InStep(d) /\ Len(d) % 4 # 1
                                  /\ d \in Seq(Contained)
    <3>1. "length" \notin damaged'
      OBVIOUS
    <3> QED
      BY <1>0, <1>8, <1>k, <2>2, <3>1, CrashLeaves
  <2>4. Recovered(stitch') = Salvaged(d)
    <3>1. IsFile(Opened(d)) /\ Opened(d).data = d
      BY <2>3, OpenedType DEF IsFile, LogFiles, Opened
    <3>2. PICK f : f = Opened(d)
      OBVIOUS
    <3>3. Recovered(f) = Salvaged(d)
      BY <2>3, <3>1, <3>2, RecoveredInStep
    <3> QED
      BY <2>3, <3>2, <3>3
  <2>5. Salvaged(d) \in ToSet(versions)
    BY <1>0, <1>k, <2>1, <2>2, <2>3 DEF KInv, Covered
  <2>6. \E i \in 1..Len(versions) : Salvaged(d) = versions[i]
    <3>1. DOMAIN versions = 1..Len(versions)
      BY <1>0
    <3> QED
      BY <2>5, <3>1 DEF ToSet
  <2> QED
    BY <1>k, <2>1, <2>4, <2>6 DEF DM!Next, DM!Kept, DM!Crash
<1>9. CASE UNCHANGED vars
  BY <1>9 DEF vars, DM!vars
<1> QED
  BY <1>1, <1>2, <1>3, <1>4, <1>5, <1>6, <1>7, <1>8, <1>9 DEF Next

\* The log implements the durable map: up to the first of Harms the bucket reads back,
\* after every close and every crash, what was there at the last sync and a beginning of
\* what was committed since, with any sync policy and any failing calls.
THEOREM LogIsDurable == ASSUME Plain PROVE Spec => Implements
<1>1. Init => DM!Init
  BY DEF Init, DM!Init
<1>2. LInv /\ [Next]_vars => [DM!Next]_(DM!vars)
  BY StepDurable
<1> QED
  BY <1>1, <1>2, InitLog, NextLog, PTL DEF Spec, Implements, DM!Spec
=============================================================================
