-------------------------- MODULE BucketAtomicProofs -------------------------
(***************************************************************************)
(* Theorems about BucketTx for clients that write a key at most once in a  *)
(* transaction and do not write from functions passed to View: rollback    *)
(* restores the contents, the log covers them, and the bucket implements   *)
(* the atomic one, for every set of clients, keys, deadlines and entries.  *)
(*                                                                         *)
(* The argument looks at a step only through what it does to the primary   *)
(* tree, the log and the records of the transactions.  The operators below *)
(* are these effects; StepEffects says that there are no others.           *)
(***************************************************************************)
EXTENDS BucketTxProofs

Others(t) == \A u \in Txs : u # t => tx'[u] = tx[u]

Quiet == now' = now /\ logged' = logged

Begins(t) ==
  /\ Others(t) /\ Quiet /\ bkt'.data = bkt.data
  /\ tx[t].pc = "idle" /\ tx'[t].pc = "open"
  /\ tx'[t].backward = NoChanges /\ tx'[t].forward = NoChanges
  /\ tx'[t].before = bkt.data /\ tx'[t].depth = 0

Writes(t, k, new) ==
  /\ Others(t) /\ Quiet /\ bkt'.data = [bkt.data EXCEPT ![k] = new]
  /\ tx[t].pc = "open" /\ tx[t].mode = "RW" /\ ~tx[t].iterating
  /\ tx[t].backward[k] = Absent
  /\ tx'[t].pc = "open" /\ tx'[t].mode = "RW" /\ tx'[t].before = tx[t].before
  /\ tx'[t].iterating = tx[t].iterating /\ tx'[t].depth = tx[t].depth
  /\ tx'[t].backward = [tx[t].backward EXCEPT ![k] = bkt.data[k]]
  /\ tx'[t].forward = [tx[t].forward EXCEPT ![k] = new]

Runs(t) ==
  /\ Others(t) /\ Quiet /\ bkt'.data = bkt.data
  /\ tx[t].pc = "open" /\ tx'[t].pc \in {"open", "rollback"}
  /\ tx'[t].mode = tx[t].mode /\ tx'[t].before = tx[t].before
  /\ tx'[t].backward = tx[t].backward /\ tx'[t].forward = tx[t].forward
  /\ tx'[t].pc = "rollback" => tx'[t].depth = 0
  /\ MaxDepth <= 1 /\ tx'[t].depth > 0 => tx'[t].iterating

Commits(t) ==
  /\ Others(t) /\ now' = now /\ bkt'.data = bkt.data
  /\ tx[t].pc = "open" /\ tx[t].mode = "RW" /\ tx'[t] = NoTx
  /\ logged' = [k \in Keys |-> IF tx[t].forward[k] = Absent
                               THEN logged[k] ELSE tx[t].forward[k]]

Undoes(t, k) ==
  /\ Others(t) /\ Quiet /\ bkt'.data = [bkt.data EXCEPT ![k] = tx[t].backward[k]]
  /\ tx[t].pc = "rollback" /\ tx[t].backward[k] # Absent
  /\ tx'[t].pc = "rollback" /\ tx'[t].mode = tx[t].mode
  /\ tx'[t].before = tx[t].before /\ tx'[t].depth = tx[t].depth
  /\ tx'[t].backward = [tx[t].backward EXCEPT ![k] = Absent]

Ends(t) ==
  /\ Others(t) /\ Quiet /\ bkt'.data = bkt.data
  /\ tx[t].pc = "rollback" /\ tx[t].backward = NoChanges /\ tx'[t] = NoTx

Evicts(k) ==
  /\ Quiet /\ tx' = tx /\ mgr.pc = "evict"
  /\ bkt.data[k] \in Entries /\ IsExpired(bkt.data[k])
  /\ bkt'.data = [bkt.data EXCEPT ![k] = Nil]

Rests ==
  /\ tx' = tx /\ bkt'.data = bkt.data /\ logged' = logged
  /\ now' = now \/ (now < MaxTime /\ now' = now + 1)

Effect ==
  \/ \E t \in Txs : Begins(t)
  \/ \E t \in Txs, k \in Keys, new \in Entries \cup {Nil} : Writes(t, k, new)
  \/ \E t \in Txs : Runs(t) \/ Commits(t) \/ Ends(t)
  \/ \E t \in Txs, k \in Keys : Undoes(t, k)
  \/ \E k \in Keys : Evicts(k)
  \/ Rests

\* A transaction that is not there.
LEMMA NoTxFields ==
  /\ NoTx.pc = "idle" /\ NoTx.mode = "R" /\ NoTx.backward = NoChanges
  /\ NoTx.depth = 0 /\ NoTx.iterating = FALSE
BY DEF NoTx, newTx

\* What Set and Delete do to the record of their transaction, as they say it
\* and field by field.
Records(t, k, old, new) ==
  tx' = [tx EXCEPT ![t].backward[k] = old, ![t].forward[k] = new]

Recorded(t, k, old, new) ==
  /\ Others(t)
  /\ tx'[t].pc = tx[t].pc /\ tx'[t].mode = tx[t].mode
  /\ tx'[t].before = tx[t].before
  /\ tx'[t].iterating = tx[t].iterating /\ tx'[t].depth = tx[t].depth
  /\ tx'[t].backward = [tx[t].backward EXCEPT ![k] = old]
  /\ tx'[t].forward = [tx[t].forward EXCEPT ![k] = new]

LEMMA WriteEffect ==
  ASSUME IInv, NEW t \in Txs, NEW k \in Keys,
         NEW old \in Entries \cup {Nil}, NEW new \in Entries \cup {Nil},
         Records(t, k, old, new)
  PROVE  Recorded(t, k, old, new)
<1> DEFINE back == [tx[t].backward EXCEPT ![k] = old]
           forw == [tx[t].forward EXCEPT ![k] = new]
           r == [tx[t] EXCEPT !.backward = back, !.forward = forw]
<1>1. tx \in [Txs -> TxRecords] /\ tx[t] \in TxRecords
  BY DEF IInv, TypeOK
<1>2. tx' = [tx EXCEPT ![t] = r]
  BY <1>1 DEF TxRecords, Records
<1> HIDE DEF back, forw
<1>3. /\ r.pc = tx[t].pc /\ r.mode = tx[t].mode /\ r.before = tx[t].before
      /\ r.iterating = tx[t].iterating /\ r.depth = tx[t].depth
      /\ r.backward = back /\ r.forward = forw
  BY <1>1 DEF TxRecords
<1> HIDE DEF r
<1>4. tx'[t] = r /\ Others(t)
  BY <1>1, <1>2 DEF Others
<1> QED
  BY <1>3, <1>4 DEF back, forw, Recorded

\* What a rollback of one entry does to the record and to the primary tree.
LEMMA UndoEffect ==
  ASSUME IInv, NEW t \in Txs, NEW k \in Keys, rollbackEntry(t, k)
  PROVE  Undoes(t, k)
<1> DEFINE back == [tx[t].backward EXCEPT ![k] = Absent]
           r == [tx[t] EXCEPT !.backward = back]
<1>1. /\ tx \in [Txs -> TxRecords] /\ tx[t] \in TxRecords
      /\ bkt \in Buckets /\ Keyed(tx[t].backward)
  BY DEF IInv, TypeOK, TreesInv, KeyedContexts
<1>2. /\ tx[t].pc = "rollback" /\ tx[t].backward[k] # Absent
      /\ bkt' = IF tx[t].backward[k] = Nil THEN UndoInsert(bkt, k)
                                           ELSE UndoRemove(bkt, tx[t].backward[k])
      /\ tx' = [tx EXCEPT ![t] = r] /\ Quiet
  BY DEF rollbackEntry, Quiet
<1>3. tx[t].backward[k] # Nil =>
        tx[t].backward[k] \in Entries /\ (tx[t].backward[k]).k = k
  BY <1>1, <1>2 DEF TxRecords, RbCtx, Keyed
<1>4. bkt'.data = [bkt.data EXCEPT ![k] = tx[t].backward[k]]
  BY <1>1, <1>2, <1>3, UndoInsertSound, UndoRemoveSound, ZenonT(40)
<1> HIDE DEF back
<1>5. /\ r.pc = tx[t].pc /\ r.mode = tx[t].mode /\ r.before = tx[t].before
      /\ r.depth = tx[t].depth /\ r.backward = back
  BY <1>1 DEF TxRecords
<1> HIDE DEF r
<1>6. tx'[t] = r /\ Others(t)
  BY <1>1, <1>2 DEF Others
<1> QED
  BY <1>2, <1>4, <1>5, <1>6 DEF Undoes, back

\* A step of a transaction has one of the effects above.
LEMMA TxEffects ==
  ASSUME ViewersWrite = FALSE, Rewrites = FALSE, IInv, NEW t \in Txs, TxStep(t)
  PROVE  Effect
<1>1. /\ tx \in [Txs -> TxRecords] /\ tx[t] \in TxRecords
      /\ bkt \in Buckets /\ \A k \in Keys : bkt.data[k] \in Entries \cup {Nil}
  BY DEF IInv, TypeOK, Buckets, Trees
<1>2. ASSUME NEW r, tx' = [tx EXCEPT ![t] = r]
      PROVE  Others(t) /\ tx'[t] = r
  BY <1>1, <1>2 DEF Others
<1>3. ASSUME NEW mode \in {"R", "RW"}, startTx(t, mode)
      PROVE  Begins(t)
  <2>1. tx'[t] = newTx(mode, bkt) /\ Others(t)
    BY <1>2, <1>3 DEF startTx
  <2>2. tx[t].pc = "idle" /\ bkt' = bkt /\ Quiet
    BY <1>3 DEF startTx, Quiet
  <2> QED
    BY <2>1, <2>2 DEF Begins, newTx
<1>4. ASSUME NEW e \in Entries, Set(t, e)
      PROVE  Writes(t, e.k, e)
  <2>1. e.k \in Keys
    BY EntryFacts
  <2>2. /\ tx[t].pc = "open" /\ ~tx[t].iterating /\ tx[t].mode = "RW"
        /\ tx[t].backward[e.k] = Absent
        /\ bkt' = insert(bkt, e) /\ Quiet
        /\ tx' = [tx EXCEPT ![t].backward[e.k] = bkt.data[e.k], ![t].forward[e.k] = e]
    BY <1>4, ViewersWrite = FALSE, Rewrites = FALSE DEF Set, MayWrite, Quiet
  <2>3. bkt'.data = [bkt.data EXCEPT ![e.k] = e]
    BY <1>1, <2>2, InsertType
  <2> DEFINE old == bkt.data[e.k]
             key == e.k
  <2>4. key \in Keys /\ old \in Entries \cup {Nil} /\ e \in Entries \cup {Nil}
    BY <1>1, <2>1
  <2>5. Records(t, key, old, e)
    BY <2>2 DEF Records
  <2> HIDE DEF old, key
  <2>6. Recorded(t, key, old, e)
    BY <2>4, <2>5, WriteEffect
  <2> QED
    BY <2>2, <2>3, <2>6 DEF Writes, Recorded, old, key
<1>5. ASSUME NEW k \in Keys, Delete(t, k)
      PROVE  Writes(t, k, Nil)
  <2>1. /\ tx[t].pc = "open" /\ ~tx[t].iterating /\ tx[t].mode = "RW"
        /\ tx[t].backward[k] = Absent
        /\ bkt' = delete(bkt, k) /\ Quiet
        /\ tx' = [tx EXCEPT ![t].backward[k] = bkt.data[k], ![t].forward[k] = Nil]
    BY <1>5, ViewersWrite = FALSE, Rewrites = FALSE DEF Delete, MayWrite, Quiet
  <2>2. bkt'.data = [bkt.data EXCEPT ![k] = Nil]
    BY <1>1, <2>1, DeleteType
  <2> DEFINE old == bkt.data[k]
  <2>3. old \in Entries \cup {Nil} /\ Nil \in Entries \cup {Nil}
    BY <1>1
  <2>4. Records(t, k, old, Nil)
    BY <2>1 DEF Records
  <2> HIDE DEF old
  <2>5. Recorded(t, k, old, Nil)
    BY <2>3, <2>4, WriteEffect
  <2> QED
    BY <2>1, <2>2, <2>5 DEF Writes, Recorded, old
<1>6. ASSUME NEW p \in Patterns, CreateIndex(t, p) \/ DropIndex(t, p)
      PROVE  Rests
  <2>1. bkt'.data = bkt.data
    BY <1>1, <1>6 DEF CreateIndex, DropIndex, Buckets
  <2> QED
    BY <1>6, <2>1 DEF CreateIndex, DropIndex, Rests
<1>7. ASSUME IterStart(t) PROVE Runs(t)
  <2> DEFINE r == [tx[t] EXCEPT !.iterating = TRUE, !.depth = tx[t].depth + 1]
  <2>1. tx' = [tx EXCEPT ![t] = r] /\ tx[t].pc = "open" /\ bkt' = bkt /\ Quiet
    BY <1>1, <1>7 DEF IterStart, Quiet, TxRecords
  <2>2. /\ r.pc = tx[t].pc /\ r.mode = tx[t].mode /\ r.before = tx[t].before
        /\ r.backward = tx[t].backward /\ r.forward = tx[t].forward
        /\ r.iterating = TRUE
    BY <1>1 DEF TxRecords
  <2> HIDE DEF r
  <2>3. Others(t) /\ tx'[t] = r
    BY <1>2, <2>1
  <2> QED
    BY <2>1, <2>2, <2>3 DEF Runs, Quiet
<1>8. ASSUME IterEnd(t) PROVE Runs(t)
  <2> DEFINE r == [tx[t] EXCEPT !.iterating = FALSE, !.depth = tx[t].depth - 1]
  <2>1. tx' = [tx EXCEPT ![t] = r] /\ tx[t].pc = "open" /\ bkt' = bkt /\ Quiet
    BY <1>1, <1>8 DEF IterEnd, Quiet, TxRecords
  <2>2. /\ r.pc = tx[t].pc /\ r.mode = tx[t].mode /\ r.before = tx[t].before
        /\ r.backward = tx[t].backward /\ r.forward = tx[t].forward
        /\ r.depth = tx[t].depth - 1 /\ tx[t].depth \in 0..MaxDepth
    BY <1>1 DEF TxRecords
  <2> HIDE DEF r
  <2>3. MaxDepth <= 1 => ~(r.depth > 0)
    BY <2>2, TxAssumption
  <2>4. Others(t) /\ tx'[t] = r
    BY <1>2, <2>1
  <2> QED
    BY <2>1, <2>2, <2>3, <2>4 DEF Runs, Quiet
<1>9. ASSUME startRollback(t) PROVE Runs(t)
  <2> DEFINE r == [tx[t] EXCEPT !.pc = "rollback"]
  <2>1. /\ tx' = [tx EXCEPT ![t] = r] /\ tx[t].pc = "open" /\ tx[t].depth = 0
        /\ bkt' = bkt /\ Quiet
    BY <1>1, <1>9 DEF startRollback, Quiet
  <2>2. /\ r.pc = "rollback" /\ r.mode = tx[t].mode /\ r.before = tx[t].before
        /\ r.backward = tx[t].backward /\ r.forward = tx[t].forward
        /\ r.depth = tx[t].depth
    BY <1>1 DEF TxRecords
  <2> HIDE DEF r
  <2>3. Others(t) /\ tx'[t] = r
    BY <1>2, <2>1
  <2> QED
    BY <2>1, <2>2, <2>3 DEF Runs, Quiet
<1>10. ASSUME commitTx(t) PROVE Commits(t)
  <2>1. tx'[t] = NoTx /\ Others(t)
    BY <1>2, <1>10 DEF commitTx
  <2> QED
    BY <1>10, <2>1 DEF commitTx, Commits
<1>11. ASSUME endRollback(t) PROVE Ends(t)
  <2>1. tx'[t] = NoTx /\ Others(t)
    BY <1>2, <1>11 DEF endRollback
  <2> QED
    BY <1>11, <2>1 DEF endRollback, Ends, Quiet
<1>12. ASSUME NEW k \in Keys, rollbackEntry(t, k) PROVE Undoes(t, k)
  BY <1>12, UndoEffect
<1> QED
  <2>1. ASSUME NEW e \in Entries, Set(t, e) PROVE Effect
    BY <1>4, <2>1, EntryFacts DEF Effect
  <2>2. ASSUME NEW k \in Keys, Delete(t, k) PROVE Effect
    BY <1>5, <2>2 DEF Effect
  <2>3. ASSUME NEW k \in Keys, rollbackEntry(t, k) PROVE Effect
    BY <1>12, <2>3 DEF Effect
  <2>4. CASE IterStart(t) \/ IterEnd(t) \/ startRollback(t) \/ commitTx(t) \/ endRollback(t)
    BY <1>7, <1>8, <1>9, <1>10, <1>11, <2>4 DEF Effect
  <2>5. ASSUME NEW mode \in {"R", "RW"}, startTx(t, mode) PROVE Effect
    BY <1>3, <2>5 DEF Effect
  <2>6. ASSUME NEW p \in Patterns, CreateIndex(t, p) \/ DropIndex(t, p) PROVE Effect
    BY <1>6, <2>6 DEF Effect
  <2> QED
    BY <2>1, <2>2, <2>3, <2>4, <2>5, <2>6 DEF TxStep

\* So has every step.
LEMMA StepEffects ==
  ASSUME ViewersWrite = FALSE, Rewrites = FALSE, IInv, [Next]_vars
  PROVE  Effect
<1>1. CASE Tick \/ UNCHANGED vars \/ managerWait \/ managerLock \/ evictDone \/ invalidate
  BY <1>1 DEF Tick, vars, managerWait, managerLock, evictDone, invalidate, Rests, Effect
<1>2. CASE evict
  <2> DEFINE eitem == MinItem(bkt.eviction)
  <2>0. /\ bkt \in Buckets /\ bkt.eviction \in Trees(Times) /\ SoundDeadlines(bkt)
    BY DEF IInv, TypeOK, TreesInv, DeadlinesSound, Buckets
  <2>1. PICK o \in Occupied(bkt.eviction) :
          eitem = bkt.eviction[o] /\ eitem \in Entries
    <3>1. Occupied(bkt.eviction) # {}
      BY <1>2, <2>0, OccupiedCount DEF evict, IInv, TypeOK
    <3> QED
      BY <2>0, <3>1, MinItemIn
  <2>2. eitem.k \in Keys /\ bkt.data[eitem.k] = eitem
    BY <2>0, <2>1, EntryFacts DEF SoundDeadlines
  <2>3. /\ bkt' = IF IsExpired(eitem) THEN delete(bkt, eitem.k) ELSE bkt
        /\ mgr.pc = "evict" /\ tx' = tx /\ Quiet
    BY <1>2 DEF evict, Quiet
  <2> HIDE DEF eitem
  <2>4. CASE IsExpired(eitem)
    <3>1. bkt'.data = [bkt.data EXCEPT ![eitem.k] = Nil]
      BY <2>0, <2>2, <2>3, <2>4, DeleteType
    <3> QED
      BY <2>1, <2>2, <2>3, <2>4, <3>1 DEF Evicts, Effect
  <2>5. CASE ~IsExpired(eitem)
    BY <2>3, <2>5 DEF Rests, Effect, Quiet
  <2> QED
    BY <2>4, <2>5
<1>3. ASSUME NEW t \in Txs, TxStep(t) PROVE Effect
  BY <1>3, TxEffects
<1> QED
  BY <1>1, <1>2, <1>3 DEF Next, manager

-----------------------------------------------------------------------------
(* The invariant of a transaction *)

\* What has not been recorded is as the transaction found it, and what has been
\* is recorded as the transaction found it.
Restorable(r, data) ==
  \A k \in Keys : IF r.backward[k] = Absent THEN data[k] = r.before[k]
                                            ELSE r.backward[k] = r.before[k]

\* The changes a commit will log are those that were made and recorded.
Loggable(r, data) ==
  \A k \in Keys : IF r.backward[k] = Absent THEN r.forward[k] = Absent
                                            ELSE r.forward[k] = data[k]

TxInv(r, data) ==
  /\ r.pc = "idle" \/ r.mode = "R" => r.backward = NoChanges
  /\ r.pc # "idle" => Restorable(r, data)
  /\ r.pc = "open" => Loggable(r, data)
  /\ r.pc # "open" => r.depth = 0
  /\ MaxDepth <= 1 /\ r.depth > 0 => r.iterating

AllTx == \A t \in Txs : TxInv(tx[t], bkt.data)

LEMMA NoTxInv == ASSUME NEW data PROVE TxInv(NoTx, data)
BY NoTxFields DEF TxInv

\* A change of the bucket by one who holds its lock alone concerns no other.
LEMMA IdleInv ==
  ASSUME NEW r, NEW data, NEW data2, r.pc = "idle", TxInv(r, data)
  PROVE  TxInv(r, data2)
BY DEF TxInv

\* The writer is alone.
LEMMA WriterAlone ==
  ASSUME IInv, NEW t \in Txs, tx[t].pc # "idle", tx[t].mode = "RW"
  PROVE  \A u \in Txs : u # t => tx[u].pc = "idle"
BY DEF IInv, Exclusion, Writing

\* The effects keep the invariant.
LEMMA AllTxKept ==
  ASSUME IInv, AllTx, Effect
  PROVE  AllTx'
<1>0. /\ tx \in [Txs -> TxRecords] /\ bkt.data \in [Keys -> Entries \cup {Nil}]
      /\ Absent \notin Entries \cup {Nil}
  BY TxAssumption DEF IInv, TypeOK, Buckets, Trees
<1>1. ASSUME NEW t \in Txs, Others(t), bkt'.data = bkt.data, TxInv(tx'[t], bkt.data)
      PROVE  AllTx'
  BY <1>1 DEF AllTx, Others
<1>2. ASSUME NEW t \in Txs, Others(t), tx[t].pc # "idle", tx[t].mode = "RW",
             TxInv(tx'[t], bkt'.data)
      PROVE  AllTx'
  <2>1. ASSUME NEW u \in Txs, u # t PROVE TxInv(tx'[u], bkt'.data)
    <3>1. tx'[u] = tx[u] /\ tx[u].pc = "idle" /\ TxInv(tx[u], bkt.data)
      BY <1>2, <2>1, WriterAlone DEF AllTx, Others
    <3> QED
      BY <3>1, IdleInv
  <2> QED
    BY <1>2, <2>1 DEF AllTx
<1>3. ASSUME NEW t \in Txs, Begins(t) PROVE AllTx'
  <2>1. TxInv(tx'[t], bkt.data)
    BY <1>3 DEF Begins, TxInv, Restorable, Loggable, NoChanges
  <2> QED
    BY <1>1, <1>3, <2>1 DEF Begins
<1>4. ASSUME NEW t \in Txs, NEW k \in Keys, NEW new \in Entries \cup {Nil},
             Writes(t, k, new)
      PROVE  AllTx'
  <2> DEFINE r == tx[t]
             s == tx'[t]
  <2>1. r \in TxRecords /\ TxInv(r, bkt.data)
    BY <1>0 DEF AllTx
  <2>2. r.backward \in [Keys -> Entries \cup {Nil, Absent}] /\
        r.forward \in [Keys -> Entries \cup {Nil, Absent}]
    BY <2>1 DEF TxRecords, RbCtx
  <2>3. /\ s.backward[k] = bkt.data[k] /\ s.forward[k] = new
        /\ bkt'.data[k] = new /\ bkt.data[k] # Absent
        /\ \A j \in Keys \ {k} : /\ s.backward[j] = r.backward[j]
                                 /\ s.forward[j] = r.forward[j]
                                 /\ bkt'.data[j] = bkt.data[j]
    BY <1>0, <1>4, <2>2 DEF Writes
  <2>4. /\ s.pc = "open" /\ s.mode = "RW" /\ s.before = r.before
        /\ r.pc = "open" /\ r.mode = "RW" /\ r.backward[k] = Absent
        /\ s.iterating = r.iterating /\ s.depth = r.depth
    BY <1>4 DEF Writes
  <2>5. Restorable(r, bkt.data) /\ Loggable(r, bkt.data)
    BY <2>1, <2>4 DEF TxInv
  <2>6. Restorable(s, bkt'.data)
    BY <2>3, <2>4, <2>5 DEF Restorable
  <2>7. Loggable(s, bkt'.data)
    BY <2>3, <2>4, <2>5 DEF Loggable
  <2>8. TxInv(s, bkt'.data)
    BY <2>1, <2>4, <2>6, <2>7 DEF TxInv
  <2> QED
    BY <1>2, <1>4, <2>4, <2>8 DEF Writes
<1>5. ASSUME NEW t \in Txs, Runs(t) PROVE AllTx'
  <2>1. TxInv(tx[t], bkt.data)
    BY DEF AllTx
  <2>2. TxInv(tx'[t], bkt.data)
    BY <1>5, <2>1 DEF Runs, TxInv, Restorable, Loggable
  <2> QED
    BY <1>1, <1>5, <2>2 DEF Runs
<1>6. ASSUME NEW t \in Txs, Commits(t) \/ Ends(t) PROVE AllTx'
  BY <1>1, <1>6, NoTxInv DEF Commits, Ends
<1>7. ASSUME NEW t \in Txs, NEW k \in Keys, Undoes(t, k) PROVE AllTx'
  <2> DEFINE r == tx[t]
             s == tx'[t]
  <2>1. r \in TxRecords /\ TxInv(r, bkt.data)
    BY <1>0 DEF AllTx
  <2>2. r.backward \in [Keys -> Entries \cup {Nil, Absent}]
    BY <2>1 DEF TxRecords, RbCtx
  <2>3. /\ s.backward[k] = Absent /\ bkt'.data[k] = r.backward[k]
        /\ \A j \in Keys \ {k} : /\ s.backward[j] = r.backward[j]
                                 /\ bkt'.data[j] = bkt.data[j]
    BY <1>0, <1>7, <2>2 DEF Undoes
  <2>4. /\ r.pc = "rollback" /\ r.backward[k] # Absent /\ s.pc = "rollback"
        /\ s.mode = r.mode /\ s.before = r.before /\ s.depth = r.depth
    BY <1>7 DEF Undoes
  <2>5. r.mode = "RW"
    BY <2>1, <2>4 DEF TxInv, TxRecords, NoChanges
  <2>6. Restorable(s, bkt'.data)
    BY <2>1, <2>3, <2>4 DEF TxInv, Restorable
  <2>7. TxInv(s, bkt'.data)
    <3>1. s.depth = 0
      BY <2>1, <2>4 DEF TxInv
    <3> QED
      BY <2>4, <2>5, <2>6, <3>1 DEF TxInv
  <2> QED
    BY <1>2, <1>7, <2>4, <2>5, <2>7 DEF Undoes
<1>8. ASSUME NEW k \in Keys, Evicts(k) PROVE AllTx'
  <2>1. ASSUME NEW u \in Txs PROVE TxInv(tx'[u], bkt'.data)
    <3>1. tx'[u] = tx[u] /\ tx[u].pc = "idle" /\ TxInv(tx[u], bkt.data)
      BY <1>8 DEF Evicts, IInv, Exclusion, AllTx
    <3> QED
      BY <3>1, IdleInv
  <2> QED
    BY <2>1 DEF AllTx
<1>9. CASE Rests
  BY <1>9 DEF Rests, AllTx
<1> QED
  BY <1>3, <1>4, <1>5, <1>6, <1>7, <1>8, <1>9 DEF Effect

-----------------------------------------------------------------------------
(* The contents without the changes under way *)

Owned(txs, data) ==
  [k \in Keys |->
     IF \E t \in Txs : txs[t].backward[k] # Absent
     THEN txs[CHOOSE t \in Txs : txs[t].backward[k] # Absent].backward[k]
     ELSE data[k]]

\* No two transactions have recorded changes.
Sole(txs) ==
  \A k, j \in Keys : \A t, u \in Txs :
    txs[t].backward[k] # Absent /\ txs[u].backward[j] # Absent => t = u

LEMMA OwnedValue ==
  ASSUME NEW txs, NEW data, NEW k \in Keys, Sole(txs)
  PROVE  /\ \A t \in Txs : txs[t].backward[k] # Absent =>
                             Owned(txs, data)[k] = txs[t].backward[k]
         /\ (\A t \in Txs : txs[t].backward[k] = Absent) =>
              Owned(txs, data)[k] = data[k]
<1>1. ASSUME NEW t \in Txs, txs[t].backward[k] # Absent
      PROVE  (CHOOSE u \in Txs : txs[u].backward[k] # Absent) = t
  <2> DEFINE c == CHOOSE u \in Txs : txs[u].backward[k] # Absent
  <2>1. c \in Txs /\ txs[c].backward[k] # Absent
    BY <1>1
  <2> QED
    BY <1>1, <2>1 DEF Sole
<1>2. ASSUME NEW t \in Txs, txs[t].backward[k] # Absent
      PROVE  Owned(txs, data)[k] = txs[t].backward[k]
  BY <1>1, <1>2 DEF Owned
<1>3. ASSUME \A t \in Txs : txs[t].backward[k] = Absent
      PROVE  Owned(txs, data)[k] = data[k]
  BY <1>3 DEF Owned
<1> QED
  BY <1>2, <1>3

\* The owner of a recorded change is the writer, and there is one.
LEMMA SoleWriter ==
  ASSUME IInv, AllTx
  PROVE  Sole(tx)
<1>1. ASSUME NEW t \in Txs, NEW k \in Keys, tx[t].backward[k] # Absent
      PROVE  Writing(t)
  <2>1. tx[t] \in TxRecords /\ TxInv(tx[t], bkt.data)
    BY DEF IInv, TypeOK, AllTx
  <2> QED
    BY <1>1, <2>1 DEF TxInv, TxRecords, NoChanges, Writing
<1> QED
  BY <1>1 DEF Sole, IInv, Exclusion, Writing

LEMMA StoreIsOwned == Store = Owned(tx, bkt.data)
BY DEF Store, Owned

\* A transaction that is idle has recorded nothing.
LEMMA IdleClean ==
  ASSUME AllTx, NEW t \in Txs, tx[t].pc = "idle"
  PROVE  \A k \in Keys : tx[t].backward[k] = Absent
BY DEF AllTx, TxInv, NoChanges

\* What each effect does to the contents of the atomic bucket, and to its log.
StoreRests == \A k \in Keys : Store'[k] = Store[k]

StoreCommits(t) ==
  \A k \in Keys :
    Store'[k] = IF tx[t].forward[k] = Absent THEN Store[k] ELSE tx[t].forward[k]

StoreEvicts(k) ==
  /\ Store[k] = bkt.data[k]
  /\ \A j \in Keys : Store'[j] = IF j = k THEN Nil ELSE Store[j]

LEMMA StoreEffects ==
  ASSUME IInv, AllTx, IInv', AllTx'
  PROVE  /\ \A t \in Txs : Begins(t) \/ Runs(t) \/ Ends(t) => StoreRests
         /\ \A t \in Txs, k \in Keys, new \in Entries \cup {Nil} :
              Writes(t, k, new) => StoreRests
         /\ \A t \in Txs, k \in Keys : Undoes(t, k) => StoreRests
         /\ \A t \in Txs : Commits(t) => StoreCommits(t)
         /\ \A k \in Keys : Evicts(k) => StoreEvicts(k)
         /\ Rests => StoreRests
<1>0. /\ tx \in [Txs -> TxRecords] /\ bkt.data \in [Keys -> Entries \cup {Nil}]
      /\ Absent \notin Entries \cup {Nil}
  BY TxAssumption DEF IInv, TypeOK, Buckets, Trees
<1>1. Sole(tx) /\ Sole(tx')
  <2>1. Sole(tx)'
    BY SoleWriter, PTL
  <2> QED
    BY <2>1, SoleWriter DEF Sole
<1>2. ASSUME NEW k \in Keys
      PROVE  /\ \A t \in Txs : tx[t].backward[k] # Absent =>
                                 Store[k] = tx[t].backward[k]
             /\ (\A t \in Txs : tx[t].backward[k] = Absent) =>
                  Store[k] = bkt.data[k]
  BY <1>1, OwnedValue, StoreIsOwned
<1>3. ASSUME NEW k \in Keys
      PROVE  /\ \A t \in Txs : tx'[t].backward[k] # Absent =>
                                 Store'[k] = tx'[t].backward[k]
             /\ (\A t \in Txs : tx'[t].backward[k] = Absent) =>
                  Store'[k] = bkt'.data[k]
  <2>1. Store' = Owned(tx', bkt'.data)
    BY DEF Store, Owned
  <2> QED
    BY <1>1, <2>1, OwnedValue
<1>4. ASSUME NEW k \in Keys, bkt'.data[k] = bkt.data[k],
             \A t \in Txs : tx'[t].backward[k] = tx[t].backward[k]
      PROVE  Store'[k] = Store[k]
  <2>1. CASE \A t \in Txs : tx[t].backward[k] = Absent
    BY <1>2, <1>3, <1>4, <2>1
  <2>2. CASE \E t \in Txs : tx[t].backward[k] # Absent
    BY <1>2, <1>3, <1>4, <2>2
  <2> QED
    BY <2>1, <2>2
<1>5. ASSUME NEW t \in Txs, Begins(t) \/ Runs(t) \/ Ends(t) PROVE StoreRests
  <2>1. tx'[t].backward = tx[t].backward
    BY <1>5, NoTxFields DEF Begins, Runs, Ends, AllTx, TxInv
  <2>2. \A u \in Txs : tx'[u].backward = tx[u].backward
    BY <1>5, <2>1 DEF Begins, Runs, Ends, Others
  <2> QED
    BY <1>4, <1>5, <2>2 DEF Begins, Runs, Ends, StoreRests
<1>6. ASSUME NEW t \in Txs, NEW k \in Keys, NEW new \in Entries \cup {Nil},
             Writes(t, k, new)
      PROVE  StoreRests
  <2>1. \A u \in Txs : u # t => tx'[u] = tx[u] /\ tx[u].pc = "idle"
    BY <1>6, WriterAlone DEF Writes, Others
  <2>2. tx[t].backward \in [Keys -> Entries \cup {Nil, Absent}]
    BY <1>0 DEF TxRecords, RbCtx
  <2>3. /\ tx'[t].backward[k] = bkt.data[k] /\ tx[t].backward[k] = Absent
        /\ bkt.data[k] # Absent
        /\ \A j \in Keys \ {k} : /\ tx'[t].backward[j] = tx[t].backward[j]
                                 /\ bkt'.data[j] = bkt.data[j]
    BY <1>0, <1>6, <2>2 DEF Writes
  <2>4. \A u \in Txs : tx[u].backward[k] = Absent
    BY <2>1, <2>3, IdleClean
  <2>5. Store[k] = bkt.data[k] /\ Store'[k] = bkt.data[k]
    BY <1>2, <1>3, <2>3, <2>4
  <2>6. ASSUME NEW j \in Keys \ {k} PROVE Store'[j] = Store[j]
    BY <1>4, <2>1, <2>3
  <2> QED
    BY <2>5, <2>6 DEF StoreRests
<1>7. ASSUME NEW t \in Txs, NEW k \in Keys, Undoes(t, k) PROVE StoreRests
  <2>1. tx[t].backward \in [Keys -> Entries \cup {Nil, Absent}]
    BY <1>0 DEF TxRecords, RbCtx
  <2>2. /\ tx'[t].backward[k] = Absent /\ tx[t].backward[k] # Absent
        /\ bkt'.data[k] = tx[t].backward[k]
        /\ \A j \in Keys \ {k} : /\ tx'[t].backward[j] = tx[t].backward[j]
                                 /\ bkt'.data[j] = bkt.data[j]
    BY <1>0, <1>7, <2>1 DEF Undoes
  <2>3. \A u \in Txs : u # t => tx'[u] = tx[u] /\ tx[u].backward[k] = Absent
    BY <1>1, <1>7, <2>2 DEF Undoes, Others, Sole
  <2>4. Store[k] = tx[t].backward[k] /\ Store'[k] = tx[t].backward[k]
    BY <1>2, <1>3, <2>2, <2>3
  <2>5. ASSUME NEW j \in Keys \ {k} PROVE Store'[j] = Store[j]
    BY <1>4, <2>2, <2>3
  <2> QED
    BY <2>4, <2>5 DEF StoreRests
<1>8. ASSUME NEW t \in Txs, Commits(t) PROVE StoreCommits(t)
  <2>1. \A u \in Txs : u # t => tx'[u] = tx[u] /\ tx[u].pc = "idle"
    BY <1>8, WriterAlone DEF Commits, Others
  <2>2. \A u \in Txs, k \in Keys : tx'[u].backward[k] = Absent
    BY <1>8, <2>1, IdleClean, NoTxFields DEF Commits, NoChanges
  <2>3. Loggable(tx[t], bkt.data)
    BY <1>8 DEF Commits, AllTx, TxInv
  <2>4. ASSUME NEW k \in Keys
        PROVE  Store'[k] = IF tx[t].forward[k] = Absent THEN Store[k]
                                                        ELSE tx[t].forward[k]
    <3>1. Store'[k] = bkt.data[k]
      BY <1>3, <1>8, <2>2 DEF Commits
    <3>2. CASE tx[t].backward[k] = Absent
      BY <1>2, <2>1, <2>3, <3>1, <3>2, IdleClean DEF Loggable
    <3>3. CASE tx[t].backward[k] # Absent
      BY <1>0, <2>3, <3>1, <3>3 DEF Loggable
    <3> QED
      BY <3>2, <3>3
  <2> QED
    BY <2>4 DEF StoreCommits
<1>9. ASSUME NEW k \in Keys, Evicts(k) PROVE StoreEvicts(k)
  <2>1. \A u \in Txs : tx'[u] = tx[u] /\ tx[u].pc = "idle"
    BY <1>9 DEF Evicts, IInv, Exclusion
  <2>2. \A j \in Keys : Store[j] = bkt.data[j] /\ Store'[j] = bkt'.data[j]
    BY <1>2, <1>3, <2>1, IdleClean
  <2> QED
    BY <1>0, <1>9, <2>2 DEF Evicts, StoreEvicts
<1>10. ASSUME Rests PROVE StoreRests
  BY <1>4, <1>10 DEF Rests, StoreRests
<1> QED
  BY <1>5, <1>6, <1>7, <1>8, <1>9, <1>10

-----------------------------------------------------------------------------
(* The theorems *)

\* A replay of the log gives value v, or gave it until its time had passed.
Covers(l, v) == l = v \/ (v = Nil /\ l # Nil /\ IsExpired(l))

Covered == \A k \in Keys : Covers(logged[k], Store[k])

AInv == IInv /\ AllTx /\ Covered

LEMMA AInvInit == Init => AInv
<1> SUFFICES ASSUME Init PROVE AInv
  OBVIOUS
<1>1. IInv
  BY InitInv
<1>2. AllTx
  BY NoTxInv DEF Init, AllTx
<1>3. ASSUME NEW k \in Keys PROVE Store[k] = Nil
  <2>1. \A t \in Txs : tx[t].backward[k] = Absent
    BY NoTxFields DEF Init, NoChanges
  <2>2. bkt.data[k] = Nil
    BY DEF Init, newBucket, EmptyTree
  <2> QED
    BY <2>1, <2>2 DEF Store
<1> QED
  BY <1>1, <1>2, <1>3 DEF AInv, Covered, Covers, Init, EmptyTree

\* The log covers the contents after a step too.
LEMMA CoveredKept ==
  ASSUME AInv, IInv', AllTx', Effect
  PROVE  Covered'
<1>0. /\ now \in Nat /\ logged \in [Keys -> Entries \cup {Nil}]
      /\ \A e \in Entries : e.exp # Never => e.exp \in Int
      /\ Absent \notin Entries \cup {Nil}
  BY TxAssumption, EntryFacts, TimesAssumption, EntriesAssumption
  DEF AInv, IInv, TypeOK, Trees, EntryRecords
<1>1. IInv /\ AllTx
  BY DEF AInv
<1>2. ASSUME NEW k \in Keys PROVE Covers(logged[k], Store[k])
  BY DEF AInv, Covered
<1>3. ASSUME StoreRests, logged' = logged, now' = now \/ now' = now + 1
      PROVE  Covered'
  <2>1. ASSUME NEW k \in Keys PROVE Covers(logged[k], Store[k])'
    <3>1. Store'[k] = Store[k] /\ logged'[k] = logged[k] /\ Covers(logged[k], Store[k])
      BY <1>2, <1>3 DEF StoreRests
    <3>2. logged[k] # Nil /\ IsExpired(logged[k]) => IsExpired(logged[k])'
      BY <1>0, <1>3 DEF IsExpired
    <3> QED
      BY <3>1, <3>2 DEF Covers, IsExpired
  <2> QED
    BY <2>1 DEF Covered
<1>4. ASSUME NEW t \in Txs, Commits(t) PROVE Covered'
  <2>1. ASSUME NEW k \in Keys PROVE Covers(logged[k], Store[k])'
    <3>1. StoreCommits(t)
      BY <1>1, <1>4, StoreEffects
    <3>2. CASE tx[t].forward[k] = Absent
      <4>1. Store'[k] = Store[k] /\ logged'[k] = logged[k] /\ now' = now
        BY <1>4, <3>1, <3>2 DEF Commits, StoreCommits
      <4> QED
        BY <1>2, <4>1 DEF Covers, IsExpired
    <3>3. CASE tx[t].forward[k] # Absent
      BY <1>4, <3>1, <3>3 DEF Commits, StoreCommits, Covers
    <3> QED
      BY <3>2, <3>3
  <2> QED
    BY <2>1 DEF Covered
<1>5. ASSUME NEW k \in Keys, Evicts(k) PROVE Covered'
  <2>1. StoreEvicts(k)
    BY <1>1, <1>5, StoreEffects
  <2>2. logged' = logged /\ now' = now
    BY <1>5 DEF Evicts, Quiet
  <2>3. ASSUME NEW j \in Keys PROVE Covers(logged[j], Store[j])'
    <3>1. CASE j # k
      BY <1>2, <2>1, <2>2, <3>1 DEF StoreEvicts, Covers, IsExpired
    <3>2. CASE j = k
      <4>1. Store[k] \in Entries /\ Store[k] # Nil /\ IsExpired(Store[k])
        BY <1>5, <2>1, EntriesAssumption DEF Evicts, StoreEvicts
      <4>2. logged[k] = Store[k]
        BY <1>2, <4>1 DEF Covers
      <4> QED
        BY <2>1, <2>2, <3>2, <4>1, <4>2 DEF StoreEvicts, Covers, IsExpired
    <3> QED
      BY <3>1, <3>2
  <2> QED
    BY <2>3 DEF Covered
<1>6. CASE \E t \in Txs : Begins(t) \/ Runs(t) \/ Ends(t)
  BY <1>1, <1>3, <1>6, StoreEffects DEF Begins, Runs, Ends, Quiet
<1>7. CASE \E t \in Txs, k \in Keys, new \in Entries \cup {Nil} : Writes(t, k, new)
  BY <1>1, <1>3, <1>7, StoreEffects, SMTT(30) DEF Writes, Quiet
<1>8. CASE \E t \in Txs, k \in Keys : Undoes(t, k)
  BY <1>1, <1>3, <1>8, StoreEffects DEF Undoes, Quiet
<1>9. CASE Rests
  BY <1>1, <1>3, <1>9, StoreEffects DEF Rests
<1> QED
  BY <1>4, <1>5, <1>6, <1>7, <1>8, <1>9 DEF Effect

LEMMA AInvNext ==
  ASSUME ViewersWrite = FALSE, Rewrites = FALSE
  PROVE  AInv /\ [Next]_vars => AInv'
<1> SUFFICES ASSUME AInv, [Next]_vars PROVE AInv'
  OBVIOUS
<1>1. IInv /\ AllTx
  BY DEF AInv
<1>2. IInv'
  BY <1>1, NextInv
<1>3. Effect
  BY <1>1, StepEffects, ViewersWrite = FALSE, Rewrites = FALSE
<1>4. AllTx'
  BY <1>1, <1>3, AllTxKept
<1>5. Covered'
  BY <1>2, <1>3, <1>4, CoveredKept
<1> QED
  BY <1>2, <1>4, <1>5 DEF AInv

LEMMA AInvariance ==
  ASSUME ViewersWrite = FALSE, Rewrites = FALSE
  PROVE  Spec => []AInv
<1>1. AInv /\ [Next]_vars => AInv'
  BY AInvNext, ViewersWrite = FALSE, Rewrites = FALSE
<1> QED
  BY AInvInit, <1>1, PTL DEF Spec

\* When no transaction writes a key twice and no View writes, a rollback leaves
\* the bucket's contents as the transaction found them, in whatever order it
\* visits its keys.
THEOREM RollbacksRestore ==
  ASSUME ViewersWrite = FALSE, Rewrites = FALSE
  PROVE  Spec => RollbackRestores
<1>1. ASSUME AInv, [Next]_vars, NEW t \in Txs, Ended(t)
      PROVE  bkt'.data = tx[t].before
  <2>1. /\ Effect /\ IInv /\ TxInv(tx[t], bkt.data)
        /\ tx[t] \in TxRecords /\ bkt.data \in [Keys -> Entries \cup {Nil}]
    BY <1>1, StepEffects, ViewersWrite = FALSE, Rewrites = FALSE
    DEF AInv, AllTx, IInv, TypeOK, Buckets, Trees
  <2>2. tx[t].pc = "rollback" /\ tx'[t].pc = "idle"
    BY <1>1 DEF Ended
  <2>3. \A u \in Txs, k \in Keys : ~Undoes(u, k)
    BY <2>2 DEF Undoes, Others
  <2>4. \A u \in Txs, k \in Keys, new \in Entries \cup {Nil} : ~Writes(u, k, new)
    BY <2>2 DEF Writes, Others
  <2>5. \A u \in Txs : ~Begins(u) /\ ~Runs(u) /\ ~Commits(u)
    BY <2>2 DEF Begins, Runs, Commits, Others
  <2>6. ~Rests /\ \A k \in Keys : ~Evicts(k)
    BY <2>2 DEF Rests, Evicts
  <2>7. Ends(t)
    BY <2>1, <2>2, <2>3, <2>4, <2>5, <2>6 DEF Effect, Ends, Others
  <2>8. \A k \in Keys : bkt.data[k] = tx[t].before[k]
    BY <2>1, <2>7 DEF Ends, TxInv, Restorable, NoChanges
  <2>9. bkt.data = tx[t].before
    BY <2>1, <2>8 DEF TxRecords, Trees
  <2> QED
    BY <2>7, <2>9 DEF Ends
<1>2. AInv /\ [Next]_vars =>
        [\A t \in Txs : Ended(t) => bkt'.data = tx[t].before]_vars
  BY <1>1
<1> QED
  BY <1>2, AInvariance, ViewersWrite = FALSE, Rewrites = FALSE, PTL
  DEF Spec, RollbackRestores

\* For the same clients, if no function given to an iteration iterates in its
\* turn, nobody changes the contents while a transaction walks a tree: neither
\* itself, nor the manager, nor a rollback.
THEOREM NoWritesUnderIteration ==
  ASSUME ViewersWrite = FALSE, Rewrites = FALSE, MaxDepth <= 1
  PROVE  Spec => NoWriteWhileIterating
<1>1. ASSUME AInv, [Next]_vars, NEW t \in Txs, tx[t].depth > 0
      PROVE  bkt'.data = bkt.data
  <2>1. Effect /\ IInv /\ TxInv(tx[t], bkt.data) /\ tx[t] \in TxRecords
    BY <1>1, StepEffects, ViewersWrite = FALSE, Rewrites = FALSE
    DEF AInv, AllTx, IInv, TypeOK
  <2>2. tx[t].pc = "open" /\ tx[t].iterating
    BY <1>1, <2>1, MaxDepth <= 1 DEF TxInv
  <2>3. \A k \in Keys : ~Evicts(k)
    BY <2>1, <2>2 DEF Evicts, IInv, Exclusion
  <2>4. \A u \in Txs, k \in Keys, new \in Entries \cup {Nil} : ~Writes(u, k, new)
    BY <2>1, <2>2 DEF Writes, IInv, Exclusion, Writing
  <2>5. \A u \in Txs, k \in Keys : ~Undoes(u, k)
    <3> SUFFICES ASSUME NEW u \in Txs, NEW k \in Keys, Undoes(u, k) PROVE FALSE
      OBVIOUS
    <3>1. tx[u].pc = "rollback" /\ tx[u].backward[k] # Absent
      BY DEF Undoes
    <3>2. tx[u].mode = "RW"
      BY <1>1, <3>1 DEF AInv, AllTx, TxInv, NoChanges, IInv, TypeOK, TxRecords
    <3> QED
      BY <2>1, <2>2, <3>1, <3>2 DEF IInv, Exclusion, Writing
  <2> QED
    BY <2>1, <2>3, <2>4, <2>5 DEF Effect, Begins, Runs, Commits, Ends, Rests
<1>2. AInv /\ [Next]_vars =>
        [(\E t \in Txs : tx[t].depth > 0) => bkt'.data = bkt.data]_vars
  BY <1>1
<1> QED
  BY <1>2, AInvariance, ViewersWrite = FALSE, Rewrites = FALSE, PTL
  DEF Spec, NoWriteWhileIterating

\* For the same clients, whenever no writer holds the bucket a replay of what
\* commits have logged gives the contents, but for evicted entries.
THEOREM LogIsCovered ==
  ASSUME ViewersWrite = FALSE, Rewrites = FALSE
  PROVE  Spec => []LogCovers
<1>1. ASSUME AInv, \A t \in Txs : ~Writing(t), NEW k \in Keys
      PROVE  Covers(logged[k], bkt.data[k])
  <2>1. ASSUME NEW t \in Txs PROVE tx[t].backward[k] = Absent
    <3>1. tx[t].pc = "idle" \/ tx[t].mode = "R"
      BY <1>1 DEF Writing, AInv, IInv, TypeOK, TxRecords
    <3> QED
      BY <1>1, <3>1 DEF AInv, AllTx, TxInv, NoChanges
  <2>2. Store[k] = bkt.data[k]
    BY <2>1 DEF Store
  <2> QED
    BY <1>1, <2>2 DEF AInv, Covered
<1>2. AInv => LogCovers
  BY <1>1 DEF LogCovers, Covers
<1> QED
  BY <1>2, AInvariance, ViewersWrite = FALSE, Rewrites = FALSE, PTL

\* The contents of the atomic bucket are contents.
LEMMA StoreType ==
  ASSUME IInv
  PROVE  \A k \in Keys : Store[k] \in Entries \cup {Nil}
<1> SUFFICES ASSUME NEW k \in Keys PROVE Store[k] \in Entries \cup {Nil}
  OBVIOUS
<1>1. bkt.data[k] \in Entries \cup {Nil} /\ tx \in [Txs -> TxRecords]
  BY DEF IInv, TypeOK, Buckets, Trees
<1>2. \A t \in Txs : tx[t].backward[k] \in Entries \cup {Nil, Absent}
  BY <1>1 DEF TxRecords, RbCtx
<1> QED
  BY <1>1, <1>2 DEF Store

\* For the same clients, the bucket with its locks, rollbacks and manager
\* implements the atomic bucket: begins, writes, undone writes and ends change
\* nothing of it, a commit is its commit and an eviction its eviction.
THEOREM BucketIsAtomic ==
  ASSUME ViewersWrite = FALSE, Rewrites = FALSE
  PROVE  Spec => Implements
<1>1. Init => AB!Init
  <2> SUFFICES ASSUME Init PROVE AB!Init
    OBVIOUS
  <2>1. ASSUME NEW k \in Keys PROVE Store[k] = Nil
    <3>1. \A t \in Txs : tx[t].backward[k] = Absent
      BY NoTxFields DEF Init, NoChanges
    <3>2. bkt.data[k] = Nil
      BY DEF Init, newBucket, EmptyTree
    <3> QED
      BY <3>1, <3>2 DEF Store
  <2>2. Store = [k \in Keys |-> Nil]
    BY <2>1 DEF Store
  <2> QED
    BY <2>2 DEF AB!Init, Init, EmptyTree
<1>2. ASSUME AInv, [Next]_vars PROVE [AB!Next]_(AB!vars)
  <2>0. /\ IInv /\ AllTx /\ Effect /\ IInv' /\ AllTx'
    <3>1. IInv /\ AllTx /\ AInv'
      BY <1>2, AInvNext, ViewersWrite = FALSE, Rewrites = FALSE DEF AInv
    <3> QED
      BY <1>2, <3>1, StepEffects, ViewersWrite = FALSE, Rewrites = FALSE DEF AInv
  <2>1. ASSUME \A k \in Keys : Store'[k] = Store[k] PROVE Store' = Store
    BY <2>1 DEF Store
  <2>2. CASE StoreRests /\ Quiet
    BY <2>1, <2>2 DEF StoreRests, Quiet, AB!vars
  <2>3. ASSUME NEW t \in Txs, Commits(t) PROVE AB!Commit
    <3> DEFINE written == {k \in Keys : tx[t].forward[k] # Absent}
               new == [k \in Keys |-> IF tx[t].forward[k] = Absent
                                      THEN Nil ELSE tx[t].forward[k]]
    <3>1. tx[t].forward \in [Keys -> Entries \cup {Nil, Absent}]
      BY <2>0 DEF IInv, TypeOK, TxRecords, RbCtx
    <3>2. written \in SUBSET Keys /\ new \in AB!Contents
      BY <3>1 DEF AB!Contents
    <3>3. StoreCommits(t)
      BY <2>0, <2>3, StoreEffects
    <3>4. Store' = [k \in Keys |-> IF k \in written THEN new[k] ELSE Store[k]]
      BY <3>3 DEF StoreCommits, Store
    <3>5. /\ logged' = [k \in Keys |-> IF k \in written THEN new[k] ELSE logged[k]]
          /\ now' = now
      BY <2>3 DEF Commits
    <3> HIDE DEF written, new
    <3> QED
      BY <3>2, <3>4, <3>5 DEF AB!Commit
  <2>4. ASSUME NEW k \in Keys, Evicts(k) PROVE AB!Evict
    <3>1. StoreEvicts(k)
      BY <2>0, <2>4, StoreEffects
    <3>2. Store' = [Store EXCEPT ![k] = Nil]
      BY <3>1 DEF StoreEvicts, Store
    <3>3. AB!IsExpired(Store[k], now)
      BY <2>4, <3>1, EntriesAssumption
      DEF Evicts, StoreEvicts, AB!IsExpired, IsExpired
    <3> QED
      BY <2>4, <3>2, <3>3 DEF Evicts, Quiet, AB!Evict
  <2>5. CASE Rests
    <3>1. StoreRests
      BY <2>0, <2>5, StoreEffects
    <3>2. Store' = Store
      BY <2>1, <3>1 DEF StoreRests
    <3> QED
      BY <2>5, <3>2 DEF Rests, AB!Next, AB!Tick, AB!vars
  <2>6. CASE \E t \in Txs : Begins(t) \/ Runs(t) \/ Ends(t)
    BY <2>0, <2>2, <2>6, StoreEffects DEF Begins, Runs, Ends
  <2>7. CASE \E t \in Txs, k \in Keys, new \in Entries \cup {Nil} : Writes(t, k, new)
    BY <2>0, <2>2, <2>7, StoreEffects, SMTT(30) DEF Writes
  <2>8. CASE \E t \in Txs, k \in Keys : Undoes(t, k)
    BY <2>0, <2>2, <2>8, StoreEffects DEF Undoes
  <2> QED
    BY <2>0, <2>3, <2>4, <2>5, <2>6, <2>7, <2>8 DEF Effect, AB!Next
<1>3. AInv /\ [Next]_vars => [AB!Next]_(AB!vars)
  BY <1>2
<1> QED
  BY <1>1, <1>3, AInvariance, ViewersWrite = FALSE, Rewrites = FALSE, PTL
  DEF Spec, Implements, AB!Spec
=============================================================================
